------------------------- MODULE PayoffGraphProofs -------------------------
(***************************************************************************)
(* The payoff compiler, for every canonical document, every digest         *)
(* function and both calls of a comparison: each canonical node is         *)
(* compiled once, after its children; the payoff table is faithful to what *)
(* was compiled; and the second traversal returns exactly what the payoff  *)
(* root reaches.  Neither walk needs the document to be acyclic: a cycle   *)
(* ends the call.  What is returned pays what the document pays, and the   *)
(* graphs of two calls are equal exactly when they are of one contract.    *)
(***************************************************************************)
EXTENDS PayoffMeaning, DocumentLemmas

-----------------------------------------------------------------------------
(* The iterative traversal that the payoff compiler runs twice: frames     *)
(* [id, leaving] on a stack, a colour per id that was met, "visiting" while *)
(* its marker is on the stack and "visited" after.  These are the lemmas   *)
(* that both walks share; kids is a function from ids to sets of ids, r    *)
(* the root, s the stack and C the colours.                                *)

WFrames(U) == [id : U, leaving : BOOLEAN]
VisitedIn(C) == {x \in DOMAIN C : C[x] = "visited"}

\* No id has two markers.
Distinct(s) ==
  \A i, j \in 1..Len(s) :
    i < j /\ s[i].leaving /\ s[j].leaving => s[i].id # s[j].id

Marked(s, C) ==
  \A i \in 1..Len(s) :
    s[i].leaving => s[i].id \in DOMAIN C /\ C[s[i].id] = "visiting"

\* A child of a marked id is visited or scheduled above the marker.
Pending(kids, s, C) ==
  \A i \in 1..Len(s) :
    s[i].leaving =>
      \A c \in kids[s[i].id] :
        c \in VisitedIn(C) \/ \E j \in 1..Len(s) : i < j /\ s[j].id = c

\* The root is visited or still scheduled.
Expected(r, s, C) == r \in VisitedIn(C) \/ \E i \in 1..Len(s) : s[i].id = r

Coloured(U, C) ==
  DOMAIN C \subseteq U /\ \A x \in DOMAIN C : C[x] \in {"visiting", "visited"}

ClosedIn(kids, C) == \A c \in VisitedIn(C) : kids[c] \subseteq VisitedIn(C)

StackFits(kids, r, s, C) ==
  Distinct(s) /\ Marked(s, C) /\ Pending(kids, s, C) /\ Expected(r, s, C)

WalkInv(U, kids, r, s, C) ==
  /\ s \in Seq(WFrames(U))
  /\ Coloured(U, C) /\ ClosedIn(kids, C)
  /\ StackFits(kids, r, s, C)

-----------------------------------------------------------------------------
LEMMA VisitedFacts ==
  ASSUME NEW C, NEW n
  PROVE  /\ VisitedIn(Extended(C, n, "visiting")) = VisitedIn(C) \ {n}
         /\ VisitedIn(Extended(C, n, "visited")) = VisitedIn(C) \cup {n}
<1>1. VisitedIn(Extended(C, n, "visiting")) = VisitedIn(C) \ {n}
  BY DEF VisitedIn, Extended
<1>2. VisitedIn(Extended(C, n, "visited")) = VisitedIn(C) \cup {n}
  BY DEF VisitedIn, Extended
<1>3. QED
  BY <1>1, <1>2

\* The walk starts with the root alone on the stack.
LEMMA WalkStarts ==
  ASSUME NEW U, NEW kids, NEW r \in U, NEW f \in WFrames(U), f.id = r, ~f.leaving
  PROVE  WalkInv(U, kids, r, << f >>, << >>)
<1> DEFINE s == << f >>
           C == << >>
<1>1. s \in Seq(WFrames(U)) /\ Len(s) = 1 /\ s[1] = f
  OBVIOUS
<1>2. DOMAIN C = {}
  OBVIOUS
<1> HIDE DEF s, C
<1>3. \A i \in 1..Len(s) : i = 1 /\ s[i] = f
  BY <1>1
<1>4. 1 \in 1..Len(s)
  BY <1>1
<1>5. Coloured(U, C) /\ ClosedIn(kids, C)
  BY <1>2 DEF Coloured, ClosedIn, VisitedIn
<1>6. StackFits(kids, r, s, C)
  BY <1>3, <1>4 DEF StackFits, Distinct, Marked, Pending, Expected
<1>7. WalkInv(U, kids, r, s, C)
  BY <1>1, <1>5, <1>6 DEF WalkInv
<1>8. QED
  BY <1>7 DEF s, C

\* A visited id is popped: nobody waits for it any more.
LEMMA WalkPops ==
  ASSUME NEW U, NEW kids, NEW r, NEW s, NonEmpty(s, WFrames(U)), NEW C,
         WalkInv(U, kids, r, s, C), s[Len(s)].id \in VisitedIn(C)
  PROVE  WalkInv(U, kids, r, Popped(s), C)
<1> DEFINE t == Popped(s)
<1>1. /\ Len(s) \in Nat \ {0} /\ Len(t) = Len(s) - 1
      /\ t \in Seq(WFrames(U))
      /\ \A i \in 1..(Len(s) - 1) : t[i] = s[i]
  BY PopFacts
<1> HIDE DEF t
<1>2. \A i \in 1..Len(t) : i \in 1..Len(s) /\ t[i] = s[i]
  BY <1>1
<1>3. \A i \in 1..Len(s) : i \in 1..Len(t) \/ i = Len(s)
  BY <1>1
<1>4. Distinct(t) /\ Marked(t, C)
  BY <1>2 DEF WalkInv, StackFits, Distinct, Marked
<1>5. Pending(kids, t, C)
  <2>1. SUFFICES ASSUME NEW i \in 1..Len(t), t[i].leaving,
                        NEW c \in kids[t[i].id], c \notin VisitedIn(C)
                 PROVE  \E j \in 1..Len(t) : i < j /\ t[j].id = c
    BY DEF Pending
  <2>2. PICK j \in 1..Len(s) : i < j /\ s[j].id = c
    BY <1>2, <2>1 DEF WalkInv, StackFits, Pending
  <2>3. QED
    BY <1>2, <1>3, <2>1, <2>2
<1>6. Expected(r, t, C)
  BY <1>2, <1>3 DEF WalkInv, StackFits, Expected
<1>7. QED
  BY <1>1, <1>4, <1>5, <1>6 DEF WalkInv, StackFits, t

\* The marker of n surfaces: its children are visited, n itself is not.
LEMMA WalkLeaves ==
  ASSUME NEW U, NEW kids, NEW r, NEW s, NonEmpty(s, WFrames(U)), NEW C,
         WalkInv(U, kids, r, s, C), s[Len(s)].leaving
  PROVE  /\ s[Len(s)].id \in U \ VisitedIn(C)
         /\ kids[s[Len(s)].id] \subseteq VisitedIn(C)
         /\ WalkInv(U, kids, r, Popped(s), Extended(C, s[Len(s)].id, "visited"))
<1> DEFINE t == Popped(s)
           n == s[Len(s)].id
           E == Extended(C, n, "visited")
<1>1. /\ Len(s) \in Nat \ {0} /\ Len(t) = Len(s) - 1
      /\ t \in Seq(WFrames(U)) /\ s[Len(s)] \in WFrames(U)
      /\ \A i \in 1..(Len(s) - 1) : t[i] = s[i]
  BY PopFacts
<1>2. /\ DOMAIN E = DOMAIN C \cup {n} /\ E[n] = "visited"
      /\ \A z \in DOMAIN C : z # n => E[z] = C[z]
  BY DEF Extended
<1>3. VisitedIn(E) = VisitedIn(C) \cup {n}
  BY VisitedFacts
<1> HIDE DEF t, E
<1>4. \A i \in 1..Len(t) : i \in 1..Len(s) /\ i < Len(s) /\ t[i] = s[i]
  BY <1>1
<1>5. \A i \in 1..Len(s) : i \in 1..Len(t) \/ i = Len(s)
  BY <1>1
<1>6. Len(s) \in 1..Len(s) /\ \A i \in 1..Len(s) : ~(Len(s) < i)
  BY <1>1
<1>7. n \in U \ VisitedIn(C) /\ kids[n] \subseteq VisitedIn(C)
  <2>1. n \in U
    BY <1>1 DEF WFrames
  <2>2. n \notin VisitedIn(C)
    BY <1>6 DEF WalkInv, StackFits, Marked, VisitedIn
  <2>3. kids[n] \subseteq VisitedIn(C)
    BY <1>6 DEF WalkInv, StackFits, Pending
  <2>4. QED
    BY <2>1, <2>2, <2>3
<1>8. \A i \in 1..Len(t) : t[i].leaving => t[i].id # n
  BY <1>4, <1>6 DEF WalkInv, StackFits, Distinct
<1>9. Distinct(t) /\ Marked(t, E)
  <2>1. Distinct(t)
    BY <1>4 DEF WalkInv, StackFits, Distinct
  <2>2. Marked(t, E)
    BY <1>2, <1>4, <1>8 DEF WalkInv, StackFits, Marked
  <2>3. QED
    BY <2>1, <2>2
<1>10. Pending(kids, t, E)
  <2>1. SUFFICES ASSUME NEW i \in 1..Len(t), t[i].leaving,
                        NEW c \in kids[t[i].id], c \notin VisitedIn(E)
                 PROVE  \E j \in 1..Len(t) : i < j /\ t[j].id = c
    BY DEF Pending
  <2>2. c \notin VisitedIn(C) /\ c # n
    BY <1>3, <2>1
  <2>3. PICK j \in 1..Len(s) : i < j /\ s[j].id = c
    BY <1>4, <2>1, <2>2 DEF WalkInv, StackFits, Pending
  <2>4. QED
    BY <1>4, <1>5, <2>1, <2>2, <2>3
<1>11. Expected(r, t, E)
  BY <1>3, <1>4, <1>5 DEF WalkInv, StackFits, Expected
<1>12. Coloured(U, E) /\ ClosedIn(kids, E)
  <2>1. Coloured(U, E)
    BY <1>2, <1>7 DEF WalkInv, Coloured
  <2>2. ClosedIn(kids, E)
    BY <1>3, <1>7 DEF WalkInv, ClosedIn
  <2>3. QED
    BY <2>1, <2>2
<1>13. WalkInv(U, kids, r, t, E)
  BY <1>1, <1>9, <1>10, <1>11, <1>12 DEF WalkInv, StackFits
<1>14. QED
  BY <1>7, <1>13 DEF t, E

\* The frames above a marker are one per child, none of them a marker.
Schedules(above, children, U) ==
  /\ above \in Seq(WFrames(U))
  /\ \A i \in 1..Len(above) : above[i].leaving = FALSE
  /\ \A c \in children : \E i \in 1..Len(above) : above[i].id = c

\* An id that was never met is marked, its children are scheduled above it.
LEMMA WalkEnters ==
  ASSUME NEW U, NEW kids, NEW r, NEW s, NonEmpty(s, WFrames(U)), NEW C,
         WalkInv(U, kids, r, s, C), s[Len(s)].id \notin DOMAIN C,
         NEW f \in WFrames(U), f.id = s[Len(s)].id, f.leaving,
         NEW above, Schedules(above, kids[s[Len(s)].id], U)
  PROVE  WalkInv(U, kids, r, Pushed(s, f, above),
                 Extended(C, s[Len(s)].id, "visiting"))
<1> DEFINE n == s[Len(s)].id
           m == Len(s)
           k == Len(above)
           t == Pushed(s, f, above)
           E == Extended(C, n, "visiting")
<1>1. m \in Nat \ {0} /\ s[m] \in WFrames(U) /\ n \in U
  <2>1. m \in Nat \ {0} /\ s[m] \in WFrames(U)
    BY PopFacts
  <2>2. QED
    BY <2>1 DEF WFrames
<1>2. above \in Seq(WFrames(U)) /\ k \in Nat
  BY LenProperties DEF Schedules
<1>3. /\ t \in Seq(WFrames(U)) /\ Len(t) = m + k
      /\ \A i \in 1..(m - 1) : t[i] = s[i]
      /\ t[m] = f
      /\ \A i \in 1..k : t[m + i] = above[i]
  <2>1. t \in Seq(WFrames(U)) /\ IsPushed(t, s, f, above)
    BY <1>2, PushFacts
  <2>2. QED
    BY <2>1 DEF IsPushed
<1>4. /\ DOMAIN E = DOMAIN C \cup {n} /\ E[n] = "visiting"
      /\ \A z \in DOMAIN C : z # n => E[z] = C[z]
  BY DEF Extended
<1>5. VisitedIn(E) = VisitedIn(C) /\ n \notin VisitedIn(C)
  <2>1. n \notin VisitedIn(C)
    BY DEF VisitedIn
  <2>2. VisitedIn(E) = VisitedIn(C) \ {n}
    BY VisitedFacts
  <2>3. QED
    BY <2>1, <2>2
<1> HIDE DEF t, E
<1>6. \A i \in 1..m : /\ i \in 1..Len(t) /\ t[i].id = s[i].id
                      /\ i < m => t[i] = s[i]
  <2>1. ASSUME NEW i \in 1..m PROVE i \in 1..Len(t) /\ (i < m => i \in 1..(m - 1))
    BY <1>1, <1>2, <1>3
  <2>2. \A i \in 1..m : i < m \/ i = m
    BY <1>1
  <2>3. QED
    BY <1>3, <2>1, <2>2
<1>7. \A i \in 1..Len(t) : i < m \/ i = m \/ i > m
  BY <1>1, <1>3
<1>8. ASSUME NEW i \in 1..Len(t), i > m PROVE t[i].leaving = FALSE
  <2>1. i - m \in 1..k /\ m + (i - m) = i
    BY <1>1, <1>2, <1>3, <1>8
  <2>2. t[i] = above[i - m]
    BY <1>3, <2>1
  <2>3. QED
    BY <2>1, <2>2 DEF Schedules
<1>9. \A i \in 1..Len(t) :
        t[i].leaving => i \in 1..m /\ (i < m => s[i].leaving /\ i \in 1..m)
  <2>1. \A i \in 1..Len(t) : i > m \/ i \in 1..m
    BY <1>1, <1>7
  <2>2. QED
    BY <1>6, <1>8, <2>1
<1>10. ASSUME NEW c \in kids[n]
       PROVE  \E j \in 1..Len(t) : m < j /\ t[j].id = c
  <2>1. PICK i \in 1..k : above[i].id = c
    BY <1>10 DEF Schedules
  <2>2. m + i \in 1..Len(t) /\ m < m + i
    BY <1>1, <1>2, <1>3
  <2>3. t[m + i] = above[i]
    BY <1>3
  <2>4. QED
    BY <2>1, <2>2, <2>3
<1>11. \A i \in 1..m : s[i].leaving => s[i].id # n
  BY DEF WalkInv, StackFits, Marked
<1>12. Distinct(t)
  <2>1. SUFFICES ASSUME NEW i \in 1..Len(t), NEW j \in 1..Len(t), i < j,
                        t[i].leaving, t[j].leaving
                 PROVE  t[i].id # t[j].id
    BY DEF Distinct
  <2>2. i \in 1..m /\ j \in 1..m /\ i < m
    BY <1>1, <1>9, <2>1
  <2>3. s[i].leaving /\ t[i].id = s[i].id /\ t[j].id = s[j].id
    BY <1>6, <1>9, <2>1, <2>2
  <2>4. CASE j = m
    BY <1>11, <2>2, <2>3, <2>4
  <2>5. CASE j < m
    <3>1. s[j].leaving
      BY <1>9, <2>1, <2>5
    <3>2. QED
      BY <2>1, <2>2, <2>3, <3>1 DEF WalkInv, StackFits, Distinct
  <2>6. QED
    BY <1>1, <2>2, <2>4, <2>5
<1>13. Marked(t, E)
  <2>1. SUFFICES ASSUME NEW i \in 1..Len(t), t[i].leaving
                 PROVE  t[i].id \in DOMAIN E /\ E[t[i].id] = "visiting"
    BY DEF Marked
  <2>2. i \in 1..m /\ t[i].id = s[i].id /\ (i < m => s[i].leaving)
    BY <1>6, <1>9, <2>1
  <2>3. CASE i = m
    BY <1>4, <2>2, <2>3
  <2>4. CASE i < m
    <3>1. s[i].id \in DOMAIN C /\ C[s[i].id] = "visiting" /\ s[i].id # n
      BY <1>11, <2>2, <2>4 DEF WalkInv, StackFits, Marked
    <3>2. QED
      BY <1>4, <2>2, <3>1
  <2>5. QED
    BY <1>7, <2>2, <2>3, <2>4
<1>14. Pending(kids, t, E)
  <2>1. SUFFICES ASSUME NEW i \in 1..Len(t), t[i].leaving,
                        NEW c \in kids[t[i].id], c \notin VisitedIn(C)
                 PROVE  \E j \in 1..Len(t) : i < j /\ t[j].id = c
    BY <1>5 DEF Pending
  <2>2. i \in 1..m /\ t[i].id = s[i].id /\ (i < m => s[i].leaving)
    BY <1>6, <1>9, <2>1
  <2>3. CASE i < m
    <3>1. PICK j \in 1..m : i < j /\ s[j].id = c
      BY <2>1, <2>2, <2>3 DEF WalkInv, StackFits, Pending
    <3>2. QED
      BY <1>6, <3>1
  <2>4. CASE i = m
    BY <1>10, <2>1, <2>2, <2>4
  <2>5. QED
    BY <1>1, <2>2, <2>3, <2>4
<1>15. Expected(r, t, E)
  BY <1>5, <1>6 DEF WalkInv, StackFits, Expected
<1>16. Coloured(U, E) /\ ClosedIn(kids, E)
  <2>1. Coloured(U, E)
    BY <1>1, <1>4 DEF WalkInv, Coloured
  <2>2. ClosedIn(kids, E)
    BY <1>5 DEF WalkInv, ClosedIn
  <2>3. QED
    BY <2>1, <2>2
<1>17. WalkInv(U, kids, r, t, E)
  BY <1>3, <1>12, <1>13, <1>14, <1>15, <1>16 DEF WalkInv, StackFits
<1>18. QED
  BY <1>17 DEF t, E

\* The stack is empty: the root is visited, and so is what it reaches.
LEMMA WalkFinishes ==
  ASSUME NEW U, NEW kids, NEW r, NEW s, s = << >>, NEW C,
         WalkInv(U, kids, r, s, C)
  PROVE  r \in VisitedIn(C) /\ ClosedIn(kids, C)
<1>1. Len(s) = 0
  OBVIOUS
<1>2. QED
  BY <1>1 DEF WalkInv, StackFits, Expected

-----------------------------------------------------------------------------
(* Where references go down, the walk never comes back to an id whose      *)
(* marker is still on the stack.                                           *)

\* Up to the next marker, a marker has children of its id above it.
Chained(kids, s) ==
  \A i, j \in 1..Len(s) :
    /\ i < j /\ s[i].leaving
    /\ \A k \in 1..Len(s) : i < k /\ k < j => ~s[k].leaving
    => s[j].id \in kids[s[i].id]

\* An id is "visiting" because of its marker.
Owned(s, C) ==
  \A x \in DOMAIN C :
    C[x] = "visiting" => \E i \in 1..Len(s) : s[i].leaving /\ s[i].id = x

PathInv(kids, s, C) == Chained(kids, s) /\ Owned(s, C)

\* Among any ids there is one that refers to none of them.
GoesDown(kids, U) ==
  \A S \in SUBSET U : S # {} => \E x \in S : kids[x] \cap S = {}

LEMMA PathStarts ==
  ASSUME NEW kids, NEW f
  PROVE  PathInv(kids, << f >>, << >>)
<1> DEFINE s == << f >>
           C == << >>
<1>1. Len(s) = 1 /\ DOMAIN C = {}
  OBVIOUS
<1> HIDE DEF s, C
<1>2. ~ \E i, j \in 1..Len(s) : i < j
  BY <1>1
<1>3. PathInv(kids, s, C)
  BY <1>1, <1>2 DEF PathInv, Chained, Owned
<1>4. QED
  BY <1>3 DEF s, C

LEMMA PopsChained ==
  ASSUME NEW U, NEW kids, NEW s, NonEmpty(s, WFrames(U)), Chained(kids, s)
  PROVE  Chained(kids, Popped(s))
<1> DEFINE t == Popped(s)
<1>1. /\ Len(s) \in Nat \ {0} /\ Len(t) = Len(s) - 1
      /\ \A i \in 1..(Len(s) - 1) : t[i] = s[i]
  BY PopFacts
<1> HIDE DEF t
<1>2. \A i \in 1..Len(t) : i \in 1..Len(s) /\ t[i] = s[i]
  BY <1>1
<1>3. SUFFICES ASSUME NEW i \in 1..Len(t), NEW j \in 1..Len(t), i < j, t[i].leaving,
                      \A k \in 1..Len(t) : i < k /\ k < j => ~t[k].leaving
               PROVE  t[j].id \in kids[t[i].id]
  BY DEF Chained, t
<1>4. \A k \in 1..Len(s) : i < k /\ k < j => k \in 1..Len(t)
  BY <1>1
<1>5. \A k \in 1..Len(s) : i < k /\ k < j => ~s[k].leaving
  BY <1>2, <1>3, <1>4
<1>6. s[j].id \in kids[s[i].id]
  BY <1>2, <1>3, <1>5 DEF Chained
<1>7. QED
  BY <1>2, <1>6

LEMMA PathPops ==
  ASSUME NEW U, NEW kids, NEW s, NonEmpty(s, WFrames(U)), NEW C,
         PathInv(kids, s, C), ~s[Len(s)].leaving
  PROVE  PathInv(kids, Popped(s), C)
<1> DEFINE t == Popped(s)
<1>1. /\ Len(s) \in Nat \ {0} /\ Len(t) = Len(s) - 1
      /\ \A i \in 1..(Len(s) - 1) : t[i] = s[i]
  BY PopFacts
<1>2. Chained(kids, t)
  BY PopsChained DEF PathInv
<1> HIDE DEF t
<1>3. Owned(t, C)
  <2>1. SUFFICES ASSUME NEW x \in DOMAIN C, C[x] = "visiting"
                 PROVE  \E i \in 1..Len(t) : t[i].leaving /\ t[i].id = x
    BY DEF Owned
  <2>2. PICK i \in 1..Len(s) : s[i].leaving /\ s[i].id = x
    BY <2>1 DEF PathInv, Owned
  <2>3. i \in 1..(Len(s) - 1)
    BY <1>1, <2>2
  <2>4. QED
    BY <1>1, <2>2, <2>3
<1>4. QED
  BY <1>2, <1>3 DEF PathInv, t

LEMMA PathLeaves ==
  ASSUME NEW U, NEW kids, NEW s, NonEmpty(s, WFrames(U)), NEW C,
         PathInv(kids, s, C)
  PROVE  PathInv(kids, Popped(s), Extended(C, s[Len(s)].id, "visited"))
<1> DEFINE t == Popped(s)
           n == s[Len(s)].id
           E == Extended(C, n, "visited")
<1>1. /\ Len(s) \in Nat \ {0} /\ Len(t) = Len(s) - 1
      /\ \A i \in 1..(Len(s) - 1) : t[i] = s[i]
  BY PopFacts
<1>2. Chained(kids, t)
  BY PopsChained DEF PathInv
<1>3. \A x \in DOMAIN E : E[x] = "visiting" => x \in DOMAIN C /\ C[x] = "visiting" /\ x # n
  BY DEF Extended
<1> HIDE DEF t, E
<1>4. Owned(t, E)
  <2>1. SUFFICES ASSUME NEW x \in DOMAIN E, E[x] = "visiting"
                 PROVE  \E i \in 1..Len(t) : t[i].leaving /\ t[i].id = x
    BY DEF Owned
  <2>2. PICK i \in 1..Len(s) : s[i].leaving /\ s[i].id = x
    BY <1>3, <2>1 DEF PathInv, Owned
  <2>3. i # Len(s)
    BY <1>3, <2>1, <2>2
  <2>4. i \in 1..(Len(s) - 1)
    BY <1>1, <2>3
  <2>5. QED
    BY <1>1, <2>2, <2>4
<1>5. QED
  BY <1>2, <1>4 DEF PathInv, t, E

\* The frames above a marker are children of its id only.
LEMMA PathEnters ==
  ASSUME NEW U, NEW kids, NEW s, NonEmpty(s, WFrames(U)), NEW C,
         PathInv(kids, s, C), ~s[Len(s)].leaving,
         NEW f \in WFrames(U), f.id = s[Len(s)].id, f.leaving,
         NEW above, Schedules(above, kids[s[Len(s)].id], U),
         \A i \in 1..Len(above) : above[i].id \in kids[s[Len(s)].id]
  PROVE  PathInv(kids, Pushed(s, f, above), Extended(C, s[Len(s)].id, "visiting"))
<1> DEFINE n == s[Len(s)].id
           m == Len(s)
           k == Len(above)
           t == Pushed(s, f, above)
           E == Extended(C, n, "visiting")
<1>1. m \in Nat \ {0}
  BY PopFacts
<1>2. above \in Seq(WFrames(U)) /\ k \in Nat
  BY LenProperties DEF Schedules
<1>3. /\ Len(t) = m + k
      /\ \A i \in 1..(m - 1) : t[i] = s[i]
      /\ t[m] = f
      /\ \A i \in 1..k : t[m + i] = above[i]
  <2>1. IsPushed(t, s, f, above)
    BY <1>2, PushFacts
  <2>2. QED
    BY <2>1 DEF IsPushed
<1>4. \A x \in DOMAIN E : E[x] = "visiting" => x = n \/ (x \in DOMAIN C /\ C[x] = "visiting")
  BY DEF Extended
<1> HIDE DEF t, E
<1>5. \A i \in 1..m : i \in 1..Len(t) /\ t[i].id = s[i].id /\ (i < m => t[i] = s[i])
  <2>1. ASSUME NEW i \in 1..m PROVE i \in 1..Len(t) /\ (i < m => i \in 1..(m - 1))
    BY <1>1, <1>2, <1>3
  <2>2. \A i \in 1..m : i < m \/ i = m
    BY <1>1
  <2>3. QED
    BY <1>3, <2>1, <2>2
<1>6. ASSUME NEW j \in 1..Len(t), j > m
      PROVE  t[j].leaving = FALSE /\ t[j].id \in kids[n]
  <2>1. j - m \in 1..k /\ m + (j - m) = j
    BY <1>1, <1>2, <1>3, <1>6
  <2>2. t[j] = above[j - m]
    BY <1>3, <2>1
  <2>3. QED
    BY <2>1, <2>2 DEF Schedules
<1>7. Chained(kids, t)
  <2>1. SUFFICES ASSUME NEW i \in 1..Len(t), NEW j \in 1..Len(t), i < j, t[i].leaving,
                        \A l \in 1..Len(t) : i < l /\ l < j => ~t[l].leaving
                 PROVE  t[j].id \in kids[t[i].id]
    BY DEF Chained
  <2>2. i \in 1..m
    <3>1. ~(i > m)
      BY <1>6, <2>1
    <3>2. QED
      BY <1>1, <1>2, <1>3, <3>1
  <2>3. CASE j > m
    <3>1. i = m
      <4>1. m \in 1..Len(t) /\ t[m].leaving
        BY <1>1, <1>3, <1>5
      <4>2. ~(i < m)
        BY <2>1, <2>3, <4>1
      <4>3. QED
        BY <1>1, <2>2, <4>2
    <3>2. QED
      BY <1>3, <1>6, <2>3, <3>1
  <2>4. CASE ~(j > m)
    <3>1. i < m /\ j \in 1..m
      BY <1>1, <2>1, <2>2, <2>4
    <3>2. s[i].leaving /\ t[i].id = s[i].id /\ t[j].id = s[j].id
      BY <1>5, <2>1, <2>2, <3>1
    <3>3. \A l \in 1..m : i < l /\ l < j => ~s[l].leaving
      <4>1. ASSUME NEW l \in 1..m, i < l, l < j PROVE ~s[l].leaving
        <5>1. l < m
          BY <1>1, <3>1, <4>1
        <5>2. QED
          BY <1>5, <2>1, <4>1, <5>1
      <4>2. QED
        BY <4>1
    <3>4. s[j].id \in kids[s[i].id]
      BY <2>1, <2>2, <3>1, <3>2, <3>3 DEF PathInv, Chained
    <3>5. QED
      BY <3>2, <3>4
  <2>5. QED
    BY <2>3, <2>4
<1>8. Owned(t, E)
  <2>1. SUFFICES ASSUME NEW x \in DOMAIN E, E[x] = "visiting"
                 PROVE  \E i \in 1..Len(t) : t[i].leaving /\ t[i].id = x
    BY DEF Owned
  <2>2. CASE x = n
    <3>1. m \in 1..Len(t)
      BY <1>1, <1>5
    <3>2. QED
      BY <1>3, <2>2, <3>1
  <2>3. CASE x # n
    <3>1. PICK i \in 1..m : s[i].leaving /\ s[i].id = x
      BY <1>4, <2>1, <2>3 DEF PathInv, Owned
    <3>2. i < m
      BY <1>1, <3>1
    <3>3. QED
      BY <1>5, <3>1, <3>2
  <2>4. QED
    BY <2>2, <2>3
<1>9. QED
  BY <1>7, <1>8 DEF PathInv, t, E

\* The frame on top is not one of an id that is being visited.
LEMMA NeverVisiting ==
  ASSUME NEW U, NEW kids, GoesDown(kids, U),
         NEW s, NonEmpty(s, WFrames(U)), NEW C,
         PathInv(kids, s, C), ~s[Len(s)].leaving,
         s[Len(s)].id \in DOMAIN C, C[s[Len(s)].id] = "visiting"
  PROVE  FALSE
<1> DEFINE m == Len(s)
           n == s[m].id
<1>1. m \in Nat \ {0} /\ s \in Seq(WFrames(U))
  BY PopFacts DEF NonEmpty
<1>2. PICK a \in 1..m : s[a].leaving /\ s[a].id = n
  BY DEF PathInv, Owned
<1> DEFINE K == {k \in a..m : s[k].leaving}
           S == {s[k].id : k \in K}
<1>3. \A k \in K : k \in 1..m /\ k < m /\ s[k].leaving
  BY <1>1, <1>2
<1>4. S \in SUBSET U
  <2>1. \A k \in 1..m : s[k] \in WFrames(U)
    BY <1>1, ElementOfSeq
  <2>2. \A k \in 1..m : s[k].id \in U
    BY <2>1 DEF WFrames
  <2>3. QED
    BY <1>3, <2>2
<1>5. n \in S
  BY <1>1, <1>2
<1>6. ASSUME NEW k \in K PROVE kids[s[k].id] \cap S # {}
  <2> DEFINE T == {j \in (k + 1)..m : s[j].leaving \/ j = m}
  <2>1. T \subseteq Nat /\ m \in T
    BY <1>1, <1>3
  <2>2. PICK j \in T : \A i \in T : j <= i
    BY <2>1, LeastOf, Zenon
  <2>3. j \in 1..m /\ k < j /\ (s[j].leaving \/ j = m) /\ k \in Nat
    BY <1>1, <1>3, <2>2
  <2>4. \A i \in 1..m : k < i /\ i < j => ~s[i].leaving
    <3>1. ASSUME NEW i \in 1..m, k < i, i < j, s[i].leaving PROVE FALSE
      <4>1. i \in T
        BY <1>1, <2>3, <3>1
      <4>2. QED
        BY <1>1, <2>2, <2>3, <3>1, <4>1
    <3>2. QED
      BY <3>1
  <2>5. s[j].id \in kids[s[k].id]
    BY <1>3, <2>3, <2>4 DEF PathInv, Chained
  <2>6. s[j].id \in S
    <3>1. CASE s[j].leaving
      <4>1. j \in K
        BY <1>1, <1>2, <2>3, <3>1
      <4>2. QED
        BY <4>1
    <3>2. CASE j = m
      BY <1>5, <3>2
    <3>3. QED
      BY <2>3, <3>1, <3>2
  <2>7. QED
    BY <2>5, <2>6
<1>7. \A x \in S : kids[x] \cap S # {}
  BY <1>6
<1> HIDE DEF S
<1>8. QED
  BY <1>4, <1>5, <1>7 DEF GoesDown

-----------------------------------------------------------------------------
(* What map_node makes of the ids of the children.                         *)

\* m is node mapped, with references ids.
IsMapped(m, node, ids) == \E u, b : m = Mapped(node, ids, u, b)

PayloadFor(node, ids) ==
  Payload(PGType[node.type], ids, node.unit, node.val, node.num, node.op)

LeafTypes == {"Number", "Observable", "BooleanConstant", "Zero"}

\* The ids of the children, in the order of the fields or by payoff id.
RefsOf(node, kids) ==
  IF node.type \in LeafTypes THEN << >>
  ELSE IF node.type \in SortedTypes THEN SortedIds(IdsOf(kids)) ELSE IdsOf(kids)

LEMMA MappedPayload ==
  ASSUME NEW m, NEW node, NEW ids, IsMapped(m, node, ids)
  PROVE  m.payload = PayloadFor(node, ids)
<1>1. PICK u, b : m = Mapped(node, ids, u, b)
  BY DEF IsMapped
<1>2. QED
  BY <1>1 DEF Mapped, PayloadFor

LEMMA RefsOfSorted ==
  ASSUME NEW node, NEW kids,
         node.type \in {"Add", "Maximum", "Minimum", "AllOf", "AnyOf", "Multiply"}
  PROVE  RefsOf(node, kids) = SortedIds(IdsOf(kids))
BY DEF RefsOf, LeafTypes, SortedTypes, MergedTypes, CollectionTypes

LEMMA RefsOfFields ==
  ASSUME NEW node, NEW kids,
         node.type \in {"Both", "Subtract", "Divide", "Negate", "Comparison", "Not",
                        "Payment", "Scale", "ConditionalValue", "ConditionalContract"}
  PROVE  RefsOf(node, kids) = IdsOf(kids)
BY DEF RefsOf, LeafTypes, SortedTypes, MergedTypes, CollectionTypes

LEMMA ArithmeticPayload ==
  ASSUME NEW node, NEW kids,
         node.type \in {"Subtract", "Multiply", "Divide", "Negate"}
  PROVE  IsMapped(MapArithmetic(node, kids), node, RefsOf(node, kids))
<1>1. CASE node.type = "Subtract"
  <2>1. IsMapped(MapArithmetic(node, kids), node, IdsOf(kids))
    BY <1>1 DEF MapArithmetic, IsMapped
  <2>2. QED
    BY <1>1, <2>1, RefsOfFields
<1>2. CASE node.type = "Multiply"
  <2>1. IsMapped(MapArithmetic(node, kids), node, SortedIds(IdsOf(kids)))
    BY <1>2 DEF MapArithmetic, IsMapped
  <2>2. QED
    BY <1>2, <2>1, RefsOfSorted
<1>3. CASE node.type = "Divide"
  <2>1. IsMapped(MapArithmetic(node, kids), node, IdsOf(kids))
    BY <1>3 DEF MapArithmetic, IsMapped
  <2>2. QED
    BY <1>3, <2>1, RefsOfFields
<1>4. CASE node.type = "Negate"
  <2>1. IsMapped(MapArithmetic(node, kids), node, IdsOf(kids))
    BY <1>4 DEF MapArithmetic, IsMapped
  <2>2. QED
    BY <1>4, <2>1, RefsOfFields
<1>5. QED
  BY <1>1, <1>2, <1>3, <1>4

\* Whatever its type, a node is mapped field by field, to the ids of its
\* children.
LEMMA NodePayload ==
  ASSUME NEW node, NEW kids, node.type \in SupportedTypes
  PROVE  MapNode(node, kids).payload = PayloadFor(node, RefsOf(node, kids))
<1>1. CASE node.type \in LeafTypes
  <2>1. MapNode(node, kids) = MapLeaf(node)
    BY <1>1 DEF MapNode, LeafTypes
  <2>2. IsMapped(MapLeaf(node), node, << >>)
    BY DEF MapLeaf, IsMapped
  <2>3. RefsOf(node, kids) = << >>
    BY <1>1 DEF RefsOf
  <2>4. QED
    BY <2>1, <2>2, <2>3, MappedPayload
<1>2. CASE node.type \in {"Add", "Maximum", "Minimum", "AllOf", "AnyOf"}
  <2>1. MapNode(node, kids) = MapCollection(node, kids)
    BY <1>2 DEF MapNode
  <2>2. IsMapped(MapCollection(node, kids), node, SortedIds(IdsOf(kids)))
    BY DEF MapCollection, Collected, IsMapped
  <2>3. RefsOf(node, kids) = SortedIds(IdsOf(kids))
    BY <1>2, RefsOfSorted
  <2>4. QED
    BY <2>1, <2>2, <2>3, MappedPayload
<1>3. CASE node.type = "Both"
  <2>1. MapNode(node, kids) = MapBoth(node, kids)
    BY <1>3 DEF MapNode
  <2>2. IsMapped(MapBoth(node, kids), node, IdsOf(kids))
    BY DEF MapBoth, IsMapped
  <2>3. RefsOf(node, kids) = IdsOf(kids)
    BY <1>3, RefsOfFields
  <2>4. QED
    BY <2>1, <2>2, <2>3, MappedPayload
<1>4. CASE node.type \in {"Subtract", "Multiply", "Divide", "Negate"}
  <2>1. MapNode(node, kids) = MapArithmetic(node, kids)
    BY <1>4 DEF MapNode
  <2>2. QED
    BY <1>4, <2>1, ArithmeticPayload, MappedPayload
<1>5. CASE node.type \in {"Comparison", "Not"}
  <2>1. MapNode(node, kids) = MapCondition(node, kids)
    BY <1>5 DEF MapNode
  <2>2. IsMapped(MapCondition(node, kids), node, IdsOf(kids))
    BY DEF MapCondition, IsMapped
  <2>3. RefsOf(node, kids) = IdsOf(kids)
    BY <1>5, RefsOfFields
  <2>4. QED
    BY <2>1, <2>2, <2>3, MappedPayload
<1>6. CASE node.type = "Payment"
  <2>1. MapNode(node, kids) = MapPayment(node, kids)
    BY <1>6 DEF MapNode
  <2>2. IsMapped(MapPayment(node, kids), node, IdsOf(kids))
    BY DEF MapPayment, IsMapped
  <2>3. RefsOf(node, kids) = IdsOf(kids)
    BY <1>6, RefsOfFields
  <2>4. QED
    BY <2>1, <2>2, <2>3, MappedPayload
<1>7. CASE node.type = "Scale"
  <2>1. MapNode(node, kids) = MapScale(node, kids)
    BY <1>7 DEF MapNode
  <2>2. IsMapped(MapScale(node, kids), node, IdsOf(kids))
    BY DEF MapScale, IsMapped
  <2>3. RefsOf(node, kids) = IdsOf(kids)
    BY <1>7, RefsOfFields
  <2>4. QED
    BY <2>1, <2>2, <2>3, MappedPayload
<1>8. CASE node.type \in {"ConditionalValue", "ConditionalContract"}
  <2>1. MapNode(node, kids) = MapConditional(node, kids)
    BY <1>8 DEF MapNode
  <2>2. IsMapped(MapConditional(node, kids), node, IdsOf(kids))
    BY DEF MapConditional, IsMapped
  <2>3. RefsOf(node, kids) = IdsOf(kids)
    BY <1>8, RefsOfFields
  <2>4. QED
    BY <2>1, <2>2, <2>3, MappedPayload
<1>9. QED
  BY <1>1, <1>2, <1>3, <1>4, <1>5, <1>6, <1>7, <1>8
     DEF SupportedTypes, ScalarTypes, BooleanTypes, ContractTypes, LeafTypes

LEMMA NodeKidsTyped ==
  ASSUME NEW node, node.type \in SupportedTypes, NEW T \in SUBSET Nat,
         NEW kids, IdsOf(kids) \in Seq(T)
  PROVE  MapNode(node, kids).payload.kids \in Seq(T)
<1>1. SortedIds(IdsOf(kids)) \in Seq(T)
  BY SortedFacts
<1>2. << >> \in Seq(T)
  OBVIOUS
<1>3. RefsOf(node, kids) \in Seq(T)
  BY <1>1, <1>2 DEF RefsOf
<1>4. MapNode(node, kids).payload.kids = RefsOf(node, kids)
  <2>1. MapNode(node, kids).payload = PayloadFor(node, RefsOf(node, kids))
    BY NodePayload
  <2>2. PayloadFor(node, RefsOf(node, kids)).kids = RefsOf(node, kids)
    BY DEF PayloadFor, Payload
  <2>3. QED
    BY <2>1, <2>2
<1>5. QED
  BY <1>3, <1>4

-----------------------------------------------------------------------------
(* The tables of the compiler.                                             *)

TypeIn(table, id) == IF id \in DOMAIN table THEN table[id].type ELSE "none"
KidWith(c, ids, units, table) ==
  [id |-> ids[c], unit |-> units[c], type |-> TypeIn(table, ids[c])]
KidsWith(node, ids, units, table) ==
  [i \in 1..Len(node.kids) |-> KidWith(node.kids[i], ids, units, table)]
NodeWith(node, ids, units, table) ==
  MapNode(node, KidsWith(node, ids, units, table))

\* A compiled node stands for the payload and the unit it would be given now.
NodeOK(node, c, ids, units, table) ==
  /\ Seq2Set(node.kids) \subseteq DOMAIN ids
  /\ ids[c] \in DOMAIN table
  /\ table[ids[c]] = NodeWith(node, ids, units, table).payload
  /\ units[c] = NodeWith(node, ids, units, table).unit

TableOK(nodes, ids, units, table, answered) ==
  /\ ContentAddressed(table, answered)
  /\ DOMAIN table \in SUBSET Nat
  /\ DOMAIN units = DOMAIN ids
  /\ \A id \in DOMAIN table : table[id].kids \in Seq(DOMAIN table)
  /\ \A c \in DOMAIN ids : NodeOK(nodes[c], c, ids, units, table)

LEMMA CompiledIsNodeWith ==
  ASSUME NEW node
  PROVE  Compiled(node) = NodeWith(node, idOf, unitOf, payoffs)
BY DEF Compiled, NodeWith, KidsOf, KidsWith, Kid, KidWith, TypeOf, TypeIn

\* Compiling another node changes nothing of what a node sees of its children.
LEMMA KidsStable ==
  ASSUME NEW node, NEW ids, NEW units, NEW table, NEW c, NEW id, NEW u, NEW p,
         c \notin DOMAIN ids, DOMAIN units = DOMAIN ids,
         Seq2Set(node.kids) \subseteq DOMAIN ids,
         \A x \in Seq2Set(node.kids) : ids[x] \in DOMAIN table,
         id \in DOMAIN table => table[id] = p
  PROVE  NodeWith(node, Extended(ids, c, id), Extended(units, c, u),
                  Extended(table, id, p))
           = NodeWith(node, ids, units, table)
<1> DEFINE ids2 == Extended(ids, c, id)
           units2 == Extended(units, c, u)
           table2 == Extended(table, id, p)
<1>1. \A x \in DOMAIN ids : ids2[x] = ids[x] /\ units2[x] = units[x]
  BY DEF Extended
<1>2. \A y \in DOMAIN table : y \in DOMAIN table2 /\ table2[y] = table[y]
  BY DEF Extended
<1> HIDE DEF ids2, units2, table2
<1>3. ASSUME NEW i \in 1..Len(node.kids)
      PROVE  KidWith(node.kids[i], ids2, units2, table2)
               = KidWith(node.kids[i], ids, units, table)
  <2> DEFINE x == node.kids[i]
  <2>1. x \in Seq2Set(node.kids)
    BY DEF Seq2Set
  <2> HIDE DEF x
  <2>2. x \in DOMAIN ids /\ ids[x] \in DOMAIN table
    BY <2>1
  <2>3. /\ ids2[x] = ids[x] /\ units2[x] = units[x]
        /\ TypeIn(table2, ids[x]) = TypeIn(table, ids[x])
    BY <1>1, <1>2, <2>2 DEF TypeIn
  <2>4. KidWith(x, ids2, units2, table2) = KidWith(x, ids, units, table)
    BY <2>3 DEF KidWith
  <2>5. QED
    BY <2>4 DEF x
<1>4. KidsWith(node, ids2, units2, table2) = KidsWith(node, ids, units, table)
  BY <1>3 DEF KidsWith
<1>5. QED
  BY <1>4 DEF NodeWith, ids2, units2, table2

\* The ids that the children have are ids of the table.
LEMMA KidIdsTyped ==
  ASSUME NEW node, NEW ids, NEW units, NEW table, Len(node.kids) \in Nat,
         \A x \in Seq2Set(node.kids) : ids[x] \in DOMAIN table
  PROVE  IdsOf(KidsWith(node, ids, units, table)) \in Seq(DOMAIN table)
<1> DEFINE kids == KidsWith(node, ids, units, table)
           n == Len(node.kids)
<1>1. DOMAIN kids = 1..n /\ \A i \in 1..n : kids[i].id = ids[node.kids[i]]
  BY DEF KidsWith, KidWith
<1>2. Len(kids) = n
  <2>1. kids \in [1..n -> {kids[i] : i \in 1..n}]
    BY DEF KidsWith
  <2>2. kids \in Seq({kids[i] : i \in 1..n})
    BY <2>1, SeqDef
  <2>3. QED
    BY <2>1, <2>2, LenProperties
<1> HIDE DEF kids
<1>3. \A i \in 1..n : kids[i].id \in DOMAIN table
  BY <1>1 DEF Seq2Set
<1>4. IdsOf(kids) \in [1..n -> DOMAIN table]
  BY <1>2, <1>3 DEF IdsOf
<1>5. IdsOf(kids) \in Seq(DOMAIN table)
  BY <1>4, SeqDef
<1>6. QED
  BY <1>5 DEF kids

\* Compiling c, after its children and under an id that no other payload has.
LEMMA TableGrows ==
  ASSUME NEW nodes, NEW ids, NEW units, NEW table, NEW answered,
         TableOK(nodes, ids, units, table, answered),
         NEW c, c \notin DOMAIN ids, nodes[c].type \in SupportedTypes,
         Len(nodes[c].kids) \in Nat,
         Seq2Set(nodes[c].kids) \subseteq DOMAIN ids,
         NEW p, p = NodeWith(nodes[c], ids, units, table).payload,
         NEW u, u = NodeWith(nodes[c], ids, units, table).unit,
         NEW id \in Answers(answered, p), id \in Nat,
         id \in DOMAIN table => table[id] = p
  PROVE  TableOK(nodes, Extended(ids, c, id), Extended(units, c, u),
                 Extended(table, id, p), Extended(answered, p, id))
<1> DEFINE ids2 == Extended(ids, c, id)
           units2 == Extended(units, c, u)
           table2 == Extended(table, id, p)
           answered2 == Extended(answered, p, id)
<1>1. ContentAddressed(table2, answered2)
  <2>1. ContentAddressed(table, answered)
    BY DEF TableOK
  <2>2. QED
    BY <2>1, EnteringKeepsTable
<1>2. /\ DOMAIN table2 = DOMAIN table \cup {id} /\ table2[id] = p
      /\ \A y \in DOMAIN table : table2[y] = table[y]
  BY DEF Extended
<1>3. /\ DOMAIN ids2 = DOMAIN ids \cup {c} /\ ids2[c] = id
      /\ \A x \in DOMAIN ids : ids2[x] = ids[x]
      /\ DOMAIN units2 = DOMAIN ids \cup {c} /\ units2[c] = u
      /\ \A x \in DOMAIN ids : units2[x] = units[x]
  BY DEF Extended, TableOK
<1>4. ASSUME NEW d \in DOMAIN ids \cup {c}
      PROVE  /\ Seq2Set(nodes[d].kids) \subseteq DOMAIN ids
             /\ NodeWith(nodes[d], ids2, units2, table2)
                  = NodeWith(nodes[d], ids, units, table)
  <2>1. Seq2Set(nodes[d].kids) \subseteq DOMAIN ids
    BY DEF TableOK, NodeOK
  <2>2. \A x \in Seq2Set(nodes[d].kids) : ids[x] \in DOMAIN table
    BY <2>1 DEF TableOK, NodeOK
  <2>3. DOMAIN units = DOMAIN ids
    BY DEF TableOK
  <2>4. QED
    BY <2>1, <2>2, <2>3, KidsStable
<1>5. p.kids \in Seq(DOMAIN table)
  <2>1. \A x \in Seq2Set(nodes[c].kids) : ids[x] \in DOMAIN table
    BY DEF TableOK, NodeOK
  <2>2. IdsOf(KidsWith(nodes[c], ids, units, table)) \in Seq(DOMAIN table)
    BY <2>1, KidIdsTyped
  <2>3. DOMAIN table \in SUBSET Nat
    BY DEF TableOK
  <2>4. QED
    BY <2>2, <2>3, NodeKidsTyped DEF NodeWith
<1> HIDE DEF ids2, units2, table2, answered2
<1>6. DOMAIN table2 \in SUBSET Nat
  BY <1>2 DEF TableOK
<1>7. ASSUME NEW y \in DOMAIN table2 PROVE table2[y].kids \in Seq(DOMAIN table2)
  <2>1. table2[y].kids \in Seq(DOMAIN table)
    BY <1>2, <1>5 DEF TableOK
  <2>2. DOMAIN table \subseteq DOMAIN table2
    BY <1>2
  <2>3. QED
    BY <2>1, <2>2, WiderSeq
<1>8. ASSUME NEW d \in DOMAIN ids2
      PROVE  NodeOK(nodes[d], d, ids2, units2, table2)
  <2>1. d \in DOMAIN ids \cup {c}
    BY <1>3
  <2>2. /\ Seq2Set(nodes[d].kids) \subseteq DOMAIN ids2
        /\ NodeWith(nodes[d], ids2, units2, table2)
             = NodeWith(nodes[d], ids, units, table)
    BY <1>3, <1>4, <2>1
  <2>3. CASE d = c
    <3>1. /\ ids2[d] \in DOMAIN table2
          /\ table2[ids2[d]] = NodeWith(nodes[d], ids, units, table).payload
          /\ units2[d] = NodeWith(nodes[d], ids, units, table).unit
      BY <1>2, <1>3, <2>3
    <3>2. QED
      BY <2>2, <3>1 DEF NodeOK
  <2>4. CASE d # c
    <3>1. d \in DOMAIN ids /\ NodeOK(nodes[d], d, ids, units, table)
      BY <2>1, <2>4 DEF TableOK
    <3>2. /\ ids2[d] \in DOMAIN table2
          /\ table2[ids2[d]] = NodeWith(nodes[d], ids, units, table).payload
          /\ units2[d] = NodeWith(nodes[d], ids, units, table).unit
      BY <1>2, <1>3, <3>1 DEF NodeOK
    <3>3. QED
      BY <2>2, <3>2 DEF NodeOK
  <2>5. QED
    BY <2>3, <2>4
<1>9. TableOK(nodes, ids2, units2, table2, answered2)
  BY <1>1, <1>3, <1>6, <1>7, <1>8 DEF TableOK
<1>10. QED
  BY <1>9 DEF ids2, units2, table2, answered2

-----------------------------------------------------------------------------
(* The inductive invariant.                                                *)

CanonKids(nodes) == [c \in DOMAIN nodes |-> Seq2Set(nodes[c].kids)]
TableKids(table) == [id \in DOMAIN table |-> Seq2Set(table[id].kids)]

\* What r reaches in a table of payloads.
ReachIn(table, r) ==
  {x \in DOMAIN table :
     \A S \in SUBSET DOMAIN table :
       r \in S /\ (\A y \in S : Seq2Set(table[y].kids) \subseteq S) => x \in S}

\* Each compiled node was counted once.
CoreOK(nodes, ids, units, table, answered, k) ==
  /\ TableOK(nodes, ids, units, table, answered)
  /\ IsFiniteSet(DOMAIN ids)
  /\ k = Cardinality(DOMAIN ids)

CompileOK(document, s, C, ids) ==
  /\ WalkInv(DOMAIN document.nodes, CanonKids(document.nodes), document.root, s, C)
  /\ VisitedIn(C) = DOMAIN ids
  /\ \A x \in DOMAIN C : document.nodes[x].type \in SupportedTypes

TraverseOK(r, table, w, C, recs) ==
  /\ r \in DOMAIN table
  /\ WalkInv(ReachIn(table, r), TableKids(table), r, w, C)
  /\ DOMAIN recs = VisitedIn(C)
  /\ \A id \in DOMAIN recs : recs[id] = table[id]

Fresh ==
  /\ colour = << >> /\ idOf = << >> /\ unitOf = << >> /\ payoffs = << >>
  /\ compiles = 0

IInv ==
  /\ outcome \in Outcomes
  /\ DigestsTyped(digests)
  /\ CoreOK(outcome.document.nodes, idOf, unitOf, payoffs, digests, compiles)
  /\ pc \in {"config", "canonicalize"} => Fresh
  /\ pc \in {"config", "canonicalize", "compile"} =>
       walkColour = << >> /\ records = << >>
  /\ pc \in {"compile", "traverse"} => outcome.kind = "canonical"
  /\ pc = "compile" => CompileOK(outcome.document, stack, colour, idOf)
  /\ pc = "traverse" =>
       /\ DOMAIN idOf = CanonicalIds
       /\ TraverseOK(idOf[outcome.document.root], payoffs, walk, walkColour, records)
  /\ pc # "done" => result.kind # "payoff graph"
  /\ PayoffGraphIsReach

-----------------------------------------------------------------------------
(* Facts about the oracle, documents and reachability.                     *)

LEMMA DocumentFacts ==
  ASSUME outcome \in Outcomes, outcome.kind = "canonical"
  PROVE  /\ outcome.document.root \in CanonicalIds
         /\ \A c \in CanonicalIds :
              /\ outcome.document.nodes[c].kids \in Seq(CanonicalIds)
              /\ CanonKids(outcome.document.nodes)[c]
                   = Seq2Set(outcome.document.nodes[c].kids)
         /\ \A S \in SUBSET CanonicalIds :
              /\ outcome.document.root \in S
              /\ \A c \in S : Seq2Set(outcome.document.nodes[c].kids) \subseteq S
              => S = CanonicalIds
<1>1. /\ IsReach(outcome.document)
      /\ \A c \in CanonicalIds : outcome.document.nodes[c].kids \in Seq(CanonicalIds)
  BY OutcomesAssumption DEF CanonicalIds, IsWellFormed
<1>2. QED
  BY <1>1 DEF IsReach, CanonKids, CanonicalIds

LEMMA ListOf ==
  ASSUME NEW R, NEW ks, Len(ks) \in Nat, ks \in [1..Len(ks) -> R]
  PROVE  ks \in Seq(R)
BY SeqDef

LEMMA ReachInFacts ==
  ASSUME NEW table, \A id \in DOMAIN table : table[id].kids \in Seq(DOMAIN table),
         NEW r \in DOMAIN table
  PROVE  /\ r \in ReachIn(table, r)
         /\ ReachIn(table, r) \subseteq DOMAIN table
         /\ \A y \in ReachIn(table, r) :
              /\ table[y].kids \in Seq(ReachIn(table, r))
              /\ TableKids(table)[y] = Seq2Set(table[y].kids)
<1> DEFINE R == ReachIn(table, r)
<1>1. r \in R /\ R \subseteq DOMAIN table
  BY DEF ReachIn
<1>2. ASSUME NEW y \in R PROVE table[y].kids \in Seq(R)
  <2> DEFINE ks == table[y].kids
  <2>1. ks \in Seq(DOMAIN table)
    BY <1>1
  <2>2. Len(ks) \in Nat /\ ks \in [1..Len(ks) -> DOMAIN table]
    BY <2>1, LenProperties
  <2>3. ASSUME NEW i \in 1..Len(ks) PROVE ks[i] \in R
    <3>1. ks[i] \in DOMAIN table /\ ks[i] \in Seq2Set(ks)
      BY <2>2 DEF Seq2Set
    <3>2. ASSUME NEW S \in SUBSET DOMAIN table, r \in S,
                 \A z \in S : Seq2Set(table[z].kids) \subseteq S
          PROVE  ks[i] \in S
      BY <3>1, <3>2 DEF ReachIn
    <3>3. QED
      BY <3>1, <3>2 DEF ReachIn
  <2>4. ks \in [1..Len(ks) -> R]
    BY <2>2, <2>3
  <2> HIDE DEF R
  <2>5. QED
    BY <2>2, <2>4, ListOf
<1>3. QED
  BY <1>1, <1>2 DEF TableKids

LEMMA ScheduleFacts ==
  ASSUME NEW U, NEW ks \in Seq(U)
  PROVE  Schedules([i \in 1..Len(ks) |-> Frame(ks[i], FALSE)], Seq2Set(ks), U)
<1> DEFINE above == [i \in 1..Len(ks) |-> Frame(ks[i], FALSE)]
<1>1. Len(ks) \in Nat /\ \A i \in 1..Len(ks) : ks[i] \in U
  BY LenProperties, ElementOfSeq
<1>2. ASSUME NEW i \in 1..Len(ks)
      PROVE  above[i] \in WFrames(U) /\ above[i].id = ks[i] /\ ~above[i].leaving
  BY <1>1 DEF Frame, WFrames
<1>3. above \in [1..Len(ks) -> WFrames(U)]
  BY <1>2
<1>4. above \in Seq(WFrames(U))
  BY <1>1, <1>3, SeqDef
<1>5. Len(above) = Len(ks)
  BY <1>1, <1>3, <1>4, LenProperties
<1> HIDE DEF above
<1>6. \A c \in Seq2Set(ks) : \E i \in 1..Len(above) : above[i].id = c
  BY <1>2, <1>5 DEF Seq2Set
<1>7. \A i \in 1..Len(above) : above[i].leaving = FALSE
  <2>1. ASSUME NEW i \in 1..Len(above) PROVE above[i].leaving = FALSE
    <3>1. above[i] \in WFrames(U) /\ ~above[i].leaving
      BY <1>2, <1>5
    <3>2. QED
      BY <3>1 DEF WFrames
  <2>2. QED
    BY <2>1
<1>8. QED
  BY <1>4, <1>6, <1>7 DEF Schedules, above

-----------------------------------------------------------------------------
(* Steps that leave both walks alone, and calls that fail.                 *)

LEMMA RaiseFacts ==
  ASSUME NEW kind, Raise(kind), kind # "payoff graph"
  PROVE  pc' = "done" /\ result'.kind # "payoff graph"
<1>1. result' = [NoResult EXCEPT !.kind = kind] /\ pc' = "done"
  BY DEF Raise
<1>2. result'.kind = kind
  BY <1>1 DEF NoResult
<1>3. QED
  BY <1>1, <1>2

\* A call that ends without a payoff graph; a digest may have been drawn.
LEMMA FailingStep ==
  ASSUME IInv, UNCHANGED <<outcome, idOf, unitOf, payoffs, compiles>>,
         pc' = "done", result'.kind # "payoff graph",
         \/ digests' = digests
         \/ \E x : \E id \in Answers(digests, x) : digests' = Extended(digests, x, id)
  PROVE  IInv'
<1> DEFINE nodes == outcome.document.nodes
<1>1. TableOK(nodes, idOf, unitOf, payoffs, digests) /\ DigestsTyped(digests)
  BY DEF IInv, CoreOK
<1>2. ContentAddressed(payoffs, digests)
  BY <1>1 DEF TableOK
<1>3. ContentAddressed(payoffs, digests') /\ DigestsTyped(digests')
  <2>1. CASE digests' = digests
    BY <1>1, <1>2, <2>1
  <2>2. ASSUME NEW x, NEW id \in Answers(digests, x),
               digests' = Extended(digests, x, id)
        PROVE  ContentAddressed(payoffs, digests') /\ DigestsTyped(digests')
    BY <1>1, <1>2, <2>2, AskingKeepsTable, AnswersTyped
  <2>3. QED
    BY <2>1, <2>2
<1>4. TableOK(nodes, idOf, unitOf, payoffs, digests')
  BY <1>1, <1>3 DEF TableOK
<1>5. CoreOK(nodes, idOf, unitOf, payoffs, digests', compiles)
  BY <1>4 DEF IInv, CoreOK
<1>6. PayoffGraphIsReach'
  BY DEF PayoffGraphIsReach
<1>7. QED
  BY <1>3, <1>5, <1>6 DEF IInv

LEMMA GateSteps ==
  ASSUME IInv, RejectConfig \/ AcceptConfig \/ CanonicalizationFails
  PROVE  IInv'
<1>1. /\ UNCHANGED <<outcome, colour, idOf, unitOf, payoffs, compiles, digests>>
      /\ UNCHANGED <<walkColour, records>>
  BY DEF RejectConfig, AcceptConfig, CanonicalizationFails, callArgs, oracle,
         core, traversal
<1>2. CASE RejectConfig
  <2>1. Raise(ConfigError) /\ ConfigError # "payoff graph"
    BY <1>2 DEF RejectConfig, ConfigError
  <2>2. QED
    BY <1>1, <2>1, RaiseFacts, FailingStep
<1>3. CASE CanonicalizationFails
  <2>1. Raise(outcome.kind) /\ outcome.kind # "payoff graph"
    BY <1>3, OutcomesAssumption
       DEF CanonicalizationFails, IInv, CanonicalizationErrors
  <2>2. QED
    BY <1>1, <2>1, RaiseFacts, FailingStep
<1>4. CASE AcceptConfig
  <2>1. pc = "config" /\ pc' = "canonicalize" /\ result' = result
    BY <1>4 DEF AcceptConfig
  <2>2. PayoffGraphIsReach'
    BY <2>1 DEF IInv, PayoffGraphIsReach
  <2>3. QED
    BY <1>1, <2>1, <2>2 DEF IInv, Fresh
<1>5. QED
  BY <1>2, <1>3, <1>4

-----------------------------------------------------------------------------
(* The compilation walk.                                                   *)

LEMMA CompileBegins ==
  ASSUME IInv, BeginCompile
  PROVE  IInv'
<1> DEFINE doc == outcome.document
           f == Frame(doc.root, FALSE)
<1>1. /\ UNCHANGED <<outcome, colour, idOf, unitOf, payoffs, compiles, digests>>
      /\ UNCHANGED <<walkColour, records, result>>
      /\ pc = "canonicalize" /\ pc' = "compile" /\ outcome.kind = "canonical"
      /\ stack' = << f >>
  BY DEF BeginCompile, callArgs, oracle, core, traversal
<1>2. colour = << >> /\ idOf = << >>
  BY <1>1 DEF IInv, Fresh
<1>3. doc.root \in DOMAIN doc.nodes
  BY <1>1, DocumentFacts DEF IInv, CanonicalIds
<1>4. f \in WFrames(DOMAIN doc.nodes) /\ f.id = doc.root /\ ~f.leaving
  BY <1>3 DEF Frame, WFrames
<1> HIDE DEF f
<1>5. WalkInv(DOMAIN doc.nodes, CanonKids(doc.nodes), doc.root, << f >>, << >>)
  BY <1>3, <1>4, WalkStarts
<1>6. DOMAIN colour = {} /\ DOMAIN idOf = {}
  BY <1>2
<1>7. VisitedIn(colour) = DOMAIN idOf
  BY <1>6 DEF VisitedIn
<1>8. CompileOK(doc, stack', colour, idOf)
  BY <1>1, <1>2, <1>5, <1>6, <1>7 DEF CompileOK
<1>9. PayoffGraphIsReach'
  BY <1>1 DEF IInv, PayoffGraphIsReach
<1>10. QED
  BY <1>1, <1>8, <1>9 DEF IInv

\* What the steps of the compilation walk have in common.
LEMMA CompileFacts ==
  ASSUME IInv, pc = "compile", stack # << >>
  PROVE  /\ outcome.kind = "canonical" /\ outcome \in Outcomes
         /\ CompileOK(outcome.document, stack, colour, idOf)
         /\ WalkInv(CanonicalIds, CanonKids(outcome.document.nodes),
                    outcome.document.root, stack, colour)
         /\ NonEmpty(stack, WFrames(CanonicalIds))
         /\ Top.id \in CanonicalIds /\ Top.leaving \in BOOLEAN
         /\ result.kind # "payoff graph"
<1>1. /\ outcome.kind = "canonical" /\ outcome \in Outcomes
      /\ CompileOK(outcome.document, stack, colour, idOf)
      /\ result.kind # "payoff graph"
  BY DEF IInv
<1>2. WalkInv(CanonicalIds, CanonKids(outcome.document.nodes),
              outcome.document.root, stack, colour)
  BY <1>1 DEF CompileOK, CanonicalIds
<1>3. NonEmpty(stack, WFrames(CanonicalIds))
  BY <1>2 DEF WalkInv, NonEmpty
<1>4. stack[Len(stack)] \in WFrames(CanonicalIds)
  BY <1>3, PopFacts
<1>5. QED
  BY <1>1, <1>2, <1>3, <1>4 DEF WFrames, Top

LEMMA CompileSkips ==
  ASSUME IInv, SkipVisited
  PROVE  IInv'
<1>1. /\ UNCHANGED <<outcome, colour, idOf, unitOf, payoffs, compiles, digests>>
      /\ UNCHANGED <<walkColour, records, result>>
      /\ pc = "compile" /\ pc' = "compile" /\ stack # << >>
      /\ Visited(Top.id) /\ stack' = Popped(stack)
  BY DEF SkipVisited, Popping, Rest, Popped, callArgs, oracle, core, traversal
<1>2. /\ CompileOK(outcome.document, stack, colour, idOf)
      /\ WalkInv(CanonicalIds, CanonKids(outcome.document.nodes),
                 outcome.document.root, stack, colour)
      /\ NonEmpty(stack, WFrames(CanonicalIds))
      /\ result.kind # "payoff graph"
  BY <1>1, CompileFacts
<1>3. stack[Len(stack)].id \in VisitedIn(colour)
  BY <1>1 DEF Visited, VisitedIn, Top
<1>4. WalkInv(CanonicalIds, CanonKids(outcome.document.nodes),
              outcome.document.root, Popped(stack), colour)
  BY <1>2, <1>3, WalkPops
<1>5. CompileOK(outcome.document, stack', colour, idOf)
  BY <1>1, <1>2, <1>4 DEF CompileOK, CanonicalIds
<1>6. PayoffGraphIsReach'
  BY <1>1, <1>2 DEF PayoffGraphIsReach
<1>7. QED
  BY <1>1, <1>2, <1>5, <1>6 DEF IInv

LEMMA CompileSchedules ==
  ASSUME IInv, Schedule
  PROVE  IInv'
<1> DEFINE doc == outcome.document
           n == Top.id
           ks == TopNode.kids
           f == Frame(n, TRUE)
           above == [i \in 1..Len(ks) |-> Frame(ks[i], FALSE)]
<1>1. /\ UNCHANGED <<outcome, idOf, unitOf, payoffs, compiles, digests>>
      /\ UNCHANGED <<walkColour, records>>
      /\ pc = "compile" /\ stack # << >> /\ ~Visited(n)
  BY DEF Schedule, Popping, callArgs, oracle, traversal
<1>2. CASE Visiting(n) \/ ~Decodable(n)
  <2>1. Raise("PayoffGraphCompilationError")
    BY <1>2 DEF Schedule
  <2>2. QED
    BY <1>1, <2>1, RaiseFacts, FailingStep
<1>3. CASE ~Visiting(n) /\ Decodable(n)
  <2>1. /\ stack' = Pushed(stack, f, above)
        /\ colour' = Extended(colour, n, "visiting")
        /\ pc' = "compile" /\ result' = result
    BY <1>1, <1>3 DEF Schedule, Pushed, Popped, Rest
  <2>2. /\ CompileOK(doc, stack, colour, idOf)
        /\ WalkInv(CanonicalIds, CanonKids(doc.nodes), doc.root, stack, colour)
        /\ NonEmpty(stack, WFrames(CanonicalIds))
        /\ n \in CanonicalIds
        /\ outcome \in Outcomes /\ outcome.kind = "canonical"
        /\ result.kind # "payoff graph"
    BY <1>1, CompileFacts
  <2>3. n = stack[Len(stack)].id
    BY DEF Top
  <2>4. n \notin DOMAIN colour
    BY <1>1, <1>3, <2>2 DEF Visited, Visiting, WalkInv, Coloured
  <2>5. f \in WFrames(CanonicalIds) /\ f.id = n /\ f.leaving
    BY <2>2 DEF Frame, WFrames
  <2>6. ks \in Seq(CanonicalIds) /\ CanonKids(doc.nodes)[n] = Seq2Set(ks)
    BY <2>2, DocumentFacts DEF TopNode
  <2>7. Schedules(above, CanonKids(doc.nodes)[n], CanonicalIds)
    BY <2>6, ScheduleFacts
  <2>8. doc.nodes[n].type \in SupportedTypes
    BY <1>3 DEF Decodable
  <2> HIDE DEF n, f, above, ks
  <2>9. WalkInv(CanonicalIds, CanonKids(doc.nodes), doc.root, stack', colour')
    BY <2>1, <2>2, <2>3, <2>4, <2>5, <2>7, WalkEnters
  <2>10. VisitedIn(colour') = DOMAIN idOf
    <3>1. VisitedIn(colour') = VisitedIn(colour) \ {n}
      BY <2>1, VisitedFacts
    <3>2. n \notin VisitedIn(colour) /\ VisitedIn(colour) = DOMAIN idOf
      BY <2>2, <2>4 DEF VisitedIn, CompileOK
    <3>3. QED
      BY <3>1, <3>2
  <2>11. \A x \in DOMAIN colour' : doc.nodes[x].type \in SupportedTypes
    BY <2>1, <2>2, <2>8 DEF Extended, CompileOK
  <2>12. CompileOK(doc, stack', colour', idOf)
    BY <2>9, <2>10, <2>11 DEF CompileOK, CanonicalIds
  <2>13. PayoffGraphIsReach'
    BY <2>1, <2>2 DEF PayoffGraphIsReach
  <2>14. QED
    BY <1>1, <2>1, <2>2, <2>12, <2>13 DEF IInv
<1>4. QED
  BY <1>2, <1>3

\* The marker of n surfaces: its children are compiled, n itself is not.
LEMMA MarkerSurfaces ==
  ASSUME IInv, Popping(TRUE)
  PROVE  /\ Top.id \in CanonicalIds \ DOMAIN idOf
         /\ outcome.document.nodes[Top.id].type \in SupportedTypes
         /\ Len(outcome.document.nodes[Top.id].kids) \in Nat
         /\ Seq2Set(outcome.document.nodes[Top.id].kids) \subseteq DOMAIN idOf
         /\ WalkInv(CanonicalIds, CanonKids(outcome.document.nodes),
                    outcome.document.root, Popped(stack),
                    Extended(colour, Top.id, "visited"))
<1> DEFINE doc == outcome.document
           n == Top.id
<1>1. pc = "compile" /\ stack # << >> /\ Top.leaving = TRUE
  BY DEF Popping
<1>2. /\ CompileOK(doc, stack, colour, idOf)
      /\ WalkInv(CanonicalIds, CanonKids(doc.nodes), doc.root, stack, colour)
      /\ NonEmpty(stack, WFrames(CanonicalIds))
      /\ n \in CanonicalIds
      /\ outcome \in Outcomes /\ outcome.kind = "canonical"
  BY <1>1, CompileFacts
<1>3. n = stack[Len(stack)].id /\ stack[Len(stack)].leaving
  BY <1>1 DEF Top
<1>4. /\ n \notin VisitedIn(colour)
      /\ CanonKids(doc.nodes)[n] \subseteq VisitedIn(colour)
      /\ WalkInv(CanonicalIds, CanonKids(doc.nodes), doc.root, Popped(stack),
                 Extended(colour, n, "visited"))
  <2> DEFINE kids == CanonKids(doc.nodes)
             root == doc.root
             ids == CanonicalIds
  <2>1. /\ WalkInv(ids, kids, root, stack, colour)
        /\ NonEmpty(stack, WFrames(ids))
        /\ stack[Len(stack)].leaving /\ n = stack[Len(stack)].id
    BY <1>2, <1>3
  <2> HIDE DEF n, kids, root, ids
  <2>2. /\ stack[Len(stack)].id \in ids \ VisitedIn(colour)
        /\ kids[stack[Len(stack)].id] \subseteq VisitedIn(colour)
        /\ WalkInv(ids, kids, root, Popped(stack),
                   Extended(colour, stack[Len(stack)].id, "visited"))
    BY <2>1, WalkLeaves
  <2>3. QED
    BY <2>1, <2>2 DEF kids, root, ids
<1>5. n \in DOMAIN colour
  <2>1. Len(stack) \in Nat \ {0}
    BY <1>2, PopFacts
  <2>2. Len(stack) \in 1..Len(stack)
    BY <2>1
  <2>3. QED
    BY <1>2, <1>3, <2>2 DEF WalkInv, StackFits, Marked
<1>6. /\ n \notin DOMAIN idOf /\ doc.nodes[n].type \in SupportedTypes
      /\ VisitedIn(colour) = DOMAIN idOf
  BY <1>2, <1>4, <1>5 DEF CompileOK
<1>7. /\ Len(doc.nodes[n].kids) \in Nat
      /\ Seq2Set(doc.nodes[n].kids) \subseteq DOMAIN idOf
  <2>1. /\ doc.nodes[n].kids \in Seq(CanonicalIds)
        /\ CanonKids(doc.nodes)[n] = Seq2Set(doc.nodes[n].kids)
    BY <1>2, DocumentFacts
  <2>2. QED
    BY <1>4, <1>6, <2>1, LenProperties
<1>8. QED
  BY <1>2, <1>4, <1>6, <1>7

\* It passes its checks under an id that no other payload has.
LEMMA NodeCompiles ==
  ASSUME IInv, CompileNode, Compiled(TopNode).allowed
  PROVE  IInv'
<1> DEFINE doc == outcome.document
           n == Top.id
           m == Compiled(TopNode)
<1>1. /\ UNCHANGED <<outcome, walkColour, records>>
      /\ Popping(TRUE) /\ pc = "compile" /\ stack # << >>
  BY DEF CompileNode, Popping, callArgs, traversal
<1>2. PICK id \in Answers(digests, m.payload) :
        /\ digests' = Extended(digests, m.payload, id)
        /\ id \in DOMAIN payoffs => payoffs[id] = m.payload
        /\ Record(m, id)
        /\ pc' = pc /\ result' = result
  BY DEF CompileNode
<1>3. /\ payoffs' = Extended(payoffs, id, m.payload)
      /\ idOf' = Extended(idOf, n, id)
      /\ unitOf' = Extended(unitOf, n, m.unit)
      /\ stack' = Popped(stack)
      /\ colour' = Extended(colour, n, "visited")
      /\ compiles' = compiles + 1
  BY <1>2 DEF Record, Rest, Popped
<1>4. /\ CompileOK(doc, stack, colour, idOf)
      /\ outcome \in Outcomes /\ outcome.kind = "canonical"
      /\ result.kind # "payoff graph"
  BY <1>1, CompileFacts
<1>5. /\ n \in CanonicalIds \ DOMAIN idOf
      /\ doc.nodes[n].type \in SupportedTypes
      /\ Len(doc.nodes[n].kids) \in Nat
      /\ Seq2Set(doc.nodes[n].kids) \subseteq DOMAIN idOf
      /\ WalkInv(CanonicalIds, CanonKids(doc.nodes), doc.root, Popped(stack),
                 Extended(colour, n, "visited"))
  BY <1>1, MarkerSurfaces
<1>6. VisitedIn(colour) = DOMAIN idOf
  BY <1>4 DEF CompileOK
<1>7. m = NodeWith(doc.nodes[n], idOf, unitOf, payoffs)
  BY CompiledIsNodeWith DEF TopNode
<1>8. DigestsTyped(digests) /\ id \in Nat /\ DigestsTyped(digests')
  <2>1. DigestsTyped(digests)
    BY DEF IInv
  <2>2. QED
    BY <1>2, <2>1, AnswersTyped
<1> DEFINE p == m.payload
           u == m.unit
<1>9. TableOK(doc.nodes, idOf, unitOf, payoffs, digests)
  BY DEF IInv, CoreOK
<1> HIDE DEF n, m
<1>10. /\ p = NodeWith(doc.nodes[n], idOf, unitOf, payoffs).payload
       /\ u = NodeWith(doc.nodes[n], idOf, unitOf, payoffs).unit
       /\ id \in Answers(digests, p)
       /\ id \in DOMAIN payoffs => payoffs[id] = p
  BY <1>2, <1>7
<1>11. TableOK(doc.nodes, idOf', unitOf', payoffs', digests')
  <2>1. TableOK(doc.nodes, Extended(idOf, n, id), Extended(unitOf, n, u),
                Extended(payoffs, id, p), Extended(digests, p, id))
    <3> HIDE DEF p, u
    <3>1. QED
      BY <1>5, <1>8, <1>9, <1>10, TableGrows
  <2>2. QED
    BY <1>2, <1>3, <2>1
<1>12. DOMAIN idOf' = DOMAIN idOf \cup {n}
  BY <1>3 DEF Extended
<1>13. CoreOK(doc.nodes, idOf', unitOf', payoffs', digests', compiles')
  <2>1. IsFiniteSet(DOMAIN idOf) /\ compiles = Cardinality(DOMAIN idOf)
    BY DEF IInv, CoreOK
  <2>2. /\ IsFiniteSet(DOMAIN idOf')
        /\ Cardinality(DOMAIN idOf') = Cardinality(DOMAIN idOf) + 1
    BY <1>5, <1>12, <2>1, FS_AddElement
  <2>3. QED
    BY <1>3, <1>11, <2>1, <2>2 DEF CoreOK
<1>14. CompileOK(doc, stack', colour', idOf')
  <2>1. VisitedIn(colour') = DOMAIN idOf'
    BY <1>3, <1>6, <1>12, VisitedFacts
  <2>2. \A x \in DOMAIN colour' : doc.nodes[x].type \in SupportedTypes
    BY <1>3, <1>4, <1>5 DEF Extended, CompileOK
  <2>3. QED
    BY <1>3, <1>5, <2>1, <2>2 DEF CompileOK, CanonicalIds
<1>15. PayoffGraphIsReach'
  BY <1>2, <1>4 DEF PayoffGraphIsReach
<1>16. QED
  BY <1>1, <1>2, <1>4, <1>8, <1>13, <1>14, <1>15 DEF IInv

LEMMA CompileSteps ==
  ASSUME IInv, CompileNode \/ DetectCollision
  PROVE  IInv'
<1>1. CASE CompileNode /\ Compiled(TopNode).allowed
  BY <1>1, NodeCompiles
<1>2. CASE CompileNode /\ ~Compiled(TopNode).allowed
  <2>1. /\ Raise("PayoffGraphInputError")
        /\ UNCHANGED <<outcome, idOf, unitOf, payoffs, compiles, digests>>
    BY <1>2 DEF CompileNode, callArgs, core
  <2>2. QED
    BY <2>1, RaiseFacts, FailingStep
<1>3. CASE DetectCollision
  <2>1. /\ Raise("PayoffGraphCollisionError")
        /\ UNCHANGED <<outcome, idOf, unitOf, payoffs, compiles>>
        /\ \E x : \E id \in Answers(digests, x) :
             digests' = Extended(digests, x, id)
    BY <1>3 DEF DetectCollision, callArgs, core
  <2>2. QED
    BY <2>1, RaiseFacts, FailingStep
<1>4. QED
  BY <1>1, <1>2, <1>3

-----------------------------------------------------------------------------
(* The second traversal.                                                   *)

\* The compilation has reached the whole document when its stack is empty.
LEMMA TraversalBegins ==
  ASSUME IInv, BeginTraversal
  PROVE  IInv'
<1> DEFINE doc == outcome.document
           r == idOf[doc.root]
           f == Frame(r, FALSE)
<1>1. /\ UNCHANGED <<outcome, colour, idOf, unitOf, payoffs, compiles, digests>>
      /\ UNCHANGED <<walkColour, records, result>>
      /\ pc = "compile" /\ pc' = "traverse" /\ stack = << >>
      /\ walk' = << f >>
  BY DEF BeginTraversal, callArgs, oracle, core
<1>2. /\ outcome.kind = "canonical" /\ outcome \in Outcomes
      /\ CompileOK(doc, stack, colour, idOf)
      /\ walkColour = << >> /\ records = << >>
      /\ result.kind # "payoff graph"
  BY <1>1 DEF IInv
<1>3. doc.root \in DOMAIN idOf /\ ClosedIn(CanonKids(doc.nodes), colour)
  BY <1>1, <1>2, WalkFinishes DEF CompileOK
<1>4. DOMAIN idOf = CanonicalIds
  <2>1. DOMAIN idOf \in SUBSET CanonicalIds
    BY <1>2 DEF CompileOK, WalkInv, Coloured, VisitedIn, CanonicalIds
  <2>2. ASSUME NEW c \in DOMAIN idOf
        PROVE  Seq2Set(doc.nodes[c].kids) \subseteq DOMAIN idOf
    <3>1. VisitedIn(colour) = DOMAIN idOf
      BY <1>2 DEF CompileOK
    <3>2. CanonKids(doc.nodes)[c] \subseteq VisitedIn(colour)
      BY <1>3, <3>1 DEF ClosedIn
    <3>3. CanonKids(doc.nodes)[c] = Seq2Set(doc.nodes[c].kids)
      BY <1>2, <2>1, DocumentFacts
    <3>4. QED
      BY <3>1, <3>2, <3>3
  <2>3. QED
    BY <1>2, <1>3, <2>1, <2>2, DocumentFacts
<1>5. TableOK(doc.nodes, idOf, unitOf, payoffs, digests)
  BY DEF IInv, CoreOK
<1>6. r \in DOMAIN payoffs
  BY <1>3, <1>5 DEF TableOK, NodeOK
<1>7. r \in ReachIn(payoffs, r)
  BY <1>5, <1>6, ReachInFacts DEF TableOK
<1>8. f \in WFrames(ReachIn(payoffs, r)) /\ f.id = r /\ ~f.leaving
  BY <1>7 DEF Frame, WFrames
<1> HIDE DEF f
<1>9. WalkInv(ReachIn(payoffs, r), TableKids(payoffs), r, << f >>, << >>)
  BY <1>7, <1>8, WalkStarts
<1>10. DOMAIN records = {} /\ DOMAIN walkColour = {}
  <2>1. records = << >> /\ walkColour = << >>
    BY <1>2
  <2> HIDE DEF r, doc
  <2>2. QED
    BY <2>1
<1>11. TraverseOK(r, payoffs, walk', walkColour, records)
  BY <1>1, <1>2, <1>6, <1>9, <1>10 DEF TraverseOK, VisitedIn
<1>12. PayoffGraphIsReach'
  BY <1>1, <1>2 DEF PayoffGraphIsReach
<1> HIDE DEF r
<1>13. r' = r /\ CanonicalIds' = CanonicalIds
  BY <1>1 DEF r, CanonicalIds
<1>14. TraverseOK(idOf[outcome.document.root], payoffs, walk, walkColour, records)'
  BY <1>1, <1>11, <1>13 DEF r
<1>15. QED
  BY <1>1, <1>2, <1>4, <1>12, <1>13, <1>14 DEF IInv

PayoffRoot == idOf[outcome.document.root]
Reached == ReachIn(payoffs, PayoffRoot)

\* What the steps of the second traversal have in common.
LEMMA TraverseFacts ==
  ASSUME IInv, pc = "traverse"
  PROVE  /\ TableOK(outcome.document.nodes, idOf, unitOf, payoffs, digests)
         /\ TraverseOK(PayoffRoot, payoffs, walk, walkColour, records)
         /\ WalkInv(Reached, TableKids(payoffs), PayoffRoot, walk, walkColour)
         /\ walk # << >> => /\ NonEmpty(walk, WFrames(Reached))
                            /\ WalkTop.id \in Reached
                            /\ WalkTop.leaving \in BOOLEAN
<1>1. /\ TableOK(outcome.document.nodes, idOf, unitOf, payoffs, digests)
      /\ TraverseOK(PayoffRoot, payoffs, walk, walkColour, records)
  BY DEF IInv, CoreOK, PayoffRoot
<1>2. WalkInv(Reached, TableKids(payoffs), PayoffRoot, walk, walkColour)
  BY <1>1 DEF TraverseOK, Reached
<1>3. ASSUME walk # << >>
      PROVE  /\ NonEmpty(walk, WFrames(Reached))
             /\ WalkTop.id \in Reached /\ WalkTop.leaving \in BOOLEAN
  <2>1. NonEmpty(walk, WFrames(Reached))
    BY <1>2, <1>3 DEF WalkInv, NonEmpty
  <2>2. walk[Len(walk)] \in WFrames(Reached)
    BY <2>1, PopFacts
  <2>3. QED
    BY <2>1, <2>2 DEF WFrames, WalkTop
<1>4. QED
  BY <1>1, <1>2, <1>3

\* A step of the second traversal that keeps the traversal's part.
LEMMA TraverseKeeps ==
  ASSUME IInv, pc = "traverse", pc' = "traverse",
         UNCHANGED <<outcome, idOf, unitOf, payoffs, compiles, digests, result>>,
         TraverseOK(PayoffRoot, payoffs, walk', walkColour', records')
  PROVE  IInv'
<1>1. PayoffGraphIsReach'
  BY DEF IInv, PayoffGraphIsReach
<1>2. PayoffRoot' = PayoffRoot /\ CanonicalIds' = CanonicalIds
  BY DEF PayoffRoot, CanonicalIds
<1>3. TraverseOK(idOf[outcome.document.root], payoffs, walk, walkColour, records)'
  BY <1>2 DEF PayoffRoot
<1>4. QED
  BY <1>1, <1>2, <1>3 DEF IInv

LEMMA TraverseSkips ==
  ASSUME IInv, TraverseSkip
  PROVE  IInv'
<1>1. /\ UNCHANGED <<outcome, idOf, unitOf, payoffs, compiles, digests, result>>
      /\ UNCHANGED <<walkColour, records>>
      /\ pc = "traverse" /\ pc' = "traverse" /\ walk # << >>
      /\ WalkVisited /\ walk' = Popped(walk)
  BY DEF TraverseSkip, Walking, WalkRest, Popped, callArgs, oracle, core
<1>2. /\ TraverseOK(PayoffRoot, payoffs, walk, walkColour, records)
      /\ WalkInv(Reached, TableKids(payoffs), PayoffRoot, walk, walkColour)
      /\ NonEmpty(walk, WFrames(Reached))
  BY <1>1, TraverseFacts
<1>3. walk[Len(walk)].id \in VisitedIn(walkColour)
  BY <1>1 DEF WalkVisited, VisitedIn, WalkTop
<1>4. WalkInv(Reached, TableKids(payoffs), PayoffRoot, Popped(walk), walkColour)
  <2> DEFINE kids == TableKids(payoffs)
  <2>1. WalkInv(Reached, kids, PayoffRoot, walk, walkColour)
    BY <1>2
  <2> HIDE DEF kids
  <2>2. WalkInv(Reached, kids, PayoffRoot, Popped(walk), walkColour)
    BY <1>2, <1>3, <2>1, WalkPops
  <2>3. QED
    BY <2>2 DEF kids
<1>5. TraverseOK(PayoffRoot, payoffs, walk', walkColour', records')
  BY <1>1, <1>2, <1>4 DEF TraverseOK, Reached
<1>6. QED
  BY <1>1, <1>5, TraverseKeeps

LEMMA TraverseVisits ==
  ASSUME IInv, TraverseVisit
  PROVE  IInv'
<1> DEFINE n == WalkTop.id
           ks == payoffs[n].kids
           f == Frame(n, TRUE)
           above == [i \in 1..Len(ks) |-> Frame(ks[i], FALSE)]
           kids == TableKids(payoffs)
<1>1. /\ UNCHANGED <<outcome, idOf, unitOf, payoffs, compiles, digests, records>>
      /\ pc = "traverse" /\ walk # << >> /\ ~WalkVisited
  BY DEF TraverseVisit, Walking, callArgs, oracle, core
<1>2. CASE WalkVisiting \/ n \notin DOMAIN payoffs
  <2>1. Raise("PayoffGraphCompilationError")
    BY <1>2 DEF TraverseVisit
  <2>2. QED
    BY <1>1, <2>1, RaiseFacts, FailingStep
<1>3. CASE ~WalkVisiting /\ n \in DOMAIN payoffs
  <2>1. /\ walk' = Pushed(walk, f, above)
        /\ walkColour' = Extended(walkColour, n, "visiting")
        /\ pc' = "traverse" /\ result' = result
    BY <1>1, <1>3 DEF TraverseVisit, Pushed, Popped, WalkRest, Refs
  <2>2. /\ TableOK(outcome.document.nodes, idOf, unitOf, payoffs, digests)
        /\ TraverseOK(PayoffRoot, payoffs, walk, walkColour, records)
        /\ WalkInv(Reached, kids, PayoffRoot, walk, walkColour)
        /\ NonEmpty(walk, WFrames(Reached))
        /\ n \in Reached
    BY <1>1, TraverseFacts
  <2>3. n = walk[Len(walk)].id
    BY DEF WalkTop
  <2>4. n \notin DOMAIN walkColour
    BY <1>1, <1>3, <2>2 DEF WalkVisited, WalkVisiting, WalkInv, Coloured
  <2>5. f \in WFrames(Reached) /\ f.id = n /\ f.leaving
    BY <2>2 DEF Frame, WFrames
  <2>6. ks \in Seq(Reached) /\ kids[n] = Seq2Set(ks)
    <3>1. PayoffRoot \in DOMAIN payoffs
      BY <2>2 DEF TraverseOK
    <3>2. \A id \in DOMAIN payoffs : payoffs[id].kids \in Seq(DOMAIN payoffs)
      BY <2>2 DEF TableOK
    <3>3. \A y \in Reached : /\ payoffs[y].kids \in Seq(Reached)
                             /\ TableKids(payoffs)[y] = Seq2Set(payoffs[y].kids)
      BY <3>1, <3>2, ReachInFacts DEF Reached
    <3>4. QED
      BY <2>2, <3>3
  <2>7. Schedules(above, kids[n], Reached)
    BY <2>6, ScheduleFacts
  <2> HIDE DEF n, f, above, ks, kids
  <2>8. WalkInv(Reached, kids, PayoffRoot, walk', walkColour')
    BY <2>1, <2>2, <2>3, <2>4, <2>5, <2>7, WalkEnters
  <2>9. VisitedIn(walkColour') = VisitedIn(walkColour)
    <3>1. VisitedIn(walkColour') = VisitedIn(walkColour) \ {n}
      BY <2>1, VisitedFacts
    <3>2. n \notin VisitedIn(walkColour)
      BY <2>4 DEF VisitedIn
    <3>3. QED
      BY <3>1, <3>2
  <2>10. TraverseOK(PayoffRoot, payoffs, walk', walkColour', records')
    BY <1>1, <2>2, <2>8, <2>9 DEF TraverseOK, Reached, kids
  <2>11. QED
    BY <1>1, <2>1, <2>10, TraverseKeeps
<1>4. QED
  BY <1>2, <1>3

LEMMA TraverseLeaves ==
  ASSUME IInv, TraverseLeave
  PROVE  IInv'
<1> DEFINE n == WalkTop.id
           kids == TableKids(payoffs)
<1>1. /\ UNCHANGED <<outcome, idOf, unitOf, payoffs, compiles, digests, result>>
      /\ pc = "traverse" /\ pc' = "traverse" /\ walk # << >> /\ WalkTop.leaving
      /\ walk' = Popped(walk)
      /\ walkColour' = Extended(walkColour, n, "visited")
      /\ records' = Extended(records, n, payoffs[n])
  BY DEF TraverseLeave, Walking, WalkRest, Popped, callArgs, oracle, core
<1>2. /\ TraverseOK(PayoffRoot, payoffs, walk, walkColour, records)
      /\ WalkInv(Reached, kids, PayoffRoot, walk, walkColour)
      /\ NonEmpty(walk, WFrames(Reached))
  BY <1>1, TraverseFacts
<1>3. n = walk[Len(walk)].id /\ walk[Len(walk)].leaving
  BY <1>1 DEF WalkTop
<1> HIDE DEF n, kids
<1>4. WalkInv(Reached, kids, PayoffRoot, walk', walkColour')
  <2>1. WalkInv(Reached, kids, PayoffRoot, Popped(walk),
                Extended(walkColour, walk[Len(walk)].id, "visited"))
    BY <1>2, <1>3, WalkLeaves
  <2>2. QED
    BY <1>1, <1>3, <2>1
<1>5. VisitedIn(walkColour') = VisitedIn(walkColour) \cup {n}
  BY <1>1, VisitedFacts
<1>6. /\ DOMAIN records' = DOMAIN records \cup {n}
      /\ \A id \in DOMAIN records' : records'[id] = payoffs[id]
  BY <1>1, <1>2 DEF Extended, TraverseOK
<1>7. TraverseOK(PayoffRoot, payoffs, walk', walkColour', records')
  BY <1>2, <1>4, <1>5, <1>6 DEF TraverseOK, Reached, kids
<1>8. QED
  BY <1>1, <1>7, TraverseKeeps

\* The records of a finished traversal are exactly what the root reaches.
LEMMA RecordsAreReach ==
  ASSUME IInv, pc = "traverse", walk = << >>
  PROVE  IsReach(Structural)
<1> DEFINE kids == TableKids(payoffs)
<1>1. /\ TraverseOK(PayoffRoot, payoffs, walk, walkColour, records)
      /\ WalkInv(Reached, kids, PayoffRoot, walk, walkColour)
  BY TraverseFacts
<1>2. PayoffRoot \in VisitedIn(walkColour) /\ ClosedIn(kids, walkColour)
  <2> HIDE DEF kids
  <2>1. QED
    BY <1>1, WalkFinishes
<1>3. /\ DOMAIN records = VisitedIn(walkColour)
      /\ DOMAIN records \subseteq Reached
      /\ Reached \subseteq DOMAIN payoffs
      /\ \A id \in DOMAIN records : records[id] = payoffs[id]
  BY <1>1 DEF TraverseOK, WalkInv, Coloured, VisitedIn, Reached, ReachIn
<1>4. ASSUME NEW id \in DOMAIN records
      PROVE  Seq2Set(records[id].kids) \subseteq DOMAIN records
  BY <1>2, <1>3 DEF ClosedIn, TableKids
<1>5. ASSUME NEW S \in SUBSET DOMAIN records, PayoffRoot \in S,
             \A id \in S : Seq2Set(records[id].kids) \subseteq S
      PROVE  S = DOMAIN records
  <2>1. /\ S \in SUBSET DOMAIN payoffs
        /\ \A y \in S : Seq2Set(payoffs[y].kids) \subseteq S
    BY <1>3, <1>5
  <2>2. Reached \subseteq S
    BY <1>5, <2>1 DEF Reached, ReachIn
  <2>3. QED
    BY <1>3, <2>2
<1>6. Structural.root = PayoffRoot /\ Structural.nodes = records
  BY DEF Structural, PayoffRoot
<1>7. QED
  BY <1>2, <1>3, <1>4, <1>5, <1>6 DEF IsReach

LEMMA Answering ==
  ASSUME IInv, TooComplex \/ Return
  PROVE  IInv'
<1>1. /\ UNCHANGED <<outcome, idOf, unitOf, payoffs, compiles, digests>>
      /\ pc = "traverse" /\ walk = << >> /\ pc' = "done"
  BY DEF TooComplex, Return, Raise, callArgs, oracle, core
<1>2. CASE TooComplex
  <2>1. Raise("PayoffGraphComplexityError")
    BY <1>2 DEF TooComplex
  <2>2. QED
    BY <1>1, <2>1, RaiseFacts, FailingStep
<1>3. CASE Return
  <2>1. result'.graph = Structural
    <3>1. PICK id \in Answers(graphDigests, Structural) :
            result' = [kind |-> "payoff graph", graph |-> Structural,
                       identity |-> id]
      BY <1>3 DEF Return
    <3>2. QED
      BY <3>1
  <2>2. IsReach(Structural)
    BY <1>1, RecordsAreReach
  <2>3. PayoffGraphIsReach'
    BY <2>1, <2>2 DEF PayoffGraphIsReach
  <2>4. QED
    BY <1>1, <2>3 DEF IInv
<1>4. QED
  BY <1>2, <1>3

-----------------------------------------------------------------------------
(* The invariant holds, in one call and in two.                            *)

\* A call that has not compiled anything, whatever was hashed before it.
LEMMA NothingCompiled ==
  ASSUME NEW nodes, NEW answered,
         NEW ids, ids = << >>, NEW units, units = << >>,
         NEW table, table = << >>
  PROVE  CoreOK(nodes, ids, units, table, answered, 0)
<1>1. DOMAIN ids = {} /\ DOMAIN units = {} /\ DOMAIN table = {}
  OBVIOUS
<1>2. TableOK(nodes, ids, units, table, answered)
  BY <1>1 DEF TableOK, ContentAddressed
<1>3. IsFiniteSet(DOMAIN ids) /\ Cardinality(DOMAIN ids) = 0
  BY <1>1, FS_EmptySet
<1>4. QED
  BY <1>2, <1>3 DEF CoreOK

LEMMA InvStarts == Init => IInv
<1>1. SUFFICES ASSUME Init PROVE IInv
  OBVIOUS
<1>2. CoreOK(outcome.document.nodes, idOf, unitOf, payoffs, digests, compiles)
  <2>1. idOf = << >> /\ unitOf = << >> /\ payoffs = << >> /\ compiles = 0
    BY <1>1 DEF Init
  <2>2. QED
    BY <2>1, NothingCompiled
<1>3. DOMAIN digests = {}
  BY <1>1 DEF Init
<1>4. result.kind = "none"
  BY <1>1 DEF Init, NoResult
<1>5. QED
  BY <1>1, <1>2, <1>3, <1>4
     DEF Init, IInv, Fresh, DigestsTyped, PayoffGraphIsReach

LEMMA InvKept == IInv /\ [Next]_vars => IInv'
<1>1. SUFFICES ASSUME IInv, [Next]_vars PROVE IInv'
  OBVIOUS
<1>2. CASE RejectConfig \/ AcceptConfig \/ CanonicalizationFails
  BY <1>1, <1>2, GateSteps
<1>3. CASE BeginCompile
  BY <1>1, <1>3, CompileBegins
<1>4. CASE SkipVisited
  BY <1>1, <1>4, CompileSkips
<1>5. CASE Schedule
  BY <1>1, <1>5, CompileSchedules
<1>6. CASE CompileNode \/ DetectCollision
  BY <1>1, <1>6, CompileSteps
<1>7. CASE BeginTraversal
  BY <1>1, <1>7, TraversalBegins
<1>8. CASE TraverseSkip
  BY <1>1, <1>8, TraverseSkips
<1>9. CASE TraverseVisit
  BY <1>1, <1>9, TraverseVisits
<1>10. CASE TraverseLeave
  BY <1>1, <1>10, TraverseLeaves
<1>11. CASE TooComplex \/ Return
  BY <1>1, <1>11, Answering
<1>12. CASE UNCHANGED vars
  BY <1>1, <1>12 DEF vars, IInv, Fresh, CanonicalIds, PayoffGraphIsReach
<1>13. QED
  BY <1>1, <1>2, <1>3, <1>4, <1>5, <1>6, <1>7, <1>8, <1>9, <1>10, <1>11, <1>12
     DEF Next

\* The second call starts as if there had been no first one.
LEMMA RestartKeeps ==
  ASSUME IInv, NEW o \in Outcomes, Restart(o)
  PROVE  IInv'
<1>1. /\ outcome' \in Outcomes /\ pc' = "config" /\ digests' = digests
      /\ colour' = << >> /\ idOf' = << >> /\ unitOf' = << >>
      /\ payoffs' = << >> /\ compiles' = 0
      /\ walkColour' = << >> /\ records' = << >>
      /\ result' = NoResult
  BY DEF Restart, oracle
<1>2. CoreOK(outcome'.document.nodes, idOf', unitOf', payoffs', digests', compiles')
  BY <1>1, NothingCompiled
<1>3. result'.kind = "none"
  BY <1>1 DEF NoResult
<1>4. QED
  BY <1>1, <1>2, <1>3 DEF IInv, Fresh, PayoffGraphIsReach

EqInv == IInv /\ pair \in Pairs

\* The table is faithful, the walks are on course and what was returned is
\* what its root reaches, in both calls of __eq__, for every contract, every
\* digest function and every limit.
THEOREM CompilerInvariant == EqSpec => []EqInv
<1>1. EqInit => EqInv
  BY InvStarts DEF EqInit, EqInv
<1>2. EqInv /\ [EqNext]_allVars => EqInv'
  <2>1. SUFFICES ASSUME EqInv, [EqNext]_allVars PROVE EqInv'
    OBVIOUS
  <2>2. CASE CompileStep
    BY <2>1, <2>2, InvKept DEF CompileStep, EqInv, eqVars
  <2>3. CASE CompileRight
    <3>1. Restart(pair[2]) /\ pair' = pair /\ pair[2] \in Outcomes
      BY <2>1, <2>3, PairsAssumption DEF CompileRight, EqInv
    <3>2. QED
      BY <2>1, <3>1, RestartKeeps DEF EqInv
  <2>4. CASE Propagate \/ Compare \/ UNCHANGED allVars
    <3>1. UNCHANGED vars /\ pair' = pair
      BY <2>4 DEF Propagate, Compare, allVars, eqVars
    <3>2. QED
      BY <2>1, <3>1, InvKept DEF EqInv
  <2>5. QED
    BY <2>1, <2>2, <2>3, <2>4 DEF EqNext
<1>3. QED
  BY <1>1, <1>2, PTL DEF EqSpec

\* A canonical node is compiled once, however many references lead to it (the
\* state map of compile_payoff_graph), and none of the document is missing
\* when _traverse_payoff_graph starts.
THEOREM NodesCompiledOnce == EqSpec => []CompiledOnce
<1>1. EqInv => CompiledOnce
  BY DEF EqInv, IInv, CoreOK, CompiledOnce
<1>2. QED
  BY <1>1, CompilerInvariant, PTL

\* pg_payload_by_pgid is sound while it grows: ids stand for the payloads that
\* hash to them, compiled nodes for what map_node would make of them now, and
\* references never leave the table.
THEOREM PayoffTableIsSound == EqSpec => []PayoffTableSound
<1>1. EqInv => PayoffTableSound
  <2>1. SUFFICES ASSUME EqInv PROVE PayoffTableSound
    OBVIOUS
  <2>2. TableOK(outcome.document.nodes, idOf, unitOf, payoffs, digests)
    BY <2>1 DEF EqInv, IInv, CoreOK
  <2>3. ASSUME NEW id \in DOMAIN payoffs
        PROVE  Seq2Set(payoffs[id].kids) \subseteq DOMAIN payoffs
    <3>1. payoffs[id].kids \in Seq(DOMAIN payoffs)
      BY <2>2 DEF TableOK
    <3>2. QED
      BY <3>1, LenProperties, ElementOfSeq DEF Seq2Set
  <2>4. ASSUME NEW c \in DOMAIN idOf
        PROVE  /\ Seq2Set(outcome.document.nodes[c].kids) \subseteq DOMAIN idOf
               /\ idOf[c] \in DOMAIN payoffs
               /\ payoffs[idOf[c]] = Compiled(outcome.document.nodes[c]).payload
               /\ unitOf[c] = Compiled(outcome.document.nodes[c]).unit
    <3>1. NodeOK(outcome.document.nodes[c], c, idOf, unitOf, payoffs)
      BY <2>2 DEF TableOK
    <3>2. QED
      BY <3>1, CompiledIsNodeWith DEF NodeOK
  <2>5. ContentAddressed(payoffs, digests)
    BY <2>2 DEF TableOK
  <2>6. QED
    BY <2>3, <2>4, <2>5 DEF PayoffTableSound
<1>2. QED
  BY <1>1, CompilerInvariant, PTL

\* What compile_payoff_graph returns is closed under references and holds
\* exactly what its root reaches: _traverse_payoff_graph neither misses a
\* payload nor keeps one that belongs to nothing.
THEOREM PayoffGraphIsWhatRootReaches == EqSpec => []PayoffGraphIsReach
<1>1. EqInv => PayoffGraphIsReach
  BY DEF EqInv, IInv
<1>2. QED
  BY <1>1, CompilerInvariant, PTL

-----------------------------------------------------------------------------
(* Compilation keeps canonical nodes apart.                                *)

\* A node of a canonical document, with references to nodes in D.
NodeShape(p, D) ==
  /\ p.type \in SupportedTypes
  /\ p = Payload(p.type, p.kids, p.unit, p.val, p.num, p.op)
  /\ p.kids \in Seq(D)
  /\ p.type \in LeafTypes => Len(p.kids) = 0
  /\ p.type = "Both" => Len(p.kids) >= 2
  /\ p.type \in SortedTypes => \A i \in 1..(Len(p.kids) - 1) : p.kids[i] <= p.kids[i + 1]

LEMMA DocumentShapes ==
  ASSUME outcome \in Outcomes, outcome.kind = "canonical"
  PROVE  /\ CanonicalIds \in SUBSET Nat /\ IsFiniteSet(CanonicalIds)
         /\ \A c \in CanonicalIds : NodeShape(outcome.document.nodes[c], CanonicalIds)
<1> DEFINE doc == outcome.document
<1>1. IsWellFormed(doc) /\ IsNormal(doc.nodes)
  BY OutcomesAssumption
<1>2. /\ CanonicalIds \in SUBSET Nat /\ IsFiniteSet(CanonicalIds)
      /\ \A c \in CanonicalIds : doc.nodes[c].kids \in Seq(CanonicalIds)
      /\ IsTyped(doc.nodes)
  BY <1>1 DEF IsWellFormed, CanonicalIds
<1>3. ASSUME NEW c \in CanonicalIds PROVE NodeShape(doc.nodes[c], CanonicalIds)
  <2> DEFINE p == doc.nodes[c]
             kids == PayloadsOf(p.kids, doc.nodes)
  <2>1. /\ p.type \in SupportedTypes
        /\ p = Payload(p.type, p.kids, p.unit, p.val, p.num, p.op)
        /\ OperandsFit(p, kids)
    BY <1>2 DEF IsTyped, CanonicalIds
  <2>2. Normal(p, kids)
    BY <1>1 DEF IsNormal, CanonicalIds
  <2>3. p.kids \in Seq(CanonicalIds) /\ Len(p.kids) \in Nat
    BY <1>2, LenProperties
  <2>4. Len(kids) = Len(p.kids)
    BY <1>2, PayloadsFacts DEF CanonicalIds
  <2> HIDE DEF p, kids
  <2>5. p.type \in LeafTypes => Len(p.kids) = 0
    BY <2>1, <2>4 DEF LeafTypes, OperandsFit, Arity
  <2>6. p.type = "Both" => Len(p.kids) >= 2
    BY <2>1, <2>4 DEF OperandsFit, CollectionTypes
  <2>7. p.type \in SortedTypes =>
          \A i \in 1..(Len(p.kids) - 1) : p.kids[i] <= p.kids[i + 1]
    BY <2>2 DEF Normal, SortedTypes
  <2>8. NodeShape(p, CanonicalIds)
    BY <2>1, <2>3, <2>5, <2>6, <2>7 DEF NodeShape
  <2>9. QED
    BY <2>8 DEF p
<1>4. QED
  BY <1>2, <1>3

\* PGType renames the types one to one, except that an empty and a proper
\* combination are both a PGCombine.
LEMMA PGTypeApart ==
  ASSUME NEW s \in SupportedTypes, NEW t \in SupportedTypes, PGType[s] = PGType[t]
  PROVE  \/ s = t
         \/ s = "Zero" /\ t = "Both"
         \/ t = "Zero" /\ s = "Both"
BY DEF PGType, SupportedTypes, ScalarTypes, BooleanTypes, ContractTypes

LEMMA KidIds ==
  ASSUME NEW node, Len(node.kids) \in Nat, NEW ids, NEW units, NEW table
  PROVE  IdsOf(KidsWith(node, ids, units, table)) = Renamed(ids, node.kids)
<1> DEFINE kids == KidsWith(node, ids, units, table)
           n == Len(node.kids)
<1>1. DOMAIN kids = 1..n /\ \A i \in 1..n : kids[i].id = ids[node.kids[i]]
  BY DEF KidsWith, KidWith
<1>2. Len(kids) = n
  <2>1. kids \in [1..n -> {kids[i] : i \in 1..n}]
    BY DEF KidsWith
  <2>2. kids \in Seq({kids[i] : i \in 1..n})
    BY <2>1, SeqDef
  <2>3. QED
    BY <2>1, <2>2, LenProperties
<1> HIDE DEF kids
<1>3. IdsOf(kids) = Renamed(ids, node.kids)
  BY <1>1, <1>2 DEF IdsOf, Renamed
<1>4. QED
  BY <1>3 DEF kids

\* The table ids gives different nodes of D different numbers.
OneToOne(ids, D) ==
  /\ \A x \in D : ids[x] \in Nat
  /\ \A x, y \in D : ids[x] = ids[y] => x = y

LEMMA RenamedFacts ==
  ASSUME NEW D, NEW ids, OneToOne(ids, D), NEW ks \in Seq(D)
  PROVE  /\ Len(ks) \in Nat /\ \A i \in 1..Len(ks) : ks[i] \in D
         /\ Renamed(ids, ks) \in Seq(Nat)
         /\ Len(Renamed(ids, ks)) = Len(ks)
         /\ \A i \in 1..Len(ks) : Renamed(ids, ks)[i] = ids[ks[i]]
<1>1. Len(ks) \in Nat /\ \A i \in 1..Len(ks) : ks[i] \in D
  BY LenProperties, ElementOfSeq
<1>2. Renamed(ids, ks) \in [1..Len(ks) -> Nat]
  BY <1>1 DEF Renamed, OneToOne
<1>3. Renamed(ids, ks) \in Seq(Nat)
  BY <1>1, <1>2, SeqDef
<1>4. Len(Renamed(ids, ks)) = Len(ks)
  BY <1>1, <1>2, <1>3, LenProperties
<1>5. QED
  BY <1>1, <1>3, <1>4 DEF Renamed

\* References in the order of fields are told apart one by one.
LEMMA SameFields ==
  ASSUME NEW D, NEW ids, OneToOne(ids, D), NEW s \in Seq(D), NEW t \in Seq(D),
         Renamed(ids, s) = Renamed(ids, t)
  PROVE  s = t
<1>1. /\ Len(s) \in Nat /\ \A i \in 1..Len(s) : s[i] \in D
      /\ Len(Renamed(ids, s)) = Len(s)
      /\ \A i \in 1..Len(s) : Renamed(ids, s)[i] = ids[s[i]]
  BY RenamedFacts
<1>2. /\ Len(t) \in Nat /\ \A i \in 1..Len(t) : t[i] \in D
      /\ Len(Renamed(ids, t)) = Len(t)
      /\ \A i \in 1..Len(t) : Renamed(ids, t)[i] = ids[t[i]]
  BY RenamedFacts
<1>3. Len(s) = Len(t)
  BY <1>1, <1>2
<1>4. \A i \in 1..Len(s) : s[i] = t[i]
  BY <1>1, <1>2, <1>3 DEF OneToOne
<1>5. s \in [1..Len(s) -> D] /\ t \in [1..Len(t) -> D]
  BY LenProperties
<1>6. QED
  BY <1>3, <1>4, <1>5

\* References sorted twice, by canonical and by payoff id, are told apart too.
LEMMA SameSorted ==
  ASSUME NEW D \in SUBSET Nat, NEW ids, OneToOne(ids, D),
         NEW s \in Seq(D), NEW t \in Seq(D),
         \A i \in 1..(Len(s) - 1) : s[i] <= s[i + 1],
         \A i \in 1..(Len(t) - 1) : t[i] <= t[i + 1],
         SortedIds(Renamed(ids, s)) = SortedIds(Renamed(ids, t))
  PROVE  s = t
<1> DEFINE a == Renamed(ids, s)
           b == Renamed(ids, t)
<1>1. /\ Len(s) \in Nat /\ \A i \in 1..Len(s) : s[i] \in D
      /\ a \in Seq(Nat) /\ Len(a) = Len(s)
      /\ \A i \in 1..Len(s) : a[i] = ids[s[i]]
  BY RenamedFacts
<1>2. /\ Len(t) \in Nat /\ \A i \in 1..Len(t) : t[i] \in D
      /\ b \in Seq(Nat) /\ Len(b) = Len(t)
      /\ \A i \in 1..Len(t) : b[i] = ids[t[i]]
  BY RenamedFacts
<1>3. SortedIds(a) = SortedIds(b)
  OBVIOUS
<1> HIDE DEF a, b
<1>4. Len(a) = Len(b) /\ \E m : Rearranges(m, Len(a), a, b)
  BY <1>1, <1>2, <1>3, SortedSame
<1>5. PICK n \in Nat : n = Len(s)
  BY <1>1
<1>6. n = Len(t)
  BY <1>1, <1>2, <1>4, <1>5
<1>7. PICK m : Rearranges(m, n, a, b)
  BY <1>1, <1>4, <1>5
<1>8. Rearranges(m, n, s, t)
  <2>1. /\ m \in [1..n -> 1..n]
        /\ \A i, j \in 1..n : m[i] = m[j] => i = j
    BY <1>7 DEF Rearranges
  <2>2. ASSUME NEW i \in 1..n PROVE s[i] = t[m[i]]
    <3>1. m[i] \in 1..n /\ a[i] = b[m[i]]
      BY <1>7 DEF Rearranges
    <3>2. a[i] = ids[s[i]] /\ s[i] \in D
      BY <1>1, <1>5
    <3>3. b[m[i]] = ids[t[m[i]]] /\ t[m[i]] \in D
      BY <1>2, <1>6, <3>1
    <3>4. QED
      BY <3>1, <3>2, <3>3 DEF OneToOne
  <2>3. QED
    BY <2>1, <2>2 DEF Rearranges
<1>9. s \in [1..n -> Nat] /\ t \in [1..n -> Nat]
  <2>1. s \in [1..n -> D] /\ t \in [1..n -> D]
    BY <1>5, <1>6, LenProperties
  <2>2. QED
    BY <2>1
<1>10. Ascending(s, n) /\ Ascending(t, n)
  BY <1>5, <1>6, <1>9 DEF Ascending
<1>11. QED
  BY <1>8, <1>10, AscendingIsUnique

LEMMA SamePayload ==
  ASSUME NEW a, NEW b, NEW s, NEW t, PayloadFor(a, s) = PayloadFor(b, t)
  PROVE  /\ PGType[a.type] = PGType[b.type] /\ s = t
         /\ a.unit = b.unit /\ a.val = b.val /\ a.num = b.num /\ a.op = b.op
BY DEF PayloadFor, Payload

\* Two canonical nodes that compile to one payload are one node.
LEMMA SameNode ==
  ASSUME NEW D \in SUBSET Nat, NEW ids, OneToOne(ids, D),
         NEW a, NodeShape(a, D), NEW b, NodeShape(b, D),
         NEW units, NEW table,
         NodeWith(a, ids, units, table).payload = NodeWith(b, ids, units, table).payload
  PROVE  a = b
<1> DEFINE refs(p) == RefsOf(p, KidsWith(p, ids, units, table))
<1>1. /\ a.kids \in Seq(D) /\ Len(a.kids) \in Nat /\ a.type \in SupportedTypes
      /\ b.kids \in Seq(D) /\ Len(b.kids) \in Nat /\ b.type \in SupportedTypes
  BY LenProperties DEF NodeShape
<1>2. PayloadFor(a, refs(a)) = PayloadFor(b, refs(b))
  BY <1>1, NodePayload DEF NodeWith
<1>3. /\ PGType[a.type] = PGType[b.type] /\ refs(a) = refs(b)
      /\ a.unit = b.unit /\ a.val = b.val /\ a.num = b.num /\ a.op = b.op
  <2> HIDE DEF refs
  <2>1. QED
    BY <1>2, SamePayload
<1>4. /\ IdsOf(KidsWith(a, ids, units, table)) = Renamed(ids, a.kids)
      /\ IdsOf(KidsWith(b, ids, units, table)) = Renamed(ids, b.kids)
  BY <1>1, KidIds
<1>5. /\ Renamed(ids, a.kids) \in Seq(Nat) /\ Len(Renamed(ids, a.kids)) = Len(a.kids)
      /\ Renamed(ids, b.kids) \in Seq(Nat) /\ Len(Renamed(ids, b.kids)) = Len(b.kids)
  BY <1>1, RenamedFacts
<1>6. a.type = b.type
  <2>1. ASSUME NEW p, NEW q, p.type = "Zero", q.type = "Both", refs(p) = refs(q),
               IdsOf(KidsWith(q, ids, units, table)) = Renamed(ids, q.kids),
               Len(Renamed(ids, q.kids)) = Len(q.kids), NodeShape(q, D)
        PROVE  FALSE
    <3>1. refs(p) = << >>
      BY <2>1 DEF RefsOf, LeafTypes
    <3>2. refs(q) = Renamed(ids, q.kids)
      BY <2>1, RefsOfFields
    <3>3. Len(refs(q)) >= 2
      BY <2>1, <3>2 DEF NodeShape
    <3>4. Len(refs(p)) = 0
      BY <3>1
    <3>5. QED
      BY <2>1, <3>3, <3>4
  <2>2. CASE a.type = "Zero" /\ b.type = "Both"
    BY <1>3, <1>4, <1>5, <2>1, <2>2
  <2>3. CASE b.type = "Zero" /\ a.type = "Both"
    BY <1>3, <1>4, <1>5, <2>1, <2>3
  <2>4. QED
    BY <1>1, <1>3, <2>2, <2>3, PGTypeApart
<1>7. a.kids = b.kids
  <2>1. CASE a.type \in LeafTypes
    <3>1. Len(a.kids) = 0 /\ Len(b.kids) = 0
      BY <1>6, <2>1 DEF NodeShape
    <3>2. QED
      BY <1>1, <3>1, EmptySeq
  <2>2. CASE a.type \in SortedTypes \ LeafTypes
    <3>1. /\ refs(a) = SortedIds(Renamed(ids, a.kids))
          /\ refs(b) = SortedIds(Renamed(ids, b.kids))
      BY <1>4, <1>6, <2>2 DEF RefsOf
    <3>2. SortedIds(Renamed(ids, a.kids)) = SortedIds(Renamed(ids, b.kids))
      BY <1>3, <3>1
    <3>3. /\ \A i \in 1..(Len(a.kids) - 1) : a.kids[i] <= a.kids[i + 1]
          /\ \A i \in 1..(Len(b.kids) - 1) : b.kids[i] <= b.kids[i + 1]
      BY <1>6, <2>2 DEF NodeShape
    <3> DEFINE s == a.kids
               t == b.kids
    <3>4. /\ s \in Seq(D) /\ t \in Seq(D)
          /\ \A i \in 1..(Len(s) - 1) : s[i] <= s[i + 1]
          /\ \A i \in 1..(Len(t) - 1) : t[i] <= t[i + 1]
          /\ SortedIds(Renamed(ids, s)) = SortedIds(Renamed(ids, t))
      BY <1>1, <3>2, <3>3
    <3> HIDE DEF s, t
    <3>5. s = t
      BY <3>4, SameSorted
    <3>6. QED
      BY <3>5 DEF s, t
  <2>3. CASE a.type \notin SortedTypes \cup LeafTypes
    <3>1. refs(a) = Renamed(ids, a.kids) /\ refs(b) = Renamed(ids, b.kids)
      BY <1>4, <1>6, <2>3 DEF RefsOf
    <3>2. Renamed(ids, a.kids) = Renamed(ids, b.kids)
      BY <1>3, <3>1
    <3>3. QED
      BY <1>1, <3>2, SameFields
  <2>4. QED
    BY <2>1, <2>2, <2>3
<1>8. /\ a = Payload(a.type, a.kids, a.unit, a.val, a.num, a.op)
      /\ b = Payload(b.type, b.kids, b.unit, b.val, b.num, b.op)
  BY DEF NodeShape
<1>9. QED
  BY <1>3, <1>6, <1>7, <1>8, Zenon

\* refs leads to the images of ks, with as many references.
IsImage(refs, ids, ks) ==
  Seq2Set(refs) = {ids[x] : x \in Seq2Set(ks)} /\ Len(refs) = Len(ks)

\* A payoff payload refers to what the children compiled to, and nothing else.
LEMMA KidsImage ==
  ASSUME NEW D \in SUBSET Nat, NEW ids, OneToOne(ids, D),
         NEW p, NodeShape(p, D), NEW units, NEW table
  PROVE  IsImage(NodeWith(p, ids, units, table).payload.kids, ids, p.kids)
<1> DEFINE kids == KidsWith(p, ids, units, table)
           s == Renamed(ids, p.kids)
<1>1. p.kids \in Seq(D) /\ Len(p.kids) \in Nat /\ p.type \in SupportedTypes
  BY LenProperties DEF NodeShape
<1>2. NodeWith(p, ids, units, table).payload.kids = RefsOf(p, kids)
  <2>1. NodeWith(p, ids, units, table).payload = PayloadFor(p, RefsOf(p, kids))
    BY <1>1, NodePayload DEF NodeWith
  <2> HIDE DEF kids
  <2>2. QED
    BY <2>1 DEF PayloadFor, Payload
<1>3. IdsOf(kids) = s
  BY <1>1, KidIds
<1>4. /\ s \in Seq(Nat) /\ Len(s) = Len(p.kids)
      /\ \A i \in 1..Len(p.kids) : s[i] = ids[p.kids[i]]
  BY <1>1, RenamedFacts
<1> HIDE DEF kids, s
<1>5. Seq2Set(s) = {ids[x] : x \in Seq2Set(p.kids)}
  BY <1>4 DEF Seq2Set
<1>6. Seq2Set(RefsOf(p, kids)) = Seq2Set(s) /\ Len(RefsOf(p, kids)) = Len(s)
  <2>1. CASE p.type \in LeafTypes
    <3>1. Len(s) = 0
      BY <1>4, <2>1 DEF NodeShape
    <3>2. s = << >>
      BY <1>4, <3>1, EmptySeq
    <3>3. RefsOf(p, kids) = << >>
      BY <2>1 DEF RefsOf
    <3>4. QED
      BY <3>2, <3>3
  <2>2. CASE p.type \in SortedTypes \ LeafTypes
    <3>1. RefsOf(p, kids) = SortedIds(s)
      BY <1>3, <2>2 DEF RefsOf
    <3>2. QED
      BY <1>4, <3>1, SortedFacts
  <2>3. CASE p.type \notin SortedTypes \cup LeafTypes
    BY <1>3, <2>3 DEF RefsOf
  <2>4. QED
    BY <2>1, <2>2, <2>3
<1> DEFINE refs == NodeWith(p, ids, units, table).payload.kids
<1>7. refs = RefsOf(p, kids)
  BY <1>2
<1> HIDE DEF refs
<1>8. Seq2Set(refs) = {ids[x] : x \in Seq2Set(p.kids)}
  BY <1>5, <1>6, <1>7
<1>9. Len(refs) = Len(p.kids)
  BY <1>4, <1>6, <1>7
<1>10. QED
  BY <1>8, <1>9 DEF refs, IsImage

LEMMA ShapeNarrows ==
  ASSUME NEW p, NEW U, NodeShape(p, U), NEW D, Seq2Set(p.kids) \subseteq D
  PROVE  NodeShape(p, D)
<1>1. p.kids \in Seq(U)
  BY DEF NodeShape
<1>2. \A i \in 1..Len(p.kids) : p.kids[i] \in D
  BY DEF Seq2Set
<1>3. p.kids \in Seq(D)
  BY <1>1, <1>2, NarrowerSeq
<1>4. QED
  BY <1>3 DEF NodeShape

Apart(ids) == \A c, d \in DOMAIN ids : ids[c] = ids[d] => c = d

\* A compiled node is a node of the document, with references to compiled ones.
LEMMA CompiledShapes ==
  ASSUME IInv, outcome.kind = "canonical", Apart(idOf),
         DOMAIN idOf \subseteq CanonicalIds
  PROVE  /\ DOMAIN idOf \in SUBSET Nat
         /\ OneToOne(idOf, DOMAIN idOf)
         /\ \A c \in DOMAIN idOf : NodeShape(outcome.document.nodes[c], DOMAIN idOf)
<1>1. /\ outcome \in Outcomes
      /\ TableOK(outcome.document.nodes, idOf, unitOf, payoffs, digests)
  BY DEF IInv, CoreOK
<1>2. /\ CanonicalIds \in SUBSET Nat
      /\ \A c \in CanonicalIds : NodeShape(outcome.document.nodes[c], CanonicalIds)
  BY <1>1, DocumentShapes
<1>3. OneToOne(idOf, DOMAIN idOf)
  BY <1>1 DEF OneToOne, Apart, TableOK, NodeOK
<1>4. ASSUME NEW c \in DOMAIN idOf
      PROVE  NodeShape(outcome.document.nodes[c], DOMAIN idOf)
  <2>1. Seq2Set(outcome.document.nodes[c].kids) \subseteq DOMAIN idOf
    BY <1>1 DEF TableOK, NodeOK
  <2>2. NodeShape(outcome.document.nodes[c], CanonicalIds)
    BY <1>2
  <2>3. QED
    BY <2>1, <2>2, ShapeNarrows
<1>5. QED
  BY <1>2, <1>3, <1>4

\* In the table too, a payload refers to what its node's children compiled to.
LEMMA KidsRenamed ==
  ASSUME IInv, Apart(idOf), pc = "traverse", NEW c \in CanonicalIds
  PROVE  /\ idOf[c] \in DOMAIN payoffs
         /\ Seq2Set(outcome.document.nodes[c].kids) \subseteq CanonicalIds
         /\ Seq2Set(payoffs[idOf[c]].kids)
              = {idOf[x] : x \in Seq2Set(outcome.document.nodes[c].kids)}
         /\ Len(payoffs[idOf[c]].kids) = Len(outcome.document.nodes[c].kids)
<1> DEFINE D == CanonicalIds
           nodes == outcome.document.nodes
<1>1. /\ outcome.kind = "canonical" /\ DOMAIN idOf = D
      /\ TableOK(nodes, idOf, unitOf, payoffs, digests)
  BY DEF IInv, CoreOK
<1>2. /\ D \in SUBSET Nat /\ OneToOne(idOf, D) /\ NodeShape(nodes[c], D)
  BY <1>1, CompiledShapes
<1>3. NodeOK(nodes[c], c, idOf, unitOf, payoffs)
  BY <1>1 DEF TableOK
<1>4. /\ payoffs[idOf[c]] = NodeWith(nodes[c], idOf, unitOf, payoffs).payload
      /\ idOf[c] \in DOMAIN payoffs
  BY <1>3 DEF NodeOK
<1>5. Seq2Set(nodes[c].kids) \subseteq D
  BY <1>1, <1>3 DEF NodeOK
<1> DEFINE p == nodes[c]
<1>6. NodeShape(p, D)
  BY <1>2
<1> HIDE DEF D, p
<1>7. IsImage(NodeWith(p, idOf, unitOf, payoffs).payload.kids, idOf, p.kids)
  BY <1>2, <1>6, KidsImage, ZenonT(60)
<1>8. QED
  BY <1>4, <1>5, <1>7 DEF p, D, IsImage

\* The records of a finished traversal are what the canonical nodes became.
LEMMA RecordsImage ==
  ASSUME IInv, Apart(idOf), pc = "traverse", walk = << >>
  PROVE  /\ DOMAIN idOf = CanonicalIds /\ IsFiniteSet(CanonicalIds)
         /\ \A c \in CanonicalIds :
              /\ idOf[c] \in DOMAIN records
              /\ Len(records[idOf[c]].kids) = Len(outcome.document.nodes[c].kids)
         /\ \A id \in DOMAIN records : \E c \in CanonicalIds : idOf[c] = id
<1> DEFINE D == CanonicalIds
           R == DOMAIN records
           nodes == outcome.document.nodes
           root == outcome.document.root
<1>1. /\ outcome \in Outcomes /\ outcome.kind = "canonical"
      /\ DOMAIN idOf = D /\ IsFiniteSet(D)
      /\ TableOK(nodes, idOf, unitOf, payoffs, digests)
  BY DEF IInv, CoreOK
<1>2. /\ idOf[root] \in R
      /\ \A id \in R : Seq2Set(records[id].kids) \subseteq R
      /\ \A S \in SUBSET R :
           idOf[root] \in S /\ (\A id \in S : Seq2Set(records[id].kids) \subseteq S)
             => S = R
  BY RecordsAreReach DEF IsReach, Structural
<1>3. \A id \in R : records[id] = payoffs[id]
  BY TraverseFacts DEF TraverseOK
<1>4. ASSUME NEW c \in D
      PROVE  /\ Seq2Set(nodes[c].kids) \subseteq D
             /\ Seq2Set(payoffs[idOf[c]].kids) = {idOf[x] : x \in Seq2Set(nodes[c].kids)}
             /\ Len(payoffs[idOf[c]].kids) = Len(nodes[c].kids)
  BY KidsRenamed
<1>5. root \in D /\ \A S \in SUBSET D :
        root \in S /\ (\A c \in S : Seq2Set(nodes[c].kids) \subseteq S) => S = D
  BY <1>1, DocumentFacts
<1> HIDE DEF D, R, nodes, root
<1>6. \A c \in D : idOf[c] \in R
  <2> DEFINE S == {c \in D : idOf[c] \in R}
  <2>1. S \in SUBSET D /\ root \in S
    BY <1>2, <1>5
  <2>2. ASSUME NEW c \in S PROVE Seq2Set(nodes[c].kids) \subseteq S
    <3>1. c \in D /\ idOf[c] \in R
      OBVIOUS
    <3>2. {idOf[x] : x \in Seq2Set(nodes[c].kids)} \subseteq R
      BY <1>2, <1>3, <1>4, <3>1
    <3>3. QED
      BY <1>4, <3>1, <3>2
  <2> HIDE DEF S
  <2>3. S = D
    BY <1>5, <2>1, <2>2
  <2>4. QED
    BY <2>3 DEF S
<1>7. \A id \in R : \E c \in D : idOf[c] = id
  <2> DEFINE S == {id \in R : \E c \in D : idOf[c] = id}
  <2>1. S \in SUBSET R /\ idOf[root] \in S
    BY <1>2, <1>5
  <2>2. ASSUME NEW id \in S PROVE Seq2Set(records[id].kids) \subseteq S
    <3>1. PICK c \in D : idOf[c] = id
      OBVIOUS
    <3>2. Seq2Set(records[id].kids) = {idOf[x] : x \in Seq2Set(nodes[c].kids)}
      BY <1>3, <1>4, <3>1
    <3>3. Seq2Set(records[id].kids) \subseteq R
      BY <1>2
    <3>4. QED
      BY <1>4, <3>2, <3>3
  <2> HIDE DEF S
  <2>3. S = R
    BY <1>2, <2>1, <2>2
  <2>4. QED
    BY <2>3 DEF S
<1>8. \A c \in D : Len(records[idOf[c]].kids) = Len(nodes[c].kids)
  BY <1>3, <1>4, <1>6
<1>9. QED
  BY <1>1, <1>6, <1>7, <1>8 DEF D, R, nodes

\* They are one for each canonical node.
LEMMA RecordsCounted ==
  ASSUME IInv, Apart(idOf), pc = "traverse", walk = << >>
  PROVE  Cardinality(DOMAIN records) = Cardinality(CanonicalIds)
<1> DEFINE D == CanonicalIds
           R == DOMAIN records
           f == [c \in D |-> idOf[c]]
<1>1. /\ DOMAIN idOf = D /\ IsFiniteSet(D)
      /\ \A c \in D : idOf[c] \in R
      /\ \A id \in R : \E c \in D : idOf[c] = id
  BY RecordsImage
<1> HIDE DEF D, R
<1>2. f \in Bijection(D, R)
  <2>1. f \in [D -> R]
    BY <1>1
  <2>2. \A c, d \in D : f[c] = f[d] => c = d
    BY <1>1 DEF Apart
  <2>3. \A id \in R : \E c \in D : f[c] = id
    BY <1>1
  <2> HIDE DEF f
  <2>4. f \in Injection(D, R)
    BY <2>1, <2>2 DEF Injection, IsInjective
  <2>5. f \in Surjection(D, R)
    BY <2>1, <2>3 DEF Surjection
  <2>6. QED
    BY <2>4, <2>5 DEF Bijection
<1>3. ExistsBijection(D, R)
  BY <1>2 DEF ExistsBijection
<1>4. Cardinality(R) = Cardinality(D)
  BY <1>1, <1>3, FS_Bijection
<1>5. QED
  BY <1>4 DEF D, R

\* Another node is compiled: if its payload had an id, its node had one.
LEMMA ApartCompiles ==
  ASSUME IInv, Apart(idOf), CompileNode, Compiled(TopNode).allowed
  PROVE  Apart(idOf')
<1> DEFINE nodes == outcome.document.nodes
           n == Top.id
           m == Compiled(TopNode)
<1>1. /\ Popping(TRUE) /\ pc = "compile" /\ stack # << >>
  BY DEF CompileNode, Popping
<1>2. PICK id : /\ id \in DOMAIN payoffs => payoffs[id] = m.payload
                /\ idOf' = Extended(idOf, n, id)
  BY DEF CompileNode, Record
<1>3. /\ CompileOK(outcome.document, stack, colour, idOf)
      /\ outcome \in Outcomes /\ outcome.kind = "canonical"
      /\ TableOK(nodes, idOf, unitOf, payoffs, digests)
  BY <1>1, CompileFacts DEF IInv, CoreOK
<1>4. /\ n \in CanonicalIds \ DOMAIN idOf
      /\ Seq2Set(nodes[n].kids) \subseteq DOMAIN idOf
  BY <1>1, MarkerSurfaces
<1>5. DOMAIN idOf \subseteq CanonicalIds
  BY <1>3 DEF CompileOK, WalkInv, Coloured, VisitedIn, CanonicalIds
<1>6. /\ DOMAIN idOf \in SUBSET Nat /\ OneToOne(idOf, DOMAIN idOf)
      /\ \A c \in DOMAIN idOf : NodeShape(nodes[c], DOMAIN idOf)
  BY <1>3, <1>5, CompiledShapes
<1>7. NodeShape(nodes[n], DOMAIN idOf)
  <2>1. NodeShape(nodes[n], CanonicalIds)
    BY <1>3, <1>4, DocumentShapes
  <2> HIDE DEF n
  <2>2. QED
    BY <1>4, <2>1, ShapeNarrows
<1>8. m.payload = NodeWith(nodes[n], idOf, unitOf, payoffs).payload
  BY CompiledIsNodeWith DEF TopNode
<1>9. \A c \in DOMAIN idOf : nodes[c] = nodes[n] => c = n
  <2>1. IsWellFormed(outcome.document)
    BY <1>3, OutcomesAssumption
  <2>2. QED
    BY <1>4, <1>5, <2>1 DEF IsWellFormed, CanonicalIds
<1> HIDE DEF nodes, n, m
<1>10. ASSUME NEW c \in DOMAIN idOf, idOf[c] = id PROVE FALSE
  <2>1. NodeOK(nodes[c], c, idOf, unitOf, payoffs)
    BY <1>3 DEF TableOK
  <2>2. id \in DOMAIN payoffs
        /\ payoffs[id] = NodeWith(nodes[c], idOf, unitOf, payoffs).payload
    BY <1>10, <2>1 DEF NodeOK
  <2> DEFINE a == nodes[c]
             b == nodes[n]
             D == DOMAIN idOf
  <2>3. /\ D \in SUBSET Nat /\ OneToOne(idOf, D) /\ NodeShape(a, D) /\ NodeShape(b, D)
        /\ NodeWith(a, idOf, unitOf, payoffs).payload
             = NodeWith(b, idOf, unitOf, payoffs).payload
    BY <1>2, <1>6, <1>7, <1>8, <2>2
  <2> HIDE DEF a, b, D
  <2>4. a = b
    BY <2>3, SameNode
  <2>5. QED
    BY <1>4, <1>9, <2>4 DEF a, b
<1>11. QED
  BY <1>2, <1>10 DEF Apart, Extended

\* Only Return answers with a payoff graph, and only CompileNode enters a node.
LEMMA OtherSteps ==
  ASSUME IInv, [Next]_vars, ~Return
  PROVE  /\ outcome' = outcome
         /\ result' = result \/ result'.kind # "payoff graph"
         /\ idOf' = idOf \/ (CompileNode /\ Compiled(TopNode).allowed)
<1>1. CASE RejectConfig
  <2>1. Raise(ConfigError) /\ ConfigError # "payoff graph"
    BY <1>1 DEF RejectConfig, ConfigError
  <2>2. QED
    BY <1>1, <2>1, RaiseFacts DEF RejectConfig, callArgs, core
<1>2. CASE CanonicalizationFails
  <2>1. Raise(outcome.kind) /\ outcome.kind # "payoff graph"
    BY <1>2, OutcomesAssumption DEF CanonicalizationFails, IInv, CanonicalizationErrors
  <2>2. QED
    BY <1>2, <2>1, RaiseFacts DEF CanonicalizationFails, callArgs, core
<1>3. CASE \/ AcceptConfig \/ BeginCompile \/ SkipVisited \/ BeginTraversal
           \/ TraverseSkip \/ TraverseLeave \/ UNCHANGED vars
  BY <1>3 DEF AcceptConfig, BeginCompile, SkipVisited, BeginTraversal,
              TraverseSkip, TraverseLeave, callArgs, core, vars
<1>4. CASE Schedule \/ TraverseVisit
  <2>1. UNCHANGED <<outcome, idOf>>
    BY <1>4 DEF Schedule, TraverseVisit, callArgs, core
  <2>2. Raise("PayoffGraphCompilationError") \/ result' = result
    BY <1>4 DEF Schedule, TraverseVisit
  <2>3. QED
    BY <2>1, <2>2, RaiseFacts
<1>5. CASE CompileNode /\ Compiled(TopNode).allowed
  BY <1>5 DEF CompileNode, callArgs
<1>6. CASE CompileNode /\ ~Compiled(TopNode).allowed
  <2>1. Raise("PayoffGraphInputError") /\ UNCHANGED <<outcome, idOf>>
    BY <1>6 DEF CompileNode, callArgs, core
  <2>2. QED
    BY <2>1, RaiseFacts
<1>7. CASE DetectCollision
  <2>1. Raise("PayoffGraphCollisionError") /\ UNCHANGED <<outcome, idOf>>
    BY <1>7 DEF DetectCollision, callArgs, core
  <2>2. QED
    BY <2>1, RaiseFacts
<1>8. CASE TooComplex
  <2>1. Raise("PayoffGraphComplexityError") /\ UNCHANGED <<outcome, idOf>>
    BY <1>8 DEF TooComplex, callArgs, core
  <2>2. QED
    BY <2>1, RaiseFacts
<1>9. QED
  BY <1>1, <1>2, <1>3, <1>4, <1>5, <1>6, <1>7, <1>8 DEF Next

LEMMA ApartNext ==
  ASSUME IInv, NodesStayApart, [Next]_vars
  PROVE  NodesStayApart'
<1>1. Apart(idOf)
  BY DEF NodesStayApart, Apart
<1>2. CASE Return
  <2>1. /\ UNCHANGED <<outcome, idOf>> /\ pc = "traverse" /\ walk = << >>
    BY <1>2 DEF Return, callArgs, core
  <2>2. result'.graph.nodes = records
    <3>1. PICK id : result' = [kind |-> "payoff graph", graph |-> Structural,
                               identity |-> id]
      BY <1>2 DEF Return
    <3>2. result'.graph = Structural
      BY <3>1
    <3>3. QED
      BY <3>2 DEF Structural
  <2>3. Cardinality(DOMAIN records) = Cardinality(CanonicalIds)
    BY <1>1, <2>1, RecordsCounted
  <2>4. QED
    BY <1>1, <2>1, <2>2, <2>3 DEF NodesStayApart, Apart, CanonicalIds
<1>3. CASE CompileNode /\ Compiled(TopNode).allowed
  <2>1. Apart(idOf')
    BY <1>1, <1>3, ApartCompiles
  <2>2. pc = "compile" /\ result' = result
    BY <1>3 DEF CompileNode, Popping
  <2>3. result'.kind # "payoff graph"
    BY <2>2 DEF IInv
  <2>4. QED
    BY <2>1, <2>3 DEF NodesStayApart, Apart
<1>4. CASE UNCHANGED vars
  BY <1>4 DEF vars, NodesStayApart, CanonicalIds
<1>5. CASE Next /\ ~Return /\ ~(CompileNode /\ Compiled(TopNode).allowed)
  <2>1. /\ UNCHANGED <<outcome, idOf>>
        /\ result' = result \/ result'.kind # "payoff graph"
    BY <1>5, OtherSteps
  <2>2. QED
    BY <2>1 DEF NodesStayApart, CanonicalIds
<1>6. QED
  BY <1>2, <1>3, <1>4, <1>5

\* compile_payoff_graph neither makes one payoff node of two canonical nodes
\* nor loses one: renaming types and sorting operands again, by other digests,
\* keeps everything that tells nodes of a canonical document apart.
THEOREM PayoffNodesStayApart == EqSpec => []NodesStayApart
<1>1. EqInit => NodesStayApart
  <2>1. SUFFICES ASSUME EqInit PROVE NodesStayApart
    OBVIOUS
  <2>2. idOf = << >> /\ result.kind = "none"
    BY <2>1 DEF EqInit, Init, NoResult
  <2>3. DOMAIN idOf = {}
    BY <2>2
  <2>4. QED
    BY <2>2, <2>3 DEF NodesStayApart
<1>2. EqInv /\ NodesStayApart /\ [EqNext]_allVars => NodesStayApart'
  <2>1. SUFFICES ASSUME EqInv, NodesStayApart, [EqNext]_allVars PROVE NodesStayApart'
    OBVIOUS
  <2>2. CASE CompileStep \/ Propagate \/ Compare \/ UNCHANGED allVars
    <3>1. [Next]_vars
      BY <2>2 DEF CompileStep, Propagate, Compare, allVars
    <3>2. QED
      BY <2>1, <3>1, ApartNext DEF EqInv
  <2>3. CASE CompileRight
    <3>1. idOf' = << >> /\ result'.kind = "none"
      BY <2>3 DEF CompileRight, Restart, NoResult
    <3>2. DOMAIN idOf' = {}
      BY <3>1
    <3>3. QED
      BY <3>1, <3>2 DEF NodesStayApart
  <2>4. QED
    BY <2>1, <2>2, <2>3 DEF EqNext
<1>3. QED
  BY <1>1, <1>2, CompilerInvariant, PTL DEF EqSpec

-----------------------------------------------------------------------------
(* What map_node checks and the unit it finds.                             *)

\* kids are the compiled operands, ks their payloads and us their units.
KidsFit(kids, ks, us) ==
  /\ Len(kids) = Len(ks) /\ DOMAIN us = 1..Len(ks)
  /\ \A i \in 1..Len(ks) : kids[i].type = PGType[ks[i].type] /\ kids[i].unit = us[i]

Passes(m, u) == m.allowed /\ m.unit = u

LEMMA Categories ==
  ASSUME NEW kids, NEW ks, NEW us, KidsFit(kids, ks, us), NEW i \in 1..Len(ks)
  PROVE  /\ ks[i].type \in ScalarTypes => kids[i].type \in ValueCategory
         /\ ks[i].type \in BooleanTypes => kids[i].type \in BooleanCategory
         /\ ks[i].type \in ContractTypes => kids[i].type \in ContractCategory
         /\ kids[i].unit = us[i]
BY DEF KidsFit, ValueCategory, BooleanCategory, ContractCategory

LEMMA AllCategories ==
  ASSUME NEW kids, NEW ks, NEW us, KidsFit(kids, ks, us)
  PROVE  /\ (\A i \in 1..Len(ks) : ks[i].type \in ScalarTypes) => AllIn(kids, ValueCategory)
         /\ (\A i \in 1..Len(ks) : ks[i].type \in BooleanTypes) => AllIn(kids, BooleanCategory)
         /\ (\A i \in 1..Len(ks) : ks[i].type \in ContractTypes) => AllIn(kids, ContractCategory)
<1>1. Len(kids) = Len(ks)
  BY DEF KidsFit
<1>2. QED
  BY <1>1, Categories DEF AllIn

LEMMA LeafPasses ==
  ASSUME NEW p, NEW us, p.type \in {"Number", "Observable", "BooleanConstant", "Zero"}
  PROVE  Passes(MapLeaf(p), DerivedUnit(p, us))
<1>1. CASE p.type \in {"Number", "Observable"}
  <2>1. DerivedUnit(p, us) = p.unit /\ p.type \in ScalarTypes
    BY <1>1 DEF DerivedUnit, ScalarTypes
  <2>2. QED
    BY <2>1 DEF Passes, MapLeaf, Mapped
<1>2. CASE p.type \in {"BooleanConstant", "Zero"}
  <2>1. DerivedUnit(p, us) = "none" /\ p.type \notin ScalarTypes
    BY <1>2 DEF DerivedUnit, ScalarTypes
  <2>2. QED
    BY <2>1 DEF Passes, MapLeaf, Mapped
<1>3. QED
  BY <1>1, <1>2

LEMMA CollectionPasses ==
  ASSUME NEW p, NEW kids, NEW ks, NEW us, KidsFit(kids, ks, us),
         OperandsFit(p, ks), UnitsFit(p, us), Len(ks) \in Nat,
         p.type \in {"Add", "Maximum", "Minimum", "AllOf", "AnyOf"}
  PROVE  Passes(MapCollection(p, kids), DerivedUnit(p, us))
<1> DEFINE ids == SortedIds(IdsOf(kids))
<1>1. MapCollection(p, kids) = Collected(p, kids, ids)
  BY DEF MapCollection
<1> HIDE DEF ids
<1>2. CASE p.type \in {"AllOf", "AnyOf"}
  <2>1. \A i \in 1..Len(ks) : ks[i].type \in BooleanTypes
    BY <1>2 DEF OperandsFit
  <2>2. AllIn(kids, BooleanCategory)
    BY <2>1, AllCategories
  <2>3. DerivedUnit(p, us) = "none" /\ p.type \in BooleanTypes
    BY <1>2 DEF DerivedUnit, BooleanTypes
  <2>4. QED
    BY <1>1, <2>2, <2>3 DEF Passes, Collected, Mapped
<1>3. CASE p.type \in {"Add", "Maximum", "Minimum"}
  <2>1. p.type \in ScalarTypes \ {"ConditionalValue"} /\ p.type \in CollectionTypes
    BY <1>3 DEF ScalarTypes, CollectionTypes
  <2>2. (\A i \in 1..Len(ks) : ks[i].type \in ScalarTypes) /\ Len(ks) >= 2
    BY <2>1 DEF OperandsFit
  <2>3. AllIn(kids, ValueCategory)
    BY <2>2, AllCategories
  <2>4. DerivedUnit(p, us) = us[1] /\ p.type \notin BooleanTypes
    BY <1>3 DEF DerivedUnit, BooleanTypes
  <2>5. \A i \in 1..Len(ks) : us[i] = us[1]
    BY <1>3 DEF UnitsFit, KidsFit
  <2>6. 1 \in 1..Len(ks)
    BY <2>2
  <2>7. kids[1].unit = us[1] /\ \A i \in 1..Len(kids) : kids[i].unit = kids[1].unit
    BY <2>5, <2>6 DEF KidsFit
  <2>8. QED
    BY <1>1, <2>3, <2>4, <2>7 DEF Passes, Collected, Mapped
<1>4. QED
  BY <1>2, <1>3

\* The first two operands of an operator with two.
LEMMA TwoScalars ==
  ASSUME NEW p, NEW kids, NEW ks, NEW us, KidsFit(kids, ks, us),
         OperandsFit(p, ks), p.type \in {"Subtract", "Multiply", "Divide"}
  PROVE  /\ AllIn(kids, ValueCategory) /\ DOMAIN us = 1..2
         /\ kids[1].unit = us[1] /\ kids[2].unit = us[2]
<1>1. p.type \in ScalarTypes \ {"ConditionalValue"} /\ p.type \in DOMAIN Arity /\ Arity[p.type] = 2
  BY DEF ScalarTypes, Arity
<1>2. (\A i \in 1..Len(ks) : ks[i].type \in ScalarTypes) /\ Len(ks) = 2
  BY <1>1 DEF OperandsFit
<1>3. AllIn(kids, ValueCategory)
  BY <1>2, AllCategories
<1>4. QED
  BY <1>2, <1>3 DEF KidsFit

LEMMA ArithmeticPasses ==
  ASSUME NEW p, NEW kids, NEW ks, NEW us, KidsFit(kids, ks, us),
         OperandsFit(p, ks), UnitsFit(p, us),
         p.type \in {"Subtract", "Multiply", "Divide", "Negate"}
  PROVE  Passes(MapArithmetic(p, kids), DerivedUnit(p, us))
<1>1. CASE p.type = "Subtract"
  <2>1. /\ AllIn(kids, ValueCategory) /\ DOMAIN us = 1..2
        /\ kids[1].unit = us[1] /\ kids[2].unit = us[2]
    BY <1>1, TwoScalars
  <2>2. us[1] = us[2]
    BY <1>1, <2>1 DEF UnitsFit
  <2>3. DerivedUnit(p, us) = us[1]
    BY <1>1 DEF DerivedUnit
  <2>4. QED
    BY <1>1, <2>1, <2>2, <2>3 DEF Passes, MapArithmetic, Mapped
<1>2. CASE p.type = "Multiply"
  <2>1. /\ AllIn(kids, ValueCategory)
        /\ kids[1].unit = us[1] /\ kids[2].unit = us[2]
    BY <1>2, TwoScalars
  <2>2. ~(IsMoney(us[1]) /\ IsMoney(us[2]))
    BY <1>2 DEF UnitsFit
  <2>3. DerivedUnit(p, us) = MultiplyUnit(us[1], us[2])
    BY <1>2 DEF DerivedUnit
  <2> DEFINE m == MapArithmetic(p, kids)
  <2>4. m.unit = MultiplyUnit(us[1], us[2])
    BY <1>2, <2>1 DEF MapArithmetic, Mapped
  <2>5. m.allowed = (AllIn(kids, ValueCategory) /\ ~(IsMoney(us[1]) /\ IsMoney(us[2])))
    BY <1>2, <2>1 DEF MapArithmetic, Mapped
  <2> HIDE DEF m
  <2>6. m.allowed
    BY <2>1, <2>2, <2>5
  <2>7. QED
    BY <2>3, <2>4, <2>6 DEF Passes, m
<1>3. CASE p.type = "Divide"
  <2>1. /\ AllIn(kids, ValueCategory)
        /\ kids[1].unit = us[1] /\ kids[2].unit = us[2]
    BY <1>3, TwoScalars
  <2>2. us[2] = "scalar"
    BY <1>3 DEF UnitsFit
  <2>3. DerivedUnit(p, us) = us[1]
    BY <1>3 DEF DerivedUnit
  <2>4. QED
    BY <1>3, <2>1, <2>2, <2>3 DEF Passes, MapArithmetic, Mapped
<1>4. CASE p.type = "Negate"
  <2>1. p.type \in ScalarTypes \ {"ConditionalValue"} /\ p.type \in DOMAIN Arity /\ Arity[p.type] = 1
    BY <1>4 DEF ScalarTypes, Arity
  <2>2. (\A i \in 1..Len(ks) : ks[i].type \in ScalarTypes) /\ Len(ks) = 1
    BY <2>1 DEF OperandsFit
  <2>3. AllIn(kids, ValueCategory)
    BY <2>2, AllCategories
  <2>6. kids[1].unit = us[1]
    BY <2>2 DEF KidsFit
  <2>4. DerivedUnit(p, us) = us[1]
    BY <1>4 DEF DerivedUnit
  <2>5. QED
    BY <1>4, <2>3, <2>4, <2>6 DEF Passes, MapArithmetic, Mapped
<1>5. QED
  BY <1>1, <1>2, <1>3, <1>4

LEMMA ConditionPasses ==
  ASSUME NEW p, NEW kids, NEW ks, NEW us, KidsFit(kids, ks, us),
         OperandsFit(p, ks), p.type \in {"Comparison", "Not"}
  PROVE  Passes(MapCondition(p, kids), DerivedUnit(p, us))
<1>1. DerivedUnit(p, us) = "none"
  BY DEF DerivedUnit
<1>2. CASE p.type = "Comparison"
  <2>1. AllIn(kids, ValueCategory)
    BY <1>2, AllCategories DEF OperandsFit
  <2>2. QED
    BY <1>1, <1>2, <2>1 DEF Passes, MapCondition, Mapped
<1>3. CASE p.type = "Not"
  <2>1. AllIn(kids, BooleanCategory)
    BY <1>3, AllCategories DEF OperandsFit
  <2>2. QED
    BY <1>1, <1>3, <2>1 DEF Passes, MapCondition, Mapped
<1>4. QED
  BY <1>2, <1>3

LEMMA ContractPasses ==
  ASSUME NEW p, NEW kids, NEW ks, NEW us, KidsFit(kids, ks, us),
         OperandsFit(p, ks), UnitsFit(p, us)
  PROVE  /\ p.type = "Both" => Passes(MapBoth(p, kids), DerivedUnit(p, us))
         /\ p.type = "Payment" => Passes(MapPayment(p, kids), DerivedUnit(p, us))
         /\ p.type = "Scale" => Passes(MapScale(p, kids), DerivedUnit(p, us))
<1>1. p.type \in {"Both", "Payment", "Scale"} => DerivedUnit(p, us) = "none"
  BY DEF DerivedUnit
<1>2. ASSUME p.type = "Both" PROVE Passes(MapBoth(p, kids), DerivedUnit(p, us))
  <2>1. AllIn(kids, ContractCategory)
    BY <1>2, AllCategories DEF OperandsFit
  <2>2. QED
    BY <1>1, <1>2, <2>1 DEF Passes, MapBoth, Mapped
<1>3. ASSUME p.type = "Payment" PROVE Passes(MapPayment(p, kids), DerivedUnit(p, us))
  <2>1. p.type \in DOMAIN Arity /\ Arity[p.type] = 1
    BY <1>3 DEF Arity
  <2>2. AllIn(kids, ValueCategory) /\ Len(ks) = 1
    BY <1>3, <2>1, AllCategories DEF OperandsFit
  <2>3. IsMoney(p.unit) /\ us[1] = p.unit
    BY <1>3 DEF UnitsFit
  <2>4. kids[1].unit = us[1]
    BY <2>2 DEF KidsFit
  <2>5. QED
    BY <1>1, <1>3, <2>2, <2>3, <2>4 DEF Passes, MapPayment, Mapped
<1>4. ASSUME p.type = "Scale" PROVE Passes(MapScale(p, kids), DerivedUnit(p, us))
  <2>1. p.type \in DOMAIN Arity /\ Arity[p.type] = 2
    BY <1>4 DEF Arity
  <2>2. Len(ks) = 2 /\ ks[1].type \in ScalarTypes /\ ks[2].type \in ContractTypes
    BY <1>4, <2>1 DEF OperandsFit
  <2>3. us[1] = "scalar"
    BY <1>4 DEF UnitsFit
  <2>4. 1 \in 1..Len(ks) /\ 2 \in 1..Len(ks)
    BY <2>2
  <2>5. /\ kids[1].type \in ValueCategory /\ kids[1].unit = us[1]
        /\ kids[2].type \in ContractCategory
    BY <2>2, <2>4, Categories
  <2>6. QED
    BY <1>1, <1>4, <2>3, <2>5 DEF Passes, MapScale, Mapped
<1>5. QED
  BY <1>2, <1>3, <1>4

LEMMA ConditionalPasses ==
  ASSUME NEW p, NEW kids, NEW ks, NEW us, KidsFit(kids, ks, us),
         OperandsFit(p, ks), UnitsFit(p, us),
         p.type \in {"ConditionalValue", "ConditionalContract"}
  PROVE  Passes(MapConditional(p, kids), DerivedUnit(p, us))
<1>1. p.type \in DOMAIN Arity /\ Arity[p.type] = 3
  BY DEF Arity
<1>2. Len(ks) = 3
  BY <1>1 DEF OperandsFit
<1>3. 1 \in 1..Len(ks) /\ 2 \in 1..Len(ks) /\ 3 \in 1..Len(ks)
  BY <1>2
<1>4. kids[2].unit = us[2] /\ kids[3].unit = us[3]
  BY <1>3 DEF KidsFit
<1>5. CASE p.type = "ConditionalValue"
  <2>1. /\ ks[1].type \in BooleanTypes /\ ks[2].type \in ScalarTypes
        /\ ks[3].type \in ScalarTypes
    BY <1>5 DEF OperandsFit
  <2>2. /\ kids[1].type \in BooleanCategory /\ kids[2].type \in ValueCategory
        /\ kids[3].type \in ValueCategory
    BY <1>3, <2>1, Categories
  <2>3. us[2] = us[3]
    BY <1>5 DEF UnitsFit
  <2>4. DerivedUnit(p, us) = us[2]
    BY <1>5 DEF DerivedUnit
  <2>5. QED
    BY <1>4, <1>5, <2>2, <2>3, <2>4 DEF Passes, MapConditional, Mapped
<1>6. CASE p.type = "ConditionalContract"
  <2>1. /\ ks[1].type \in BooleanTypes /\ ks[2].type \in ContractTypes
        /\ ks[3].type \in ContractTypes
    BY <1>6 DEF OperandsFit
  <2>2. /\ kids[1].type \in BooleanCategory /\ kids[2].type \in ContractCategory
        /\ kids[3].type \in ContractCategory
    BY <1>3, <2>1, Categories
  <2>3. DerivedUnit(p, us) = "none"
    BY <1>6 DEF DerivedUnit
  <2>4. QED
    BY <1>6, <2>2, <2>3 DEF Passes, MapConditional, Mapped
<1>7. QED
  BY <1>5, <1>6

\* Operands of the right classes and units pass every check of map_node, and
\* the unit recorded for the node is the one it has.
LEMMA MappingPasses ==
  ASSUME NEW p, p.type \in SupportedTypes, NEW kids, NEW ks, NEW us,
         KidsFit(kids, ks, us), Len(ks) \in Nat, OperandsFit(p, ks), UnitsFit(p, us)
  PROVE  Passes(MapNode(p, kids), DerivedUnit(p, us))
<1>1. CASE p.type \in {"Number", "Observable", "BooleanConstant", "Zero"}
  <2>1. MapNode(p, kids) = MapLeaf(p)
    BY <1>1 DEF MapNode
  <2>2. QED
    BY <1>1, <2>1, LeafPasses
<1>2. CASE p.type \in {"Add", "Maximum", "Minimum", "AllOf", "AnyOf"}
  <2>1. MapNode(p, kids) = MapCollection(p, kids)
    BY <1>2 DEF MapNode
  <2>2. QED
    BY <1>2, <2>1, CollectionPasses
<1>3. CASE p.type \in {"Subtract", "Multiply", "Divide", "Negate"}
  <2>1. MapNode(p, kids) = MapArithmetic(p, kids)
    BY <1>3 DEF MapNode
  <2>2. QED
    BY <1>3, <2>1, ArithmeticPasses
<1>4. CASE p.type \in {"Comparison", "Not"}
  <2>1. MapNode(p, kids) = MapCondition(p, kids)
    BY <1>4 DEF MapNode
  <2>2. QED
    BY <1>4, <2>1, ConditionPasses
<1>5. CASE p.type = "Both"
  <2>1. MapNode(p, kids) = MapBoth(p, kids)
    BY <1>5 DEF MapNode
  <2>2. QED
    BY <1>5, <2>1, ContractPasses
<1>6. CASE p.type = "Payment"
  <2>1. MapNode(p, kids) = MapPayment(p, kids)
    BY <1>6 DEF MapNode
  <2>2. QED
    BY <1>6, <2>1, ContractPasses
<1>7. CASE p.type = "Scale"
  <2>1. MapNode(p, kids) = MapScale(p, kids)
    BY <1>7 DEF MapNode
  <2>2. QED
    BY <1>7, <2>1, ContractPasses
<1>8. CASE p.type \in {"ConditionalValue", "ConditionalContract"}
  <2>1. MapNode(p, kids) = MapConditional(p, kids)
    BY <1>8 DEF MapNode
  <2>2. QED
    BY <1>8, <2>1, ConditionalPasses
<1>9. QED
  BY <1>1, <1>2, <1>3, <1>4, <1>5, <1>6, <1>7, <1>8
     DEF SupportedTypes, ScalarTypes, BooleanTypes, ContractTypes

-----------------------------------------------------------------------------
(* Renaming the ids of a document changes neither count nor size.          *)

\* One entry per node and per reference.
BytesIn(nodes) == UNION {{id} \X (0..Len(nodes[id].kids)) : id \in DOMAIN nodes}

LEMMA BytesFinite ==
  ASSUME NEW nodes, IsFiniteSet(DOMAIN nodes),
         \A c \in DOMAIN nodes : Len(nodes[c].kids) \in Nat
  PROVE  IsFiniteSet(BytesIn(nodes))
<1> DEFINE F(c) == {c} \X (0..Len(nodes[c].kids))
           Fs == {F(c) : c \in DOMAIN nodes}
           g == [c \in DOMAIN nodes |-> F(c)]
<1>1. IsFiniteSet(Fs)
  <2>1. g \in Surjection(DOMAIN nodes, Fs)
    BY DEF Surjection
  <2>2. QED
    BY <2>1, FS_Surjection
<1>2. ASSUME NEW c \in DOMAIN nodes PROVE IsFiniteSet(F(c))
  <2> DEFINE I == 0..Len(nodes[c].kids)
             A == {c}
  <2>1. IsFiniteSet(I)
    BY FS_Interval
  <2>2. IsFiniteSet(A)
    BY FS_Singleton
  <2> HIDE DEF I, A
  <2>3. IsFiniteSet(A \X I)
    BY <2>1, <2>2, FS_Product
  <2>4. QED
    BY <2>3 DEF I, A
<1> HIDE DEF F
<1>3. \A A \in Fs : IsFiniteSet(A)
  BY <1>2
<1> HIDE DEF Fs
<1>4. IsFiniteSet(UNION Fs)
  BY <1>1, <1>3, FS_UNION
<1>5. QED
  BY <1>4 DEF Fs, F, BytesIn

LEMMA BytesOfNode ==
  ASSUME NEW nodes, NEW x
  PROVE  x \in BytesIn(nodes) <=>
           \E c \in DOMAIN nodes : \E i \in 0..Len(nodes[c].kids) : x = <<c, i>>
BY DEF BytesIn

LEMMA BytesRenamed ==
  ASSUME NEW nodes, NEW recs, NEW f, IsFiniteSet(DOMAIN nodes),
         \A c \in DOMAIN nodes :
           /\ Len(nodes[c].kids) \in Nat /\ f[c] \in DOMAIN recs
           /\ Len(recs[f[c]].kids) = Len(nodes[c].kids),
         \A id \in DOMAIN recs : \E c \in DOMAIN nodes : f[c] = id,
         \A c, d \in DOMAIN nodes : f[c] = f[d] => c = d
  PROVE  /\ Cardinality(BytesIn(nodes)) \in Nat
         /\ Cardinality(BytesIn(recs)) = Cardinality(BytesIn(nodes))
<1> DEFINE A == BytesIn(nodes)
           B == BytesIn(recs)
           g == [x \in A |-> <<f[x[1]], x[2]>>]
<1>1. IsFiniteSet(A)
  BY BytesFinite
<1>2. \A x \in A : \E c \in DOMAIN nodes : \E i \in 0..Len(nodes[c].kids) : x = <<c, i>>
  BY BytesOfNode
<1>3. \A c \in DOMAIN nodes : \A i \in 0..Len(nodes[c].kids) :
        <<c, i>> \in A /\ <<f[c], i>> \in B
  BY BytesOfNode
<1>4. \A y \in B : \E c \in DOMAIN nodes : \E i \in 0..Len(nodes[c].kids) : y = <<f[c], i>>
  <2>1. SUFFICES ASSUME NEW y \in B
                 PROVE  \E c \in DOMAIN nodes :
                          \E i \in 0..Len(nodes[c].kids) : y = <<f[c], i>>
    OBVIOUS
  <2>2. PICK id \in DOMAIN recs : \E i \in 0..Len(recs[id].kids) : y = <<id, i>>
    BY BytesOfNode
  <2>3. QED
    BY <2>2
<1> HIDE DEF A, B
<1>5. g \in [A -> B]
  BY <1>2, <1>3
<1>6. \A x, y \in A : g[x] = g[y] => x = y
  BY <1>2
<1>7. ASSUME NEW y \in B PROVE \E x \in A : g[x] = y
  <2>1. PICK c \in DOMAIN nodes : \E i \in 0..Len(nodes[c].kids) : y = <<f[c], i>>
    BY <1>4
  <2>0. PICK i \in 0..Len(nodes[c].kids) : y = <<f[c], i>>
    BY <2>1
  <2>2. <<c, i>> \in A /\ g[<<c, i>>] = <<f[c], i>>
    BY <1>3
  <2>3. QED
    BY <2>0, <2>2
<1> HIDE DEF g
<1>8. g \in Bijection(A, B)
  <2>1. g \in Injection(A, B)
    BY <1>5, <1>6 DEF Injection, IsInjective
  <2>2. g \in Surjection(A, B)
    BY <1>5, <1>7 DEF Surjection
  <2>3. QED
    BY <2>1, <2>2 DEF Bijection
<1>9. ExistsBijection(A, B)
  BY <1>8 DEF ExistsBijection
<1>10. Cardinality(A) \in Nat /\ Cardinality(B) = Cardinality(A)
  BY <1>1, <1>9, FS_Bijection, FS_CardinalityType
<1>11. QED
  BY <1>10 DEF A, B

\* The returned graph is as long as the document it was compiled from.
LEMMA SameSizes ==
  ASSUME IInv, Apart(idOf), pc = "traverse", walk = << >>
  PROVE  /\ Cardinality(CanonicalIds) \in Nat
         /\ Cardinality(DOMAIN Structural.nodes) = Cardinality(CanonicalIds)
         /\ ByteLength(outcome.document) \in Nat
         /\ ByteLength(Structural) = ByteLength(outcome.document)
<1> DEFINE nodes == outcome.document.nodes
<1>1. /\ DOMAIN idOf = CanonicalIds /\ IsFiniteSet(CanonicalIds)
      /\ \A c \in CanonicalIds :
           /\ idOf[c] \in DOMAIN records
           /\ Len(records[idOf[c]].kids) = Len(nodes[c].kids)
      /\ \A id \in DOMAIN records : \E c \in CanonicalIds : idOf[c] = id
  BY RecordsImage
<1>2. outcome \in Outcomes /\ outcome.kind = "canonical"
  BY DEF IInv
<1>3. \A c \in CanonicalIds : Len(nodes[c].kids) \in Nat
  <2>1. \A c \in CanonicalIds : nodes[c].kids \in Seq(CanonicalIds)
    BY <1>2, DocumentFacts
  <2>2. QED
    BY <2>1, LenProperties
<1>4. Structural.nodes = records /\ CanonicalIds = DOMAIN nodes
  BY DEF Structural, CanonicalIds
<1>5. /\ ByteLength(outcome.document) = Cardinality(BytesIn(nodes))
      /\ ByteLength(Structural) = Cardinality(BytesIn(records))
  BY <1>4 DEF ByteLength, BytesOf, BytesIn
<1> HIDE DEF nodes
<1>6. /\ Cardinality(BytesIn(nodes)) \in Nat
      /\ Cardinality(BytesIn(records)) = Cardinality(BytesIn(nodes))
  <2>1. \A c, d \in DOMAIN nodes : idOf[c] = idOf[d] => c = d
    BY <1>1, <1>4 DEF Apart
  <2>2. QED
    <3>1. /\ IsFiniteSet(DOMAIN nodes)
          /\ \A c \in DOMAIN nodes :
               /\ Len(nodes[c].kids) \in Nat /\ idOf[c] \in DOMAIN records
               /\ Len(records[idOf[c]].kids) = Len(nodes[c].kids)
          /\ \A id \in DOMAIN records : \E c \in DOMAIN nodes : idOf[c] = id
      BY <1>1, <1>3, <1>4
    <3>2. QED
      BY <2>1, <3>1, BytesRenamed
<1>7. Cardinality(DOMAIN records) = Cardinality(CanonicalIds)
  BY RecordsCounted
<1>8. Cardinality(CanonicalIds) \in Nat
  BY <1>1, FS_CardinalityType
<1>9. QED
  BY <1>4, <1>5, <1>6, <1>7, <1>8

-----------------------------------------------------------------------------
(* On a canonical document none of the internal checks fires.              *)

DocumentUnits == UnitsOf(outcome.document.nodes)

\* Compilation finds the units the document has.
UnitsRight == \A c \in DOMAIN idOf : unitOf[c] = DocumentUnits[c]

LEMMA DocumentTyped ==
  ASSUME outcome \in Outcomes, outcome.kind = "canonical"
  PROVE  /\ IsFiniteSet(CanonicalIds)
         /\ \A c \in CanonicalIds :
              /\ outcome.document.nodes[c].type \in SupportedTypes
              /\ outcome.document.nodes[c].kids \in Seq(CanonicalIds)
              /\ TypedIn(outcome.document.nodes[c], outcome.document.nodes,
                         DocumentUnits)
              /\ DocumentUnits[c] = UnitAt(outcome.document.nodes[c], DocumentUnits)
         /\ GoesDown(CanonKids(outcome.document.nodes), CanonicalIds)
<1> DEFINE nodes == outcome.document.nodes
<1>1. /\ IsFiniteSet(CanonicalIds) /\ IsAcyclic(nodes) /\ IsTyped(nodes)
      /\ \A c \in CanonicalIds : nodes[c].kids \in Seq(CanonicalIds)
  BY OutcomesAssumption DEF IsWellFormed, CanonicalIds
<1>2. \A c \in CanonicalIds :
        nodes[c].type \in SupportedTypes /\ TypedIn(nodes[c], nodes, DocumentUnits)
  BY <1>1 DEF IsTyped, TypedIn, DocumentUnits, CanonicalIds
<1>3. \A c \in CanonicalIds : DocumentUnits[c] = UnitAt(nodes[c], DocumentUnits)
  <2>1. SolvesOn(nodes, DOMAIN nodes, UnitsOf(nodes))
    BY <1>1, UnitsComputed DEF CanonicalIds
  <2>2. QED
    BY <2>1 DEF SolvesOn, DocumentUnits, CanonicalIds
<1>4. GoesDown(CanonKids(nodes), CanonicalIds)
  <2>1. ASSUME NEW S \in SUBSET CanonicalIds, S # {}
        PROVE  \E x \in S : CanonKids(nodes)[x] \cap S = {}
    <3>1. PICK x \in S : Seq2Set(nodes[x].kids) \cap S = {}
      BY <1>1, <2>1 DEF IsAcyclic, CanonicalIds
    <3>2. CanonKids(nodes)[x] = Seq2Set(nodes[x].kids)
      BY DEF CanonKids, CanonicalIds
    <3>3. QED
      BY <3>1, <3>2
  <2>2. QED
    BY <2>1 DEF GoesDown
<1>5. QED
  BY <1>1, <1>2, <1>3, <1>4

\* The compiled children of a canonical node are as map_node wants them.
LEMMA KidsCompiled ==
  ASSUME IInv, UnitsRight, outcome.kind = "canonical",
         DOMAIN idOf \subseteq CanonicalIds, NEW c \in CanonicalIds,
         Seq2Set(outcome.document.nodes[c].kids) \subseteq DOMAIN idOf
  PROVE  KidsFit(KidsWith(outcome.document.nodes[c], idOf, unitOf, payoffs),
                 PayloadsOf(outcome.document.nodes[c].kids, outcome.document.nodes),
                 UnitsAt(DocumentUnits, outcome.document.nodes[c].kids))
<1> DEFINE nodes == outcome.document.nodes
           ids == nodes[c].kids
           kids == KidsWith(nodes[c], idOf, unitOf, payoffs)
           ks == PayloadsOf(ids, nodes)
           us == UnitsAt(DocumentUnits, ids)
<1>1. /\ outcome \in Outcomes
      /\ TableOK(nodes, idOf, unitOf, payoffs, digests)
  BY DEF IInv, CoreOK
<1>2. ids \in Seq(CanonicalIds) /\ Len(ids) \in Nat
  BY <1>1, DocumentTyped, LenProperties
<1>3. Len(ks) = Len(ids) /\ \A i \in 1..Len(ids) : ks[i] = nodes[ids[i]]
  <2>1. ids \in Seq(DOMAIN nodes)
    BY <1>2 DEF CanonicalIds
  <2>2. QED
    BY <2>1, PayloadsFacts
<1>4. DOMAIN us = 1..Len(ids) /\ \A i \in 1..Len(ids) : us[i] = DocumentUnits[ids[i]]
  BY DEF UnitsAt
<1>5. /\ Len(kids) = Len(ids)
      /\ \A i \in 1..Len(ids) : kids[i] = KidWith(ids[i], idOf, unitOf, payoffs)
  <2>1. kids \in [1..Len(ids) -> {kids[i] : i \in 1..Len(ids)}]
    BY DEF KidsWith
  <2>2. kids \in Seq({kids[i] : i \in 1..Len(ids)})
    BY <1>2, <2>1, SeqDef
  <2>3. Len(kids) = Len(ids)
    BY <1>2, <2>1, <2>2, LenProperties
  <2>4. QED
    BY <2>3 DEF KidsWith
<1>6. ASSUME NEW x \in DOMAIN idOf
      PROVE  KidWith(x, idOf, unitOf, payoffs).type = PGType[nodes[x].type]
             /\ KidWith(x, idOf, unitOf, payoffs).unit = DocumentUnits[x]
  <2>1. NodeOK(nodes[x], x, idOf, unitOf, payoffs)
    BY <1>1 DEF TableOK
  <2>2. /\ idOf[x] \in DOMAIN payoffs
        /\ payoffs[idOf[x]] = NodeWith(nodes[x], idOf, unitOf, payoffs).payload
    BY <2>1 DEF NodeOK
  <2> DEFINE p == nodes[x]
             refs == RefsOf(p, KidsWith(p, idOf, unitOf, payoffs))
  <2>3. p.type \in SupportedTypes
    BY <1>1, DocumentTyped
  <2>4. NodeWith(p, idOf, unitOf, payoffs).payload = PayloadFor(p, refs)
    BY <2>3, NodePayload DEF NodeWith
  <2> HIDE DEF refs
  <2>5. PayloadFor(p, refs).type = PGType[p.type]
    BY DEF PayloadFor, Payload
  <2>6. TypeIn(payoffs, idOf[x]) = PGType[p.type]
    BY <2>2, <2>4, <2>5 DEF TypeIn
  <2>7. unitOf[x] = DocumentUnits[x]
    BY DEF UnitsRight
  <2> HIDE DEF p
  <2>8. QED
    BY <2>6, <2>7 DEF KidWith, p
<1>7. \A i \in 1..Len(ids) : ids[i] \in DOMAIN idOf
  BY DEF Seq2Set
<1> HIDE DEF ids, kids, ks, us, nodes
<1>8. ASSUME NEW i \in 1..Len(ks)
      PROVE  kids[i].type = PGType[ks[i].type] /\ kids[i].unit = us[i]
  BY <1>3, <1>4, <1>5, <1>6, <1>7
<1>9. KidsFit(kids, ks, us)
  BY <1>3, <1>4, <1>5, <1>8 DEF KidsFit
<1>10. QED
  BY <1>9 DEF ids, kids, ks, us, nodes

\* The node whose marker has surfaced is compiled, with the unit it has.
LEMMA NodePasses ==
  ASSUME IInv, UnitsRight, Popping(TRUE)
  PROVE  /\ Compiled(TopNode).allowed
         /\ Compiled(TopNode).unit = DocumentUnits[Top.id]
<1> DEFINE nodes == outcome.document.nodes
           c == Top.id
           p == nodes[c]
           kids == KidsWith(p, idOf, unitOf, payoffs)
           ks == PayloadsOf(p.kids, nodes)
           us == UnitsAt(DocumentUnits, p.kids)
<1>1. /\ c \in CanonicalIds \ DOMAIN idOf /\ p.type \in SupportedTypes
      /\ Seq2Set(p.kids) \subseteq DOMAIN idOf
  BY MarkerSurfaces
<1>2. /\ outcome \in Outcomes /\ outcome.kind = "canonical"
      /\ CompileOK(outcome.document, stack, colour, idOf)
  BY CompileFacts DEF Popping
<1>3. DOMAIN idOf \subseteq CanonicalIds
  BY <1>2 DEF CompileOK, WalkInv, Coloured, VisitedIn, CanonicalIds
<1>4. KidsFit(kids, ks, us)
  <2> HIDE DEF c
  <2>1. QED
    BY <1>1, <1>2, <1>3, KidsCompiled
<1>5. /\ p.kids \in Seq(CanonicalIds) /\ OperandsFit(p, ks) /\ UnitsFit(p, us)
      /\ DocumentUnits[c] = DerivedUnit(p, us)
  <2>1. /\ p.kids \in Seq(CanonicalIds) /\ TypedIn(p, nodes, DocumentUnits)
        /\ DocumentUnits[c] = UnitAt(p, DocumentUnits)
    BY <1>1, <1>2, DocumentTyped
  <2> HIDE DEF c, p, nodes
  <2>2. QED
    BY <2>1 DEF TypedIn, UnitAt
<1>6. Len(ks) \in Nat
  <2>1. p.kids \in Seq(DOMAIN nodes)
    BY <1>5 DEF CanonicalIds
  <2> HIDE DEF p, nodes
  <2>2. QED
    BY <2>1, PayloadsFacts
<1>7. Compiled(TopNode) = MapNode(p, kids)
  BY CompiledIsNodeWith DEF TopNode, NodeWith
<1> HIDE DEF p, kids, ks, us, c
<1>8. Passes(MapNode(p, kids), DerivedUnit(p, us))
  BY <1>1, <1>4, <1>5, <1>6, MappingPasses
<1>9. Compiled(TopNode).allowed /\ Compiled(TopNode).unit = DerivedUnit(p, us)
  BY <1>7, <1>8 DEF Passes
<1>10. Compiled(TopNode).unit = DocumentUnits[c]
  BY <1>5, <1>9
<1>11. QED
  BY <1>9, <1>10 DEF c

\* A frame on top is neither one of a node on the path nor an unreadable one.
LEMMA TopIsReadable ==
  ASSUME IInv, Popping(FALSE),
         PathInv(CanonKids(outcome.document.nodes), stack, colour)
  PROVE  ~Visiting(Top.id) /\ Decodable(Top.id)
<1> DEFINE nodes == outcome.document.nodes
           kids == CanonKids(nodes)
<1>1. /\ outcome \in Outcomes /\ outcome.kind = "canonical"
      /\ NonEmpty(stack, WFrames(CanonicalIds)) /\ Top.id \in CanonicalIds
  BY CompileFacts DEF Popping
<1>2. GoesDown(kids, CanonicalIds)
  BY <1>1, DocumentTyped
<1>3. ~stack[Len(stack)].leaving
  BY DEF Popping, Top
<1>4. ~Visiting(Top.id)
  <2> HIDE DEF kids
  <2>1. PathInv(kids, stack, colour)
    BY DEF kids
  <2>2. QED
    BY <1>1, <1>2, <1>3, <2>1, NeverVisiting DEF Visiting, Top
<1>5. Decodable(Top.id)
  <2> DEFINE c == Top.id
             p == nodes[c]
  <2>1. /\ p.type \in SupportedTypes /\ TypedIn(p, nodes, DocumentUnits)
        /\ p.kids \in Seq(DOMAIN nodes)
    BY <1>1, DocumentTyped DEF CanonicalIds
  <2> HIDE DEF p, nodes
  <2>2. Len(PayloadsOf(p.kids, nodes)) = Len(p.kids)
    BY <2>1, PayloadsFacts
  <2>3. p.type \in CollectionTypes => Len(p.kids) >= 2
    BY <2>1, <2>2 DEF TypedIn, OperandsFit
  <2>4. QED
    BY <1>1, <2>1, <2>3 DEF Decodable, p, nodes, CanonicalIds
<1>6. QED
  BY <1>4, <1>5

\* References between payoff nodes go down because those of the document do.
LEMMA TableGoesDown ==
  ASSUME IInv, Apart(idOf), pc = "traverse"
  PROVE  GoesDown(TableKids(payoffs), Reached)
<1> DEFINE D == CanonicalIds
           nodes == outcome.document.nodes
           image == {idOf[c] : c \in D}
<1>1. /\ outcome \in Outcomes /\ outcome.kind = "canonical"
      /\ outcome.document.root \in D /\ Reached \subseteq DOMAIN payoffs
  BY DocumentFacts DEF IInv, Reached, ReachIn
<1>2. ASSUME NEW c \in D
      PROVE  /\ idOf[c] \in DOMAIN payoffs /\ Seq2Set(nodes[c].kids) \subseteq D
             /\ Seq2Set(payoffs[idOf[c]].kids) = {idOf[x] : x \in Seq2Set(nodes[c].kids)}
  BY KidsRenamed
<1>3. Reached \subseteq image
  <2>1. image \in SUBSET DOMAIN payoffs /\ PayoffRoot \in image
    BY <1>1, <1>2 DEF PayoffRoot
  <2>2. ASSUME NEW y \in image PROVE Seq2Set(payoffs[y].kids) \subseteq image
    <3>1. PICK c \in D : y = idOf[c]
      OBVIOUS
    <3>2. Seq2Set(payoffs[idOf[c]].kids) = {idOf[x] : x \in Seq2Set(nodes[c].kids)}
          /\ Seq2Set(nodes[c].kids) \subseteq D
      BY <1>2
    <3>3. QED
      BY <3>1, <3>2
  <2> HIDE DEF image
  <2>3. QED
    BY <2>1, <2>2 DEF Reached, ReachIn
<1>4. ASSUME NEW S \in SUBSET Reached, S # {}
      PROVE  \E y \in S : TableKids(payoffs)[y] \cap S = {}
  <2> DEFINE T == {c \in D : idOf[c] \in S}
  <2>1. T \in SUBSET D /\ T # {}
    BY <1>3, <1>4
  <2>2. IsAcyclic(nodes)
    BY <1>1, OutcomesAssumption DEF IsWellFormed
  <2>3. PICK c \in T : Seq2Set(nodes[c].kids) \cap T = {}
    <3> HIDE DEF T
    <3>1. QED
      BY <2>1, <2>2 DEF IsAcyclic, CanonicalIds
  <2>4. c \in D /\ idOf[c] \in S
    OBVIOUS
  <2>5. TableKids(payoffs)[idOf[c]] = {idOf[x] : x \in Seq2Set(nodes[c].kids)}
    BY <1>1, <1>2, <2>4 DEF TableKids
  <2>6. Seq2Set(nodes[c].kids) \subseteq D
    BY <1>2, <2>4
  <2>7. {idOf[x] : x \in Seq2Set(nodes[c].kids)} \cap S = {}
    <3>1. ASSUME NEW x \in Seq2Set(nodes[c].kids), idOf[x] \in S PROVE FALSE
      <4>1. x \in T
        BY <2>6, <3>1
      <4>2. QED
        BY <2>3, <3>1, <4>1
    <3>2. QED
      BY <3>1
  <2>8. QED
    BY <2>4, <2>5, <2>7
<1>5. QED
  BY <1>4 DEF GoesDown

\* A frame on top of the second traversal is readable as well.
LEMMA WalkTopIsReadable ==
  ASSUME IInv, Apart(idOf), Walking(FALSE),
         PathInv(TableKids(payoffs), walk, walkColour)
  PROVE  ~WalkVisiting /\ WalkTop.id \in DOMAIN payoffs
<1> DEFINE kids == TableKids(payoffs)
<1>1. pc = "traverse" /\ walk # << >> /\ ~walk[Len(walk)].leaving
  BY DEF Walking, WalkTop
<1>2. NonEmpty(walk, WFrames(Reached)) /\ WalkTop.id \in Reached
  BY <1>1, TraverseFacts
<1>3. GoesDown(kids, Reached)
  BY <1>1, TableGoesDown
<1>4. ~WalkVisiting
  <2> HIDE DEF kids
  <2>1. PathInv(kids, walk, walkColour)
    BY DEF kids
  <2>2. QED
    BY <1>1, <1>2, <1>3, <2>1, NeverVisiting DEF WalkVisiting, WalkTop
<1>5. WalkTop.id \in DOMAIN payoffs
  BY <1>2 DEF Reached, ReachIn
<1>6. QED
  BY <1>4, <1>5

-----------------------------------------------------------------------------
(* Both walks stay on paths.                                               *)

WalkPaths ==
  /\ pc = "compile" => PathInv(CanonKids(outcome.document.nodes), stack, colour)
  /\ pc = "traverse" => PathInv(TableKids(payoffs), walk, walkColour)

\* Only children are scheduled.
LEMMA ScheduledIds ==
  ASSUME NEW U, NEW ks \in Seq(U)
  PROVE  LET above == [i \in 1..Len(ks) |-> Frame(ks[i], FALSE)]
         IN  \A i \in 1..Len(above) : above[i].id \in Seq2Set(ks)
<1> DEFINE above == [i \in 1..Len(ks) |-> Frame(ks[i], FALSE)]
           frames == {above[i] : i \in 1..Len(ks)}
<1>1. Len(ks) \in Nat /\ \A i \in 1..Len(ks) : above[i].id = ks[i]
  BY LenProperties DEF Frame
<1>2. above \in [1..Len(ks) -> frames]
  OBVIOUS
<1> HIDE DEF frames
<1>3. Len(above) = Len(ks)
  BY <1>1, <1>2, SeqDef, LenProperties
<1>4. QED
  BY <1>1, <1>3 DEF Seq2Set

LEMMA CompilePaths ==
  ASSUME IInv, WalkPaths, BeginCompile \/ SkipVisited \/ Schedule \/ CompileNode
  PROVE  WalkPaths'
<1> DEFINE nodes == outcome.document.nodes
           kids == CanonKids(nodes)
           n == Top.id
<1>0. UNCHANGED outcome
  BY DEF BeginCompile, SkipVisited, Schedule, CompileNode, callArgs
<1>1. pc' \in {"compile", "done"}
  BY DEF BeginCompile, SkipVisited, Schedule, CompileNode, Popping, Raise
<1>2. SUFFICES ASSUME pc' = "compile" PROVE PathInv(kids, stack', colour')
  <2>1. CanonKids(outcome.document.nodes)' = CanonKids(outcome.document.nodes)
    BY <1>0 DEF CanonKids
  <2>2. QED
    BY <1>1, <1>2, <2>1 DEF WalkPaths
<1>3. CASE BeginCompile
  <2> DEFINE f == Frame(outcome.document.root, FALSE)
  <2>1. stack' = << f >> /\ colour' = << >>
    BY <1>3 DEF BeginCompile, core, IInv, Fresh
  <2> HIDE DEF f, kids
  <2>2. PathInv(kids, << f >>, << >>)
    BY PathStarts
  <2>3. QED
    BY <2>1, <2>2
<1>4. ASSUME pc = "compile", stack # << >>
      PROVE  /\ NonEmpty(stack, WFrames(CanonicalIds)) /\ n \in CanonicalIds
             /\ outcome \in Outcomes /\ outcome.kind = "canonical"
             /\ PathInv(kids, stack, colour)
  BY <1>4, CompileFacts DEF WalkPaths
<1>5. n = stack[Len(stack)].id
  BY DEF Top
<1>6. CASE SkipVisited
  <2>1. /\ pc = "compile" /\ stack # << >> /\ ~stack[Len(stack)].leaving
        /\ stack' = Popped(stack) /\ colour' = colour
    BY <1>6 DEF SkipVisited, Popping, Rest, Popped, core, Top
  <2> HIDE DEF kids
  <2>2. QED
    BY <1>4, <2>1, PathPops
<1>7. CASE CompileNode
  <2>1. pc = "compile" /\ stack # << >>
    BY <1>7 DEF CompileNode, Popping
  <2>2. stack' = Popped(stack) /\ colour' = Extended(colour, n, "visited")
    BY <1>2, <1>7 DEF CompileNode, Raise, Record, Rest, Popped
  <2> HIDE DEF kids, n
  <2>3. QED
    BY <1>4, <1>5, <2>1, <2>2, PathLeaves
<1>8. CASE Schedule
  <2> DEFINE ks == TopNode.kids
             f == Frame(n, TRUE)
             above == [i \in 1..Len(ks) |-> Frame(ks[i], FALSE)]
  <2>1. /\ pc = "compile" /\ stack # << >> /\ ~stack[Len(stack)].leaving
        /\ stack' = Pushed(stack, f, above)
        /\ colour' = Extended(colour, n, "visiting")
    BY <1>2, <1>8 DEF Schedule, Popping, Raise, Top, Pushed, Popped, Rest
  <2>2. f \in WFrames(CanonicalIds) /\ f.id = n /\ f.leaving
    BY <1>4, <2>1 DEF Frame, WFrames
  <2>3. ks \in Seq(CanonicalIds) /\ kids[n] = Seq2Set(ks)
    BY <1>4, <2>1, DocumentFacts DEF TopNode
  <2>4. Schedules(above, kids[n], CanonicalIds)
    BY <2>3, ScheduleFacts
  <2>5. \A i \in 1..Len(above) : above[i].id \in kids[n]
    BY <2>3, ScheduledIds
  <2> HIDE DEF kids, n, f, above, ks
  <2>6. QED
    BY <1>4, <1>5, <2>1, <2>2, <2>4, <2>5, PathEnters
<1>9. QED
  BY <1>3, <1>6, <1>7, <1>8

LEMMA TraversePaths ==
  ASSUME IInv, WalkPaths,
         BeginTraversal \/ TraverseSkip \/ TraverseVisit \/ TraverseLeave
  PROVE  WalkPaths'
<1> DEFINE kids == TableKids(payoffs)
           n == WalkTop.id
<1>0. UNCHANGED payoffs
  BY DEF BeginTraversal, TraverseSkip, TraverseVisit, TraverseLeave, core
<1>1. pc' \in {"traverse", "done"}
  BY DEF BeginTraversal, TraverseSkip, TraverseVisit, TraverseLeave, Walking, Raise
<1>2. SUFFICES ASSUME pc' = "traverse" PROVE PathInv(kids, walk', walkColour')
  <2>1. TableKids(payoffs)' = TableKids(payoffs)
    BY <1>0 DEF TableKids
  <2>2. QED
    BY <1>1, <1>2, <2>1 DEF WalkPaths
<1>3. CASE BeginTraversal
  <2> DEFINE f == Frame(idOf[outcome.document.root], FALSE)
  <2>1. walk' = << f >> /\ walkColour' = << >>
    BY <1>3 DEF BeginTraversal, IInv
  <2> HIDE DEF f, kids
  <2>2. PathInv(kids, << f >>, << >>)
    BY PathStarts
  <2>3. QED
    BY <2>1, <2>2
<1>4. ASSUME pc = "traverse", walk # << >>
      PROVE  /\ NonEmpty(walk, WFrames(Reached)) /\ n \in Reached
             /\ PathInv(kids, walk, walkColour)
  BY <1>4, TraverseFacts DEF WalkPaths
<1>5. n = walk[Len(walk)].id
  BY DEF WalkTop
<1>6. CASE TraverseSkip
  <2>1. /\ pc = "traverse" /\ walk # << >> /\ ~walk[Len(walk)].leaving
        /\ walk' = Popped(walk) /\ walkColour' = walkColour
    BY <1>6 DEF TraverseSkip, Walking, WalkRest, Popped, WalkTop
  <2> HIDE DEF kids
  <2>2. QED
    BY <1>4, <2>1, PathPops
<1>7. CASE TraverseLeave
  <2>1. /\ pc = "traverse" /\ walk # << >> /\ walk' = Popped(walk)
        /\ walkColour' = Extended(walkColour, n, "visited")
    BY <1>7 DEF TraverseLeave, Walking, WalkRest, Popped
  <2> HIDE DEF kids, n
  <2>2. QED
    BY <1>4, <1>5, <2>1, PathLeaves
<1>8. CASE TraverseVisit
  <2> DEFINE ks == payoffs[n].kids
             f == Frame(n, TRUE)
             above == [i \in 1..Len(ks) |-> Frame(ks[i], FALSE)]
  <2>1. /\ pc = "traverse" /\ walk # << >> /\ ~walk[Len(walk)].leaving
        /\ walk' = Pushed(walk, f, above)
        /\ walkColour' = Extended(walkColour, n, "visiting")
    BY <1>2, <1>8 DEF TraverseVisit, Walking, Raise, WalkTop, Pushed, Popped,
                      WalkRest, Refs
  <2>2. f \in WFrames(Reached) /\ f.id = n /\ f.leaving
    BY <1>4, <2>1 DEF Frame, WFrames
  <2>3. ks \in Seq(Reached) /\ kids[n] = Seq2Set(ks)
    <3>1. /\ PayoffRoot \in DOMAIN payoffs
          /\ \A id \in DOMAIN payoffs : payoffs[id].kids \in Seq(DOMAIN payoffs)
      BY <2>1, TraverseFacts DEF TableOK, TraverseOK
    <3>2. \A y \in Reached : /\ payoffs[y].kids \in Seq(Reached)
                             /\ TableKids(payoffs)[y] = Seq2Set(payoffs[y].kids)
      BY <3>1, ReachInFacts DEF Reached
    <3>3. QED
      BY <1>4, <2>1, <3>2
  <2>4. Schedules(above, kids[n], Reached)
    BY <2>3, ScheduleFacts
  <2>5. \A i \in 1..Len(above) : above[i].id \in kids[n]
    BY <2>3, ScheduledIds
  <2> HIDE DEF kids, n, f, above, ks
  <2>6. QED
    BY <1>4, <1>5, <2>1, <2>2, <2>4, <2>5, PathEnters
<1>9. QED
  BY <1>3, <1>6, <1>7, <1>8

LEMMA PathsKept == IInv /\ WalkPaths /\ [Next]_vars => WalkPaths'
<1>1. SUFFICES ASSUME IInv, WalkPaths, [Next]_vars PROVE WalkPaths'
  OBVIOUS
<1>2. CASE BeginCompile \/ SkipVisited \/ Schedule \/ CompileNode
  BY <1>1, <1>2, CompilePaths
<1>3. CASE BeginTraversal \/ TraverseSkip \/ TraverseVisit \/ TraverseLeave
  BY <1>1, <1>3, TraversePaths
<1>4. CASE RejectConfig \/ AcceptConfig \/ CanonicalizationFails \/ DetectCollision
             \/ TooComplex \/ Return
  <2>1. pc' \in {"canonicalize", "done"}
    BY <1>4 DEF RejectConfig, AcceptConfig, CanonicalizationFails, DetectCollision,
                TooComplex, Return, Raise
  <2>2. QED
    BY <2>1 DEF WalkPaths
<1>5. CASE UNCHANGED vars
  BY <1>1, <1>5 DEF vars, WalkPaths, CanonKids, TableKids
<1>6. QED
  BY <1>1, <1>2, <1>3, <1>4, <1>5 DEF Next

-----------------------------------------------------------------------------
(* What callers are promised.                                              *)

PromiseInv ==
  /\ config \in Configs
  /\ UnitsRight
  /\ WalkPaths
  /\ Oracle = "one order" => NoClash(digests)
  /\ pc \in {"canonicalize", "compile", "traverse"} => ConfigError = "none"
  /\ pc # "done" => result.kind = "none"
  /\ AnswersAsPromised

\* The arguments stay, and only two steps compile and hash.
LEMMA ArgumentsStay ==
  ASSUME [Next]_vars
  PROVE  /\ UNCHANGED <<outcome, config>> /\ ConfigError' = ConfigError
         /\ CanonicalIds' = CanonicalIds /\ DocumentUnits' = DocumentUnits
<1>1. UNCHANGED <<outcome, config>>
  BY DEF Next, RejectConfig, AcceptConfig, CanonicalizationFails, BeginCompile,
         SkipVisited, Schedule, CompileNode, DetectCollision, BeginTraversal,
         TraverseSkip, TraverseVisit, TraverseLeave, TooComplex, Return, callArgs, vars
<1>2. QED
  BY <1>1 DEF ConfigError, CanonicalIds, DocumentUnits

LEMMA UnitsKept ==
  ASSUME IInv, UnitsRight, [Next]_vars
  PROVE  UnitsRight'
<1>1. DocumentUnits' = DocumentUnits
  BY ArgumentsStay
<1>2. CASE CompileNode /\ Compiled(TopNode).allowed
  <2>1. Popping(TRUE)
    BY <1>2 DEF CompileNode
  <2>2. /\ \E id : idOf' = Extended(idOf, Top.id, id)
        /\ unitOf' = Extended(unitOf, Top.id, Compiled(TopNode).unit)
    BY <1>2 DEF CompileNode, Record
  <2>3. Compiled(TopNode).unit = DocumentUnits[Top.id]
    BY <2>1, NodePasses
  <2>4. ASSUME NEW c \in DOMAIN idOf' PROVE unitOf'[c] = DocumentUnits[c]
    <3>1. c \in DOMAIN idOf \/ c = Top.id
      BY <2>2 DEF Extended
    <3>2. c \in DOMAIN idOf => c \in DOMAIN unitOf
      BY DEF IInv, CoreOK, TableOK
    <3>3. QED
      BY <2>2, <2>3, <3>1, <3>2 DEF UnitsRight, Extended
  <2>5. QED
    BY <1>1, <2>4 DEF UnitsRight
<1>3. CASE ~(CompileNode /\ Compiled(TopNode).allowed)
  <2>1. UNCHANGED <<idOf, unitOf>>
    BY <1>3 DEF Next, RejectConfig, AcceptConfig, CanonicalizationFails, BeginCompile,
         SkipVisited, Schedule, CompileNode, DetectCollision, BeginTraversal,
         TraverseSkip, TraverseVisit, TraverseLeave, TooComplex, Return, core, vars
  <2>2. QED
    BY <1>1, <2>1 DEF UnitsRight
<1>4. QED
  BY <1>2, <1>3

LEMMA ClashesKept ==
  ASSUME IInv, Oracle = "one order", NoClash(digests), [Next]_vars
  PROVE  NoClash(digests')
<1>1. \/ digests' = digests
      \/ \E x : \E id \in Answers(digests, x) : digests' = Extended(digests, x, id)
  BY DEF Next, RejectConfig, AcceptConfig, CanonicalizationFails, BeginCompile,
         SkipVisited, Schedule, CompileNode, DetectCollision, BeginTraversal,
         TraverseSkip, TraverseVisit, TraverseLeave, TooComplex, Return, oracle, vars
<1>2. CASE digests' = digests
  BY <1>2
<1>3. ASSUME NEW x, NEW id \in Answers(digests, x), digests' = Extended(digests, x, id)
      PROVE  NoClash(digests')
  <2>1. DigestsTyped(digests)
    BY DEF IInv
  <2>2. QED
    BY <1>3, <2>1, OneOrder
<1>4. QED
  BY <1>1, <1>2, <1>3

LEMMA RaisedKind ==
  ASSUME NEW kind, Raise(kind)
  PROVE  result'.kind = kind /\ pc' = "done"
BY DEF Raise, NoResult

\* A call that goes on has not answered, and its arguments were accepted.
GoesOn == pc' # "done" /\ result'.kind = "none"
          /\ (pc' \in {"canonicalize", "compile", "traverse"} => ConfigError = "none")

LEMMA StepsGoOn ==
  ASSUME IInv, PromiseInv,
         \/ AcceptConfig \/ BeginCompile \/ SkipVisited \/ BeginTraversal
         \/ TraverseSkip \/ TraverseLeave
  PROVE  GoesOn
<1>1. result' = result /\ pc # "done" /\ pc' # "done"
  BY DEF AcceptConfig, BeginCompile, SkipVisited, BeginTraversal, TraverseSkip,
         TraverseLeave, Popping, Walking
<1>2. AcceptConfig \/ pc \in {"canonicalize", "compile", "traverse"}
  BY DEF AcceptConfig, BeginCompile, SkipVisited, BeginTraversal, TraverseSkip,
         TraverseLeave, Popping, Walking
<1>3. QED
  BY <1>1, <1>2 DEF PromiseInv, GoesOn, AcceptConfig

\* Neither loop meets one of its internal errors.
LEMMA VisitsGoOn ==
  ASSUME IInv, Apart(idOf), PromiseInv, Schedule \/ TraverseVisit
  PROVE  GoesOn
<1>1. CASE Schedule
  <2>1. Popping(FALSE) /\ pc = "compile"
    BY <1>1 DEF Schedule, Popping
  <2>2. ~Visiting(Top.id) /\ Decodable(Top.id)
    BY <2>1, TopIsReadable DEF PromiseInv, WalkPaths
  <2>3. UNCHANGED <<pc, result>>
    BY <1>1, <2>2 DEF Schedule
  <2>4. QED
    BY <2>1, <2>3 DEF PromiseInv, GoesOn
<1>2. CASE TraverseVisit
  <2>1. Walking(FALSE) /\ pc = "traverse"
    BY <1>2 DEF TraverseVisit, Walking
  <2>2. ~WalkVisiting /\ WalkTop.id \in DOMAIN payoffs
    BY <2>1, WalkTopIsReadable DEF PromiseInv, WalkPaths
  <2>3. UNCHANGED <<pc, result>>
    BY <1>2, <2>2 DEF TraverseVisit
  <2>4. QED
    BY <2>1, <2>3 DEF PromiseInv, GoesOn
<1>3. QED
  BY <1>1, <1>2

\* map_node accepts every node of a canonical document.
LEMMA CompilesGoOn ==
  ASSUME IInv, PromiseInv, CompileNode
  PROVE  GoesOn
<1>1. Popping(TRUE) /\ pc = "compile"
  BY DEF CompileNode, Popping
<1>2. Compiled(TopNode).allowed
  BY <1>1, NodePasses DEF PromiseInv
<1>3. UNCHANGED <<pc, result>>
  BY <1>2 DEF CompileNode
<1>4. QED
  BY <1>1, <1>3 DEF PromiseInv, GoesOn

\* The gates answer with the error of the arguments or of canonicalization.
LEMMA GatesAnswer ==
  ASSUME IInv, PromiseInv, RejectConfig \/ CanonicalizationFails, [Next]_vars
  PROVE  AnswersAsPromised' /\ pc' = "done"
<1>1. UNCHANGED <<outcome, config>> /\ ConfigError' = ConfigError
  BY ArgumentsStay
<1>2. CASE RejectConfig
  <2>1. Raise(ConfigError) /\ ConfigError \in {"PayoffGraphInputError", "CanonicalizationInputError"}
    BY <1>2 DEF RejectConfig, ConfigError
  <2>2. result'.kind = ConfigError /\ pc' = "done"
    BY <2>1, RaisedKind
  <2>3. QED
    BY <1>1, <2>1, <2>2 DEF AnswersAsPromised
<1>3. CASE CanonicalizationFails
  <2>1. Raise(outcome.kind)
        /\ outcome.kind \in {"not a contract"} \cup CanonicalizationErrors
    BY <1>3, OutcomesAssumption DEF CanonicalizationFails, IInv
  <2>2. result'.kind = outcome.kind /\ pc' = "done"
    BY <2>1, RaisedKind
  <2>3. QED
    BY <1>1, <2>1, <2>2 DEF AnswersAsPromised, CanonicalizationErrors
<1>4. QED
  BY <1>2, <1>3

LEMMA CollisionAnswers ==
  ASSUME IInv, PromiseInv, DetectCollision, [Next]_vars
  PROVE  AnswersAsPromised' /\ pc' = "done"
<1> DEFINE p == Compiled(TopNode).payload
<1>1. UNCHANGED <<outcome, config>>
  BY ArgumentsStay
<1>2. pc = "compile" /\ Raise("PayoffGraphCollisionError")
      /\ \E id \in Answers(digests, p) : id \in DOMAIN payoffs /\ payoffs[id] # p
  BY DEF DetectCollision, Popping
<1>3. outcome.kind = "canonical" /\ ContentAddressed(payoffs, digests)
      /\ DigestsTyped(digests)
  BY <1>2 DEF IInv, CoreOK, TableOK
<1> HIDE DEF p
<1>4. Oracle # "one order"
  BY <1>2, <1>3, TableHasIt DEF PromiseInv
<1>5. Oracle = "any"
  BY <1>4, OracleAssumption
<1>6. result'.kind = "PayoffGraphCollisionError" /\ pc' = "done"
  BY <1>2, RaisedKind
<1>7. QED
  BY <1>1, <1>3, <1>5, <1>6 DEF AnswersAsPromised

\* The limits bound the graph, and the graph is as large as the document.
LEMMA LimitsAnswer ==
  ASSUME IInv, Apart(idOf), PromiseInv, TooComplex \/ Return, [Next]_vars
  PROVE  AnswersAsPromised' /\ pc' = "done"
<1>1. /\ UNCHANGED <<outcome, config>> /\ ConfigError' = ConfigError
      /\ CanonicalIds' = CanonicalIds
  BY ArgumentsStay
<1>2. pc = "traverse" /\ walk = << >> /\ pc' = "done"
  BY DEF TooComplex, Return, Raise
<1>3. /\ ConfigError = "none" /\ outcome.kind = "canonical"
      /\ config.nodes \in Nat /\ config.structural \in Nat /\ config.document \in Nat
  BY <1>2, PayoffAssumption DEF PromiseInv, IInv
<1>4. /\ Cardinality(CanonicalIds) \in Nat
      /\ Cardinality(DOMAIN Structural.nodes) = Cardinality(CanonicalIds)
      /\ ByteLength(outcome.document) \in Nat
      /\ ByteLength(Structural) = ByteLength(outcome.document)
  BY <1>2, SameSizes
<1>5. CASE TooComplex
  <2>1. ~WithinLimits(Structural) /\ Raise("PayoffGraphComplexityError")
    BY <1>5 DEF TooComplex
  <2>2. result'.kind = "PayoffGraphComplexityError"
    BY <2>1, RaisedKind
  <2>3. \/ Cardinality(CanonicalIds) > config.nodes
        \/ ByteLength(outcome.document) > config.structural
        \/ ByteLength(outcome.document) >= config.document
    BY <1>3, <1>4, <2>1 DEF WithinLimits, ProvenanceLength
  <2>4. QED
    BY <1>1, <1>2, <1>3, <2>2, <2>3 DEF AnswersAsPromised
<1>6. CASE Return
  <2>1. WithinLimits(Structural)
    BY <1>6 DEF Return
  <2>2. result'.kind = "payoff graph" /\ result'.graph = Structural
    <3>1. PICK id : result' = [kind |-> "payoff graph", graph |-> Structural,
                               identity |-> id]
      BY <1>6 DEF Return
    <3>2. QED
      BY <3>1
  <2>3. /\ Cardinality(DOMAIN Structural.nodes) <= config.nodes
        /\ ByteLength(Structural) < config.document
    BY <1>3, <1>4, <2>1 DEF WithinLimits, ProvenanceLength
  <2>4. QED
    BY <1>1, <1>2, <1>3, <2>2, <2>3 DEF AnswersAsPromised
<1>7. QED
  BY <1>5, <1>6

LEMMA PromiseKept ==
  ASSUME IInv, NodesStayApart, PromiseInv, [Next]_vars
  PROVE  PromiseInv'
<1>1. UNCHANGED <<outcome, config>> /\ ConfigError' = ConfigError /\ Apart(idOf)
  BY ArgumentsStay DEF NodesStayApart, Apart
<1>2. UnitsRight' /\ WalkPaths' /\ (Oracle = "one order" => NoClash(digests'))
  BY UnitsKept, PathsKept, ClashesKept DEF PromiseInv
<1>3. CASE GoesOn
  <2>1. AnswersAsPromised'
    BY <1>3 DEF GoesOn, AnswersAsPromised
  <2>2. QED
    BY <1>1, <1>2, <1>3, <2>1 DEF PromiseInv, GoesOn
<1>4. CASE AnswersAsPromised' /\ pc' = "done"
  BY <1>1, <1>2, <1>4 DEF PromiseInv
<1>5. CASE UNCHANGED vars
  <2>1. AnswersAsPromised'
    BY <1>1, <1>5 DEF PromiseInv, AnswersAsPromised, CanonicalIds, vars
  <2>2. QED
    BY <1>1, <1>2, <1>5, <2>1 DEF PromiseInv, vars
<1>6. CASE Next
  <2>1. CASE \/ AcceptConfig \/ BeginCompile \/ SkipVisited \/ BeginTraversal
             \/ TraverseSkip \/ TraverseLeave
    BY <1>3, <2>1, StepsGoOn
  <2>2. CASE Schedule \/ TraverseVisit
    BY <1>1, <1>3, <2>2, VisitsGoOn
  <2>3. CASE CompileNode
    BY <1>3, <2>3, CompilesGoOn
  <2>4. CASE RejectConfig \/ CanonicalizationFails
    BY <1>4, <2>4, GatesAnswer
  <2>5. CASE DetectCollision
    BY <1>4, <2>5, CollisionAnswers
  <2>6. CASE TooComplex \/ Return
    BY <1>1, <1>4, <2>6, LimitsAnswer
  <2>7. QED
    BY <1>6, <2>1, <2>2, <2>3, <2>4, <2>5, <2>6 DEF Next
<1>7. QED
  BY <1>5, <1>6

\* Together with the invariant of the table, in both calls of __eq__: units are
\* found as they are, both walks stay on paths, and what was answered so far is
\* as promised.
THEOREM CompilerPromiseInvariant == EqSpec => []PromiseInv
<1>1. EqInit => PromiseInv
  <2>1. SUFFICES ASSUME EqInit PROVE PromiseInv
    OBVIOUS
  <2>2. idOf = << >> /\ digests = << >> /\ pc = "config" /\ config \in Configs
    BY <2>1 DEF EqInit, Init
  <2>3. DOMAIN idOf = {} /\ DOMAIN digests = {}
    BY <2>2
  <2>4. result.kind = "none"
    BY <2>1 DEF EqInit, Init, NoResult
  <2>5. NoClash(digests) /\ UnitsRight
    BY <2>3 DEF NoClash, UnitsRight
  <2>6. QED
    BY <2>2, <2>4, <2>5 DEF PromiseInv, WalkPaths, AnswersAsPromised
<1>2. EqInv /\ NodesStayApart /\ PromiseInv /\ [EqNext]_allVars => PromiseInv'
  <2>1. SUFFICES ASSUME EqInv, NodesStayApart, PromiseInv, [EqNext]_allVars
                 PROVE PromiseInv'
    OBVIOUS
  <2>2. CASE CompileStep \/ Propagate \/ Compare \/ UNCHANGED allVars
    <3>1. [Next]_vars
      BY <2>2 DEF CompileStep, Propagate, Compare, allVars
    <3>2. QED
      BY <2>1, <3>1, PromiseKept DEF EqInv
  <2>3. CASE CompileRight
    <3>1. /\ idOf' = << >> /\ pc' = "config" /\ result' = NoResult
          /\ config' = config /\ digests' = digests
      BY <2>3 DEF CompileRight, Restart, oracle
    <3>2. DOMAIN idOf' = {} /\ result'.kind = "none"
      BY <3>1 DEF NoResult
    <3>3. UnitsRight' /\ WalkPaths' /\ AnswersAsPromised'
      BY <3>1, <3>2 DEF UnitsRight, WalkPaths, AnswersAsPromised
    <3>4. QED
      BY <2>1, <3>1, <3>2, <3>3 DEF PromiseInv
  <2>4. QED
    BY <2>1, <2>2, <2>3 DEF EqNext
<1>3. QED
  BY <1>1, <1>2, CompilerInvariant, PayoffNodesStayApart, PTL DEF EqSpec

\* compile_payoff_graph returns a graph within the limits, or raises an error
\* for its reason: the errors of the arguments and of canonicalization as they
\* are, the limits only when the canonical document exceeds them, and never
\* one of the compiler's internal checks, whatever the canonical contract is.
THEOREM CompilerKeepsPromise == EqSpec => []AnswersAsPromised
<1>1. PromiseInv => AnswersAsPromised
  BY DEF PromiseInv
<1>2. QED
  BY <1>1, CompilerPromiseInvariant, PTL

-----------------------------------------------------------------------------
(* The variables keep their types.                                         *)

StatedUnits == ValidUnits \cup {"none"}

LEMMA DerivedUnitTyped ==
  ASSUME NEW p, NEW ks, NEW us, Len(ks) \in Nat, DOMAIN us = 1..Len(ks),
         OperandsFit(p, ks), UnitsFit(p, us), \A i \in 1..Len(ks) : us[i] \in StatedUnits
  PROVE  DerivedUnit(p, us) \in StatedUnits
<1>1. CASE p.type \in {"Number", "Observable"}
  BY <1>1 DEF DerivedUnit, UnitsFit, StatedUnits
<1>2. CASE p.type \in {"Add", "Maximum", "Minimum"}
  <2>1. Len(ks) >= 2
    BY <1>2 DEF OperandsFit, CollectionTypes
  <2>2. us[1] \in StatedUnits
    BY <2>1
  <2>3. DerivedUnit(p, us) = us[1]
    BY <1>2 DEF DerivedUnit
  <2>4. QED
    BY <2>2, <2>3
<1>3. CASE p.type \in {"Subtract", "Divide", "Negate"}
  <2>1. Len(ks) >= 1
    BY <1>3 DEF OperandsFit, Arity
  <2>2. us[1] \in StatedUnits
    BY <2>1
  <2>3. DerivedUnit(p, us) = us[1]
    BY <1>3 DEF DerivedUnit
  <2>4. QED
    BY <2>2, <2>3
<1>4. CASE p.type = "Multiply"
  <2>1. DerivedUnit(p, us) = MultiplyUnit(us[1], us[2])
    BY <1>4 DEF DerivedUnit
  <2>2. MultiplyUnit(us[1], us[2]) \in StatedUnits
    BY DEF MultiplyUnit, IsMoney, StatedUnits, ValidUnits
  <2>3. QED
    BY <2>1, <2>2
<1>5. CASE p.type = "ConditionalValue"
  <2>1. Len(ks) = 3
    BY <1>5 DEF OperandsFit, Arity
  <2>2. us[2] \in StatedUnits
    BY <2>1
  <2>3. DerivedUnit(p, us) = us[2]
    BY <1>5 DEF DerivedUnit
  <2>4. QED
    BY <2>2, <2>3
<1>6. CASE p.type \notin {"Number", "Observable", "Add", "Maximum", "Minimum", "Subtract",
                          "Divide", "Negate", "Multiply", "ConditionalValue"}
  <2>1. DerivedUnit(p, us) = "none"
    BY <1>6 DEF DerivedUnit
  <2>2. QED
    BY <2>1 DEF StatedUnits
<1>7. QED
  BY <1>1, <1>2, <1>3, <1>4, <1>5, <1>6

LEMMA DocumentUnitsTyped ==
  ASSUME outcome \in Outcomes, outcome.kind = "canonical"
  PROVE  \A c \in CanonicalIds : DocumentUnits[c] \in StatedUnits
<1> DEFINE nodes == outcome.document.nodes
           units == DocumentUnits
           B == {c \in CanonicalIds : units[c] \notin StatedUnits}
<1>1. \A c \in CanonicalIds :
        /\ nodes[c].kids \in Seq(CanonicalIds)
        /\ TypedIn(nodes[c], nodes, units)
        /\ units[c] = UnitAt(nodes[c], units)
  BY DocumentTyped
<1>2. IsAcyclic(nodes)
  BY OutcomesAssumption DEF IsWellFormed
<1>3. SUFFICES ASSUME B # {} PROVE FALSE
  OBVIOUS
<1>4. PICK c \in B : Seq2Set(nodes[c].kids) \cap B = {}
  <2>1. B \in SUBSET DOMAIN nodes
    BY DEF CanonicalIds
  <2> HIDE DEF B
  <2>2. QED
    BY <1>2, <1>3, <2>1 DEF IsAcyclic
<1>5. c \in CanonicalIds /\ units[c] \notin StatedUnits
  OBVIOUS
<1> DEFINE p == nodes[c]
           ks == PayloadsOf(p.kids, nodes)
           us == UnitsAt(units, p.kids)
<1>6. /\ p.kids \in Seq(CanonicalIds) /\ OperandsFit(p, ks) /\ UnitsFit(p, us)
      /\ units[c] = DerivedUnit(p, us)
  <2>1. /\ p.kids \in Seq(CanonicalIds)
        /\ TypedIn(p, nodes, units)
        /\ units[c] = UnitAt(p, units)
    BY <1>1, <1>5
  <2> HIDE DEF p, nodes, units
  <2>2. QED
    BY <2>1 DEF TypedIn, UnitAt
<1>7. Len(ks) = Len(p.kids) /\ Len(p.kids) \in Nat
  <2>1. p.kids \in Seq(DOMAIN nodes)
    BY <1>6 DEF CanonicalIds
  <2> HIDE DEF p, nodes
  <2>2. QED
    BY <2>1, PayloadsFacts, LenProperties
<1>8. DOMAIN us = 1..Len(p.kids) /\ \A i \in 1..Len(p.kids) : us[i] = units[p.kids[i]]
  BY DEF UnitsAt
<1>9. \A i \in 1..Len(p.kids) : p.kids[i] \in CanonicalIds /\ p.kids[i] \in Seq2Set(p.kids)
  BY <1>6, ElementOfSeq DEF Seq2Set
<1>10. \A i \in 1..Len(p.kids) : units[p.kids[i]] \in StatedUnits
  BY <1>4, <1>9
<1> HIDE DEF p, ks, us, units, B
<1>11. DerivedUnit(p, us) \in StatedUnits
  BY <1>6, <1>7, <1>8, <1>10, DerivedUnitTyped
<1>12. QED
  BY <1>5, <1>6, <1>11

LEMMA TableTyped ==
  ASSUME NEW nodes, NEW ids, NEW units, NEW table, NEW answered,
         TableOK(nodes, ids, units, table, answered), DigestsTyped(answered)
  PROVE  /\ DOMAIN units = DOMAIN ids /\ DOMAIN table \subseteq Ids
         /\ \A c \in DOMAIN ids : ids[c] \in Ids
<1>1. DOMAIN table \subseteq Ids
  BY DEF TableOK, ContentAddressed, DigestsTyped
<1>2. QED
  BY <1>1 DEF TableOK, NodeOK

LEMMA CompileTyped ==
  ASSUME NEW document, NEW s, NEW C, NEW ids, CompileOK(document, s, C, ids)
  PROVE  /\ s \in Seq([id : DOMAIN document.nodes, leaving : BOOLEAN])
         /\ DOMAIN C \subseteq DOMAIN document.nodes
         /\ \A c \in DOMAIN C : C[c] \in Colours
         /\ DOMAIN ids \subseteq DOMAIN document.nodes
BY DEF CompileOK, WalkInv, Coloured, VisitedIn, Colours, WFrames

LEMMA TraverseTyped ==
  ASSUME NEW r, NEW table, NEW w, NEW C, NEW recs, TraverseOK(r, table, w, C, recs),
         DOMAIN table \subseteq Ids
  PROVE  /\ w \in Seq([id : Ids, leaving : BOOLEAN])
         /\ DOMAIN C \subseteq Ids /\ DOMAIN recs \subseteq DOMAIN C
<1> DEFINE R == ReachIn(table, r)
<1>1. /\ w \in Seq(WFrames(R)) /\ DOMAIN C \subseteq R
      /\ DOMAIN recs = VisitedIn(C)
  BY DEF TraverseOK, WalkInv, Coloured
<1>2. R \subseteq Ids
  BY DEF ReachIn
<1> HIDE DEF R
<1>3. \A i \in 1..Len(w) : w[i] \in WFrames(R)
  BY <1>1, ElementOfSeq
<1>4. \A i \in 1..Len(w) : w[i] \in [id : Ids, leaving : BOOLEAN]
  BY <1>2, <1>3 DEF WFrames
<1>5. w \in Seq([id : Ids, leaving : BOOLEAN])
  BY <1>1, <1>4, NarrowerSeq
<1>6. QED
  BY <1>1, <1>2, <1>5 DEF VisitedIn

\* What the compilation walk holds; it stays as it is in all other steps.
CompilationTyped ==
  /\ stack \in Seq([id : CanonicalIds, leaving : BOOLEAN])
  /\ DOMAIN colour \subseteq CanonicalIds
  /\ \A c \in DOMAIN colour : colour[c] \in Colours
  /\ DOMAIN idOf \subseteq CanonicalIds
  /\ \A c \in DOMAIN idOf : unitOf[c] \in StatedUnits

TraversalTyped ==
  /\ walk \in Seq([id : Ids, leaving : BOOLEAN])
  /\ DOMAIN walkColour \subseteq Ids /\ DOMAIN records \subseteq DOMAIN walkColour

ResultTyped ==
  result.kind \in {"none", "payoff graph"} \cup PayoffGraphErrors \cup CanonicalizationErrors

LEMMA CompilationTypesKept ==
  ASSUME IInv, PromiseInv, IInv', PromiseInv', CompilationTyped, [Next]_vars
  PROVE  CompilationTyped'
<1>1. UNCHANGED outcome /\ CanonicalIds' = CanonicalIds /\ DocumentUnits' = DocumentUnits
  BY ArgumentsStay
<1>2. CASE pc' = "compile"
  <2>1. /\ CompileOK(outcome.document, stack', colour', idOf')
        /\ outcome \in Outcomes /\ outcome.kind = "canonical"
    BY <1>1, <1>2 DEF IInv
  <2>2. /\ stack' \in Seq([id : CanonicalIds, leaving : BOOLEAN])
        /\ DOMAIN colour' \subseteq CanonicalIds
        /\ \A c \in DOMAIN colour' : colour'[c] \in Colours
        /\ DOMAIN idOf' \subseteq CanonicalIds
    BY <2>1, CompileTyped DEF CanonicalIds
  <2>3. \A c \in DOMAIN idOf' : unitOf'[c] = DocumentUnits[c]
    BY <1>1 DEF PromiseInv, UnitsRight
  <2>4. \A c \in CanonicalIds : DocumentUnits[c] \in StatedUnits
    BY <2>1, DocumentUnitsTyped
  <2>5. QED
    BY <1>1, <2>2, <2>3, <2>4 DEF CompilationTyped
<1>3. CASE pc' # "compile"
  <2>1. UNCHANGED <<stack, colour, idOf, unitOf>>
    BY <1>3 DEF Next, RejectConfig, AcceptConfig, CanonicalizationFails, BeginCompile,
         SkipVisited, Schedule, CompileNode, DetectCollision, BeginTraversal,
         TraverseSkip, TraverseVisit, TraverseLeave, TooComplex, Return, core, vars,
         Popping
  <2>2. QED
    BY <1>1, <2>1 DEF CompilationTyped
<1>4. QED
  BY <1>2, <1>3

LEMMA TraversalTypesKept ==
  ASSUME IInv, IInv', TraversalTyped, [Next]_vars
  PROVE  TraversalTyped'
<1>1. CASE pc' = "traverse"
  <2>1. /\ \E r : TraverseOK(r, payoffs', walk', walkColour', records')
        /\ \E nodes : TableOK(nodes, idOf', unitOf', payoffs', digests')
        /\ DigestsTyped(digests')
    BY <1>1 DEF IInv, CoreOK
  <2>2. DOMAIN payoffs' \subseteq Ids
    BY <2>1, TableTyped
  <2>3. PICK r : TraverseOK(r, payoffs', walk', walkColour', records')
    BY <2>1
  <2>4. /\ walk' \in Seq([id : Ids, leaving : BOOLEAN])
        /\ DOMAIN walkColour' \subseteq Ids /\ DOMAIN records' \subseteq DOMAIN walkColour'
    BY <2>2, <2>3, TraverseTyped
  <2>5. QED
    BY <2>4 DEF TraversalTyped
<1>2. CASE pc' # "traverse"
  <2>1. UNCHANGED traversal
    BY <1>2 DEF Next, RejectConfig, AcceptConfig, CanonicalizationFails, BeginCompile,
         SkipVisited, Schedule, CompileNode, DetectCollision, BeginTraversal,
         TraverseSkip, TraverseVisit, TraverseLeave, TooComplex, Return, traversal, vars,
         Walking
  <2>2. QED
    BY <2>1 DEF TraversalTyped, traversal
<1>3. QED
  BY <1>1, <1>2

LEMMA ResultTypesKept ==
  ASSUME IInv, PromiseInv, ResultTyped, [Next]_vars
  PROVE  ResultTyped'
<1>1. CASE RejectConfig
  <2>1. Raise(ConfigError) /\ ConfigError \in {"PayoffGraphInputError", "CanonicalizationInputError"}
    BY <1>1 DEF RejectConfig, ConfigError
  <2>2. result'.kind = ConfigError
    BY <2>1, RaisedKind
  <2>3. QED
    BY <2>1, <2>2 DEF ResultTyped, PayoffGraphErrors, CanonicalizationErrors
<1>2. CASE CanonicalizationFails
  <2>1. /\ Raise(outcome.kind) /\ ConfigError = "none" /\ outcome.kind # "canonical"
        /\ outcome \in Outcomes
    BY <1>2 DEF CanonicalizationFails, PromiseInv, IInv
  <2>2. outcome.kind # "not a contract"
    BY <2>1 DEF ConfigError
  <2>3. outcome.kind \in CanonicalizationErrors
    BY <2>1, <2>2, OutcomesAssumption
  <2>4. result'.kind = outcome.kind
    BY <2>1, RaisedKind
  <2>5. QED
    BY <2>3, <2>4 DEF ResultTyped
<1>3. CASE Return
  <2>1. PICK id : result' = [kind |-> "payoff graph", graph |-> Structural, identity |-> id]
    BY <1>3 DEF Return
  <2>2. result'.kind = "payoff graph"
    BY <2>1
  <2>3. QED
    BY <2>2 DEF ResultTyped
<1>4. CASE Next /\ ~RejectConfig /\ ~CanonicalizationFails /\ ~Return
  <2>1. \/ result' = result
        \/ Raise("PayoffGraphCompilationError") \/ Raise("PayoffGraphInputError")
        \/ Raise("PayoffGraphCollisionError") \/ Raise("PayoffGraphComplexityError")
    BY <1>4 DEF Next, AcceptConfig, BeginCompile, SkipVisited, Schedule, CompileNode,
                DetectCollision, BeginTraversal, TraverseSkip, TraverseVisit,
                TraverseLeave, TooComplex
  <2>2. result' = result \/ result'.kind \in PayoffGraphErrors
    BY <2>1, RaisedKind DEF PayoffGraphErrors
  <2>3. QED
    BY <2>2 DEF ResultTyped
<1>5. CASE UNCHANGED vars
  BY <1>5 DEF ResultTyped, vars
<1>6. QED
  BY <1>1, <1>2, <1>3, <1>4, <1>5

GraphDigestsTyped == DigestsTyped(graphDigests)

LEMMA GraphDigestsKept ==
  ASSUME GraphDigestsTyped, [Next]_vars
  PROVE  GraphDigestsTyped'
<1>1. \/ graphDigests' = graphDigests
      \/ \E x : \E id \in Answers(graphDigests, x) :
           graphDigests' = Extended(graphDigests, x, id)
  BY DEF Next, RejectConfig, AcceptConfig, CanonicalizationFails, BeginCompile,
         SkipVisited, Schedule, CompileNode, DetectCollision, BeginTraversal,
         TraverseSkip, TraverseVisit, TraverseLeave, TooComplex, Return, oracle, vars
<1>2. QED
  BY <1>1, AnswersTyped DEF GraphDigestsTyped

StageTyped == pc \in {"config", "canonicalize", "compile", "traverse", "done"}

LEMMA StageKept ==
  ASSUME StageTyped, [Next]_vars
  PROVE  StageTyped'
BY DEF StageTyped, Next, RejectConfig, AcceptConfig, CanonicalizationFails, BeginCompile,
       SkipVisited, Schedule, CompileNode, DetectCollision, BeginTraversal, TraverseSkip,
       TraverseVisit, TraverseLeave, TooComplex, Return, vars, Raise, Popping, Walking

TypesInv ==
  CompilationTyped /\ TraversalTyped /\ ResultTyped /\ GraphDigestsTyped /\ StageTyped

LEMMA TypesAreTypeOK == IInv /\ PromiseInv /\ TypesInv => TypeOK
<1>1. SUFFICES ASSUME IInv, PromiseInv, TypesInv PROVE TypeOK
  OBVIOUS
<1>2. /\ TableOK(outcome.document.nodes, idOf, unitOf, payoffs, digests)
      /\ DigestsTyped(digests) /\ IsFiniteSet(DOMAIN idOf)
      /\ compiles = Cardinality(DOMAIN idOf) /\ outcome \in Outcomes
  BY <1>1 DEF IInv, CoreOK
<1>3. /\ DOMAIN unitOf = DOMAIN idOf /\ DOMAIN payoffs \subseteq Ids
      /\ \A c \in DOMAIN idOf : idOf[c] \in Ids
  BY <1>2, TableTyped
<1>4. compiles \in Nat
  BY <1>2, FS_CardinalityType
<1>5. \A g \in DOMAIN graphDigests : graphDigests[g] \in Ids
  BY <1>1 DEF TypesInv, GraphDigestsTyped, DigestsTyped
<1>6. \A p \in DOMAIN digests : digests[p] \in Ids
  BY <1>2 DEF DigestsTyped
<1>7. config \in Configs /\ StageTyped /\ ResultTyped /\ TraversalTyped /\ CompilationTyped
  BY <1>1 DEF PromiseInv, TypesInv
<1>8. QED
  BY <1>2, <1>3, <1>4, <1>5, <1>6, <1>7
     DEF TypeOK, StageTyped, ResultTyped, TraversalTyped, CompilationTyped, StatedUnits

\* Every variable of compile_payoff_graph keeps its type, whatever the contract,
\* the digests and the limits are: the walks hold ids of their own kind, colours
\* and the unit of every compiled node, and only the documented errors are raised.
THEOREM PayoffTypes == EqSpec => []TypeOK
<1>1. EqInit => TypesInv
  <2>1. SUFFICES ASSUME EqInit PROVE TypesInv
    OBVIOUS
  <2>2. /\ stack = << >> /\ colour = << >> /\ idOf = << >> /\ graphDigests = << >>
        /\ walk = << >> /\ walkColour = << >> /\ records = << >> /\ pc = "config"
    BY <2>1 DEF EqInit, Init
  <2>3. result.kind = "none"
    BY <2>1 DEF EqInit, Init, NoResult
  <2>4. /\ DOMAIN colour = {} /\ DOMAIN idOf = {} /\ DOMAIN graphDigests = {}
        /\ DOMAIN walkColour = {} /\ DOMAIN records = {}
    BY <2>2
  <2>5. QED
    BY <2>2, <2>3, <2>4 DEF TypesInv, CompilationTyped, TraversalTyped, ResultTyped,
                            GraphDigestsTyped, DigestsTyped, StageTyped
<1>2. /\ EqInv /\ PromiseInv /\ EqInv' /\ PromiseInv' /\ TypesInv /\ [EqNext]_allVars
      => TypesInv'
  <2>1. SUFFICES ASSUME EqInv, PromiseInv, EqInv', PromiseInv', TypesInv,
                        [EqNext]_allVars
                 PROVE  TypesInv'
    OBVIOUS
  <2>2. CASE CompileStep \/ Propagate \/ Compare \/ UNCHANGED allVars
    <3>1. [Next]_vars
      BY <2>2 DEF CompileStep, Propagate, Compare, allVars
    <3>2. IInv /\ IInv'
      BY <2>1 DEF EqInv
    <3>3. QED
      BY <2>1, <3>1, <3>2, CompilationTypesKept, TraversalTypesKept, ResultTypesKept,
         GraphDigestsKept, StageKept DEF TypesInv
  <2>3. CASE CompileRight
    <3>1. /\ stack' = << >> /\ colour' = << >> /\ idOf' = << >>
          /\ walk' = << >> /\ walkColour' = << >> /\ records' = << >>
          /\ pc' = "config" /\ graphDigests' = graphDigests
      BY <2>3 DEF CompileRight, Restart, oracle
    <3>2. result'.kind = "none"
      BY <2>3 DEF CompileRight, Restart, NoResult
    <3>3. /\ DOMAIN colour' = {} /\ DOMAIN idOf' = {}
          /\ DOMAIN walkColour' = {} /\ DOMAIN records' = {}
      BY <3>1
    <3>4. CompilationTyped'
      BY <3>1, <3>3 DEF CompilationTyped
    <3>5. TraversalTyped'
      BY <3>1, <3>3 DEF TraversalTyped
    <3>6. ResultTyped' /\ StageTyped'
      BY <3>1, <3>2 DEF ResultTyped, StageTyped
    <3>7. GraphDigestsTyped'
      BY <2>1, <3>1 DEF TypesInv, GraphDigestsTyped
    <3>8. QED
      BY <3>4, <3>5, <3>6, <3>7 DEF TypesInv
  <2>4. QED
    BY <2>1, <2>2, <2>3 DEF EqNext
<1>3. EqInv /\ PromiseInv /\ TypesInv => TypeOK
  BY TypesAreTypeOK DEF EqInv
<1>4. EqSpec => []PromiseInv
  BY CompilerPromiseInvariant
<1>5. QED
  BY <1>1, <1>2, <1>3, <1>4, CompilerInvariant, PTL DEF EqSpec

-----------------------------------------------------------------------------
(* A payoff node read as a node of a document again.                       *)

\* q says what p says, of other children.
SaysSame(p, q) ==
  /\ p.type = q.type /\ p.unit = q.unit /\ p.val = q.val /\ p.num = q.num
  /\ p.op = q.op /\ p.sound = q.sound

LEMMA SameMeaning ==
  ASSUME NEW p, NEW q, SaysSame(p, q), NEW xs, NEW env
  PROVE  PayloadMeaning(p, xs, env) = PayloadMeaning(q, xs, env)
<1>1. MeaningOf(p, xs, env) = MeaningOf(q, xs, env)
  BY DEF MeaningOf, SaysSame
<1>2. QED
  BY <1>1 DEF PayloadMeaning, SaysSame

\* xs and ys are one list of meanings, but for the order where the compiler
\* sorts the operands by payoff id.
SameOperands(p, xs, ys) ==
  IF p.type \in SortedTypes THEN Shuffled(xs, ys, Len(xs)) ELSE xs = ys

\* Two such nodes mean the same if their operands do.
LEMMA SaysSameOperands ==
  ASSUME NEW p, p.type \in SupportedTypes, NEW q, SaysSame(p, q),
         NEW xs, NormalOperands(p, xs), NEW ys, SameOperands(p, xs, ys), NEW env
  PROVE  PayloadMeaning(p, xs, env) = PayloadMeaning(q, ys, env)
<1>1. PayloadMeaning(p, ys, env) = PayloadMeaning(q, ys, env)
  BY SameMeaning
<1>2. CASE p.type \in MergedTypes
  <2>1. Shuffled(xs, ys, Len(xs)) /\ p.type # "Number"
    BY <1>2 DEF SameOperands, SortedTypes, MergedTypes, CollectionTypes
  <2> DEFINE n == Len(xs)
  <2>2. n \in Nat /\ Len(xs) = n /\ \A i \in 1..n : NormalMeaning(xs[i])
    BY DEF NormalOperands
  <2>3. Shuffled(xs, ys, n)
    BY <2>1
  <2> HIDE DEF n
  <2>4. MeaningOf(p, xs, env) = MeaningOf(p, ys, env)
    BY <1>2, <2>2, <2>3, CollectionShuffled
  <2>5. QED
    BY <1>1, <2>1, <2>4 DEF PayloadMeaning
<1>3. CASE p.type = "Multiply"
  <2>1. Len(xs) = 2
    BY <1>3, Arities DEF NormalOperands
  <2>2. Shuffled(xs, ys, 2) /\ p.type # "Number"
    BY <1>3, <2>1 DEF SameOperands, SortedTypes
  <2>3. \A i \in 1..2 : NormalMeaning(xs[i])
    BY <2>1 DEF NormalOperands
  <2>4. MeaningOf(p, xs, env) = MeaningOf(p, ys, env)
    BY <1>3, <2>2, <2>3, ProductShuffled
  <2>5. QED
    BY <1>1, <2>2, <2>4 DEF PayloadMeaning
<1>4. CASE p.type \notin SortedTypes
  BY <1>1, <1>4 DEF SameOperands
<1>5. QED
  BY <1>2, <1>3, <1>4 DEF SortedTypes

LEMMA PGTypeTotal ==
  /\ DOMAIN PGType = SupportedTypes
  /\ PGType["Zero"] = "PGCombine" /\ PGType["Both"] = "PGCombine"
  /\ \A t \in SupportedTypes : PGType[t] = "PGCombine" => t \in {"Zero", "Both"}
BY DEF PGType, SupportedTypes, ScalarTypes, BooleanTypes, ContractTypes

\* The class that a payoff payload was made of can be read off it.
LEMMA TypeRecovered ==
  ASSUME NEW p, p.type \in SupportedTypes, NEW refs,
         p.type = "Zero" => refs = << >>,
         p.type = "Both" => refs # << >>
  PROVE  ContractType(PayloadFor(p, refs)) = p.type
<1> DEFINE q == PayloadFor(p, refs)
           t == CHOOSE u \in DOMAIN PGType : PGType[u] = q.type
<1>1. q.type = PGType[p.type] /\ q.kids = refs
  BY DEF PayloadFor, Payload
<1>2. CASE p.type \in {"Zero", "Both"}
  BY <1>1, <1>2, PGTypeTotal DEF ContractType
<1>3. CASE p.type \notin {"Zero", "Both"}
  <2>1. q.type # "PGCombine"
    BY <1>1, <1>3, PGTypeTotal
  <2>2. ContractType(q) = t
    BY <2>1 DEF ContractType
  <2> HIDE DEF q
  <2>3. t \in DOMAIN PGType /\ PGType[t] = q.type
    BY <1>1, PGTypeTotal
  <2> HIDE DEF t
  <2>4. t = p.type
    BY <1>1, <1>3, <2>3, PGTypeTotal, PGTypeApart
  <2>5. QED
    BY <2>2, <2>4 DEF q
<1>4. QED
  BY <1>2, <1>3

\* r is p with the children refs.
Reads(p, refs, r) == SaysSame(p, r) /\ r.kids = refs

\* The node that a compiled node is read as.
LEMMA ReadBack ==
  ASSUME NEW p, p.type \in SupportedTypes, p.sound = TRUE, NEW refs,
         p.type = "Zero" => refs = << >>,
         p.type = "Both" => refs # << >>,
         NEW table, NEW id \in DOMAIN table, table[id] = PayloadFor(p, refs)
  PROVE  Reads(p, refs, AsContract(table)[id])
<1> DEFINE q == PayloadFor(p, refs)
           r == AsContract(table)[id]
<1>1. r = [table[id] EXCEPT !.type = ContractType(table[id])]
  BY DEF AsContract
<1>2. r = [q EXCEPT !.type = p.type]
  BY <1>1, TypeRecovered
<1> HIDE DEF r
<1>3. q = [type |-> PGType[p.type], kids |-> refs, slots |-> "tuple", unit |-> p.unit,
           val |-> p.val, num |-> p.num, op |-> p.op, sound |-> TRUE]
  BY DEF PayloadFor, Payload
<1> HIDE DEF q
<1>4. r = [type |-> p.type, kids |-> refs, slots |-> "tuple", unit |-> p.unit,
           val |-> p.val, num |-> p.num, op |-> p.op, sound |-> TRUE]
  BY <1>2, <1>3
<1>5. Reads(p, refs, r)
  BY <1>4 DEF SaysSame, Reads
<1>6. QED
  BY <1>5 DEF r

LEMMA ImagesFacts ==
  ASSUME NEW D \in SUBSET Nat, NEW ids, OneToOne(ids, D), NEW p, NodeShape(p, D)
  PROVE  /\ Len(p.kids) \in Nat /\ \A i \in 1..Len(p.kids) : p.kids[i] \in D
         /\ Renamed(ids, p.kids) \in Seq(Nat) /\ Len(Renamed(ids, p.kids)) = Len(p.kids)
         /\ \A i \in 1..Len(p.kids) : Renamed(ids, p.kids)[i] = ids[p.kids[i]]
         /\ Images(p, ids) \in Seq(Nat) /\ Len(Images(p, ids)) = Len(p.kids)
         /\ Len(p.kids) = 0 => Images(p, ids) = << >>
<1> DEFINE s == Renamed(ids, p.kids)
           t == Images(p, ids)
           ks == p.kids
<1>1. ks \in Seq(D)
  BY DEF NodeShape
<1>2. /\ Len(ks) \in Nat /\ \A i \in 1..Len(ks) : ks[i] \in D
      /\ s \in Seq(Nat) /\ Len(s) = Len(ks)
      /\ \A i \in 1..Len(ks) : s[i] = ids[ks[i]]
  BY <1>1, RenamedFacts
<1>3. SortedIds(s) \in Seq(Nat) /\ Len(SortedIds(s)) = Len(s)
  <2> HIDE DEF s
  <2>1. Nat \in SUBSET Nat
    OBVIOUS
  <2>2. QED
    BY <1>2, <2>1, SortedFacts
<1>4. t = s \/ t = SortedIds(s)
  BY DEF Images
<1> HIDE DEF s, t, ks
<1>5. t \in Seq(Nat) /\ Len(t) = Len(ks)
  BY <1>2, <1>3, <1>4
<1>6. Len(ks) = 0 => t = << >>
  BY <1>5, EmptySeq
<1>7. QED
  BY <1>2, <1>5, <1>6 DEF s, t, ks

LEMMA ImagesEmpty ==
  ASSUME NEW D \in SUBSET Nat, NEW ids, OneToOne(ids, D), NEW p, NodeShape(p, D)
  PROVE  Images(p, ids) = << >> <=> Len(p.kids) = 0
<1>1. Len(Images(p, ids)) = Len(p.kids)
  BY ImagesFacts, Zenon
<1>2. Len(p.kids) = 0 => Images(p, ids) = << >>
  BY ImagesFacts, Zenon
<1>3. QED
  BY <1>1, <1>2

\* map_node refers to the images of the children.
LEMMA RefersToImages ==
  ASSUME NEW D \in SUBSET Nat, NEW ids, OneToOne(ids, D),
         NEW p, NodeShape(p, D), NEW units, NEW table
  PROVE  NodeWith(p, ids, units, table).payload = PayloadFor(p, Images(p, ids))
<1> DEFINE kids == KidsWith(p, ids, units, table)
           s == Renamed(ids, p.kids)
<1>1. p.type \in SupportedTypes /\ Len(p.kids) \in Nat
      /\ (p.type \in LeafTypes => Len(p.kids) = 0)
  BY LenProperties DEF NodeShape
<1>2. NodeWith(p, ids, units, table).payload = PayloadFor(p, RefsOf(p, kids))
  BY <1>1, NodePayload DEF NodeWith
<1>3. IdsOf(kids) = s
  BY <1>1, KidIds
<1>4. Len(p.kids) = 0 => Images(p, ids) = << >>
  BY ImagesEmpty
<1> HIDE DEF kids
<1>5. RefsOf(p, kids) = Images(p, ids)
  <2>1. CASE p.type \in LeafTypes
    BY <1>1, <1>4, <2>1 DEF RefsOf
  <2>2. CASE p.type \notin LeafTypes
    BY <1>3, <2>2 DEF RefsOf, Images
  <2>3. QED
    BY <2>1, <2>2
<1>6. QED
  BY <1>2, <1>5

\* E says of the images of the nodes in D what G says of the nodes.
Carried(D, ids, G, E) == \A c \in D : E[ids[c]] = G[c]

\* The meanings of the images are those of the children, but for the order.
LEMMA ImagesMeanSame ==
  ASSUME NEW D \in SUBSET Nat, NEW ids, OneToOne(ids, D), NEW p, NodeShape(p, D),
         NEW G, NEW E, Carried(D, ids, G, E)
  PROVE  SameOperands(p, ValuesAt(G, p.kids), ValuesAt(E, Images(p, ids)))
<1> DEFINE ks == p.kids
           s == Renamed(ids, p.kids)
           t == Images(p, ids)
           n == Len(ks)
           xs == ValuesAt(G, ks)
           ys == ValuesAt(E, t)
<1>1. /\ n \in Nat /\ \A i \in 1..n : ks[i] \in D
      /\ s \in Seq(Nat) /\ Len(s) = n
      /\ \A i \in 1..n : s[i] = ids[ks[i]]
      /\ t \in Seq(Nat) /\ Len(t) = n
  <2>1. n \in Nat /\ \A i \in 1..n : ks[i] \in D
    BY ImagesFacts, Zenon
  <2>2. p.kids \in Seq(D)
    BY DEF NodeShape
  <2>3. /\ s \in Seq(Nat) /\ Len(s) = n
        /\ \A i \in 1..n : s[i] = ids[ks[i]]
    BY <2>2, RenamedFacts
  <2>4. t \in Seq(Nat) /\ Len(t) = n
    <3>1. t \in Seq(Nat)
      BY ImagesFacts, Zenon
    <3>2. Len(t) = n
      BY ImagesFacts, Zenon
    <3>3. QED
      BY <3>1, <3>2
  <2> HIDE DEF ks, s, t, n
  <2>5. QED
    BY <2>1, <2>3, <2>4
<1>2. t = IF p.type \in SortedTypes THEN SortedIds(s) ELSE s
  BY DEF Images
<1>3. Len(xs) = n /\ \A i \in 1..n : xs[i] = G[ks[i]]
  <2> HIDE DEF ks
  <2>1. QED
    BY <1>1, ValuesFacts
<1>4. Len(ys) = n /\ \A i \in 1..n : ys[i] = E[t[i]]
  <2> HIDE DEF t
  <2>1. QED
    BY <1>1, ValuesFacts
<1>5. xs = [i \in 1..n |-> G[ks[i]]] /\ ys = [i \in 1..n |-> E[t[i]]]
  BY <1>1 DEF ValuesAt
<1> HIDE DEF ks, s, t, n, xs, ys
<1>6. CASE p.type \in SortedTypes
  <2>1. PICK m : Rearranges(m, n, t, s)
    BY <1>1, <1>2, <1>6, SortedRearranges
  <2>2. ASSUME NEW i \in 1..n PROVE ys[i] = xs[m[i]]
    <3>1. m[i] \in 1..n /\ t[i] = s[m[i]]
      BY <2>1 DEF Rearranges
    <3>2. s[m[i]] = ids[ks[m[i]]] /\ ks[m[i]] \in D
      BY <1>1, <3>1
    <3>3. E[ids[ks[m[i]]]] = G[ks[m[i]]]
      BY <3>2 DEF Carried
    <3>4. ys[i] = E[t[i]] /\ xs[m[i]] = G[ks[m[i]]]
      BY <1>3, <1>4, <3>1
    <3>5. QED
      BY <3>1, <3>2, <3>3, <3>4
  <2>3. Rearranges(m, n, ys, xs)
    BY <2>1, <2>2 DEF Rearranges
  <2>4. Shuffled(xs, ys, Len(xs))
    BY <1>3, <1>4, <2>3 DEF Shuffled
  <2>5. QED
    BY <1>6, <2>4 DEF SameOperands, xs, ys, ks, t
<1>7. CASE p.type \notin SortedTypes
  <2>1. t = s
    BY <1>2, <1>7
  <2>2. \A i \in 1..n : E[t[i]] = G[ks[i]]
    BY <1>1, <2>1 DEF Carried
  <2>3. xs = ys
    BY <1>5, <2>2
  <2>4. QED
    BY <1>7, <2>3 DEF SameOperands, xs, ys, ks, t
<1>8. QED
  BY <1>6, <1>7

\* r is the node p of a document with its children renamed by ids.
ReadsBack(p, r, ids) == Reads(p, Images(p, ids), r)

\* Then r means what p means, if its children mean what those of p do.
LEMMA ReadMeansSame ==
  ASSUME NEW p, NEW D \in SUBSET Nat, NEW env, Evaluable(p, D, env), NodeShape(p, D),
         NEW ids, OneToOne(ids, D), NEW r, ReadsBack(p, r, ids),
         NEW G, NormalOn(D, G), NEW E, Carried(D, ids, G, E)
  PROVE  MeaningAt(p, G, env) = MeaningAt(r, E, env)
<1> DEFINE xs == ValuesAt(G, p.kids)
           ys == ValuesAt(E, Images(p, ids))
<1>1. NodeShape(p, D) /\ p.type \in SupportedTypes
  BY DEF NodeShape
<1>2. NormalOperands(p, xs)
  BY OperandsAreNormal
<1>3. SameOperands(p, xs, ys)
  BY <1>1, ImagesMeanSame
<1>4. MeaningAt(p, G, env) = PayloadMeaning(p, xs, env)
  BY DEF MeaningAt
<1>5. MeaningAt(r, E, env) = PayloadMeaning(r, ys, env)
  BY DEF MeaningAt, ReadsBack, Reads
<1>6. SaysSame(p, r)
  BY DEF ReadsBack, Reads
<1> HIDE DEF xs, ys
<1>7. PayloadMeaning(p, xs, env) = PayloadMeaning(r, ys, env)
  BY <1>1, <1>2, <1>3, <1>6, SaysSameOperands
<1>8. QED
  BY <1>4, <1>5, <1>7

\* image is the document nodes with ids for node numbers, and nothing more.
IsImageOf(image, nodes, ids) ==
  /\ OneToOne(ids, DOMAIN nodes)
  /\ \A c \in DOMAIN nodes : NodeShape(nodes[c], DOMAIN nodes)
  /\ \A c \in DOMAIN nodes :
       ids[c] \in DOMAIN image /\ ReadsBack(nodes[c], image[ids[c]], ids)
  /\ \A id \in DOMAIN image : \E c \in DOMAIN nodes : ids[c] = id
  /\ \A id \in DOMAIN image : Seq2Set(image[id].kids) \subseteq DOMAIN image

\* The meanings of the document are meanings of its image.
LEMMA ImageHasMeanings ==
  ASSUME NEW nodes, NEW env, EvaluableDocument(nodes, env),
         NEW image, NEW ids, IsImageOf(image, nodes, ids),
         NEW G, Means(nodes, DOMAIN nodes, env, G)
  PROVE  \E E : Means(image, DOMAIN image, env, E)
<1> DEFINE D == DOMAIN nodes
           R == DOMAIN image
           E == [id \in R |-> G[CHOOSE c \in D : ids[c] = id]]
<1>1. NormalOn(D, G)
  BY MeaningsAreNormal
<1>2. /\ D \in SUBSET Nat /\ OneToOne(ids, D)
      /\ \A c \in D : ids[c] \in R
  BY DEF EvaluableDocument, IsImageOf
<1>3. ASSUME NEW c \in D PROVE E[ids[c]] = G[c]
  <2> DEFINE d == CHOOSE x \in D : ids[x] = ids[c]
  <2>1. d \in D /\ ids[d] = ids[c]
    OBVIOUS
  <2>2. d = c
    BY <1>2, <2>1 DEF OneToOne
  <2>3. QED
    BY <1>2, <2>2
<1> HIDE DEF E
<1>4. Carried(D, ids, G, E)
  BY <1>3 DEF Carried
<1>5. ASSUME NEW id \in R PROVE E[id] = MeaningAt(image[id], E, env)
  <2>1. PICK c \in D : ids[c] = id
    BY DEF IsImageOf
  <2> DEFINE p == nodes[c]
             r == image[id]
  <2>2. Evaluable(p, D, env) /\ NodeShape(p, D) /\ ReadsBack(p, r, ids)
    BY <2>1 DEF EvaluableDocument, IsImageOf
  <2>3. E[id] = MeaningAt(p, G, env)
    BY <1>3, <2>1 DEF Means
  <2> HIDE DEF p, r, D, R
  <2>4. MeaningAt(p, G, env) = MeaningAt(r, E, env)
    BY <1>1, <1>2, <1>4, <2>2, ReadMeansSame
  <2>5. QED
    BY <2>3, <2>4 DEF r
<1>6. Means(image, R, env, E)
  BY <1>5 DEF Means
<1>7. QED
  BY <1>6

\* The image of a document means what the document means.
LEMMA ImageMeansSame ==
  ASSUME NEW nodes, NEW env, EvaluableDocument(nodes, env),
         NEW image, NEW ids, IsImageOf(image, nodes, ids)
  PROVE  Carried(DOMAIN nodes, ids,
                 DocumentMeaning(nodes, env), DocumentMeaning(image, env))
<1> DEFINE D == DOMAIN nodes
           R == DOMAIN image
           G == DocumentMeaning(nodes, env)
           E == DocumentMeaning(image, env)
           S == {c \in D : E[ids[c]] # G[c]}
<1>1. Means(nodes, D, env, G)
  <2>1. \A c \in D : Seq2Set(nodes[c].kids) \subseteq D
    BY DEF EvaluableDocument
  <2>2. \E u : Means(nodes, D, env, u)
    BY <2>1, MeaningsExist DEF EvaluableDocument
  <2>3. QED
    BY <2>1, <2>2, MeaningChosen
<1>2. Means(image, R, env, E)
  <2>1. \A id \in R : Seq2Set(image[id].kids) \subseteq R
    BY DEF IsImageOf
  <2> HIDE DEF G
  <2>2. \E u : Means(image, R, env, u)
    BY <1>1, ImageHasMeanings
  <2>3. QED
    BY <2>1, <2>2, MeaningChosen
<1> HIDE DEF G, E
<1>3. NormalOn(D, G)
  BY <1>1, MeaningsAreNormal
<1>4. ASSUME S # {} PROVE FALSE
  <2>1. PICK c \in S : Seq2Set(nodes[c].kids) \cap S = {}
    BY <1>4 DEF EvaluableDocument, IsAcyclic
  <2> DEFINE p == nodes[c]
             r == image[ids[c]]
             K == Seq2Set(p.kids)
  <2>2. c \in D /\ E[ids[c]] # G[c]
    BY <2>1
  <2>3. /\ Evaluable(p, D, env) /\ NodeShape(p, D) /\ K \subseteq D /\ D \in SUBSET Nat
        /\ ids[c] \in R /\ ReadsBack(p, r, ids) /\ OneToOne(ids, D)
    BY <2>2 DEF EvaluableDocument, IsImageOf
  <2>4. NormalOn(K, G)
    BY <1>3, <2>3 DEF NormalOn
  <2>5. Carried(K, ids, G, E)
    BY <2>1, <2>3 DEF Carried
  <2>6. OneToOne(ids, K) /\ K \in SUBSET Nat
    BY <2>3 DEF OneToOne
  <2>7. G[c] = MeaningAt(p, G, env)
    BY <1>1, <2>2 DEF Means
  <2>8. E[ids[c]] = MeaningAt(r, E, env)
    BY <1>2, <2>3 DEF Means
  <2> HIDE DEF p, r, D, R, S
  <2>9. Evaluable(p, K, env) /\ NodeShape(p, K)
    BY <2>3, EvaluableNarrows, ShapeNarrows
  <2> HIDE DEF K
  <2>10. MeaningAt(p, G, env) = MeaningAt(r, E, env)
    BY <2>3, <2>4, <2>5, <2>6, <2>9, ReadMeansSame
  <2>11. QED
    BY <2>2, <2>7, <2>8, <2>10
<1>5. Carried(D, ids, G, E)
  BY <1>4 DEF Carried
<1>6. QED
  BY <1>5 DEF G, E

-----------------------------------------------------------------------------
(* Compilation preserves meaning.                                          *)

\* What canonicalize_contract promises of a document gives every node a meaning.
LEMMA OutcomeIsEvaluable ==
  ASSUME outcome \in Outcomes, outcome.kind = "canonical", NEW env \in Environments
  PROVE  EvaluableDocument(outcome.document.nodes, env)
<1> DEFINE nodes == outcome.document.nodes
           D == DOMAIN nodes
<1>1. IsWellFormed(outcome.document) /\ IsNormal(nodes)
  BY OutcomesAssumption
<1>2. /\ D \in SUBSET Nat /\ IsFiniteSet(D) /\ IsAcyclic(nodes) /\ IsTyped(nodes)
      /\ \A c \in D : nodes[c].kids \in Seq(D)
  BY <1>1 DEF IsWellFormed
<1>3. \A c \in D : NodeShape(nodes[c], D)
  BY DocumentShapes DEF CanonicalIds
<1>4. \A c \in D : nodes[c].type = "Observable" => env[nodes[c].val] \in Int
  BY EnvironmentsAssumption
<1>5. ASSUME NEW c \in D
      PROVE  Evaluable(nodes[c], D, env) /\ Seq2Set(nodes[c].kids) \subseteq D
  <2> DEFINE p == nodes[c]
             kids == PayloadsOf(p.kids, nodes)
  <2>1. OperandsFit(p, kids)
    BY <1>2 DEF IsTyped
  <2>2. Normal(p, kids)
    BY <1>1 DEF IsNormal
  <2>3. p.kids \in Seq(D) /\ Len(kids) = Len(p.kids)
    BY <1>2, PayloadsFacts
  <2>4. Seq2Set(p.kids) \subseteq D
    BY <2>3, ElementOfSeq DEF Seq2Set
  <2>5. NodeShape(p, D) /\ (p.type = "Observable" => env[p.val] \in Int)
    BY <1>3, <1>4
  <2> HIDE DEF p, kids, D
  <2>6. p.type \in DOMAIN Arity => Len(p.kids) = Arity[p.type]
    BY <2>1, <2>3 DEF OperandsFit
  <2>7. p.type = "Number" => p.num \in Decimals
    BY <2>2 DEF Normal
  <2>8. Evaluable(p, D, env)
    BY <2>5, <2>6, <2>7 DEF Evaluable, NodeShape
  <2>9. QED
    BY <2>4, <2>8 DEF p
<1>6. QED
  BY <1>2, <1>5 DEF EvaluableDocument

\* The records of a finished traversal are the canonical document again, with
\* payoff ids for canonical ones.
LEMMA RecordsReadBack ==
  ASSUME IInv, Apart(idOf), pc = "traverse", walk = << >>
  PROVE  IsImageOf(AsContract(records), outcome.document.nodes, idOf)
<1> DEFINE nodes == outcome.document.nodes
           D == DOMAIN nodes
           R == DOMAIN records
           image == AsContract(records)
<1>1. /\ outcome \in Outcomes /\ outcome.kind = "canonical" /\ DOMAIN idOf = D
      /\ TableOK(nodes, idOf, unitOf, payoffs, digests)
  BY DEF IInv, CoreOK, CanonicalIds
<1>2. /\ D \in SUBSET Nat /\ OneToOne(idOf, D)
      /\ \A c \in D : NodeShape(nodes[c], D)
  BY <1>1, CompiledShapes DEF CanonicalIds
<1>3. /\ \A c \in D : idOf[c] \in R
      /\ \A id \in R : \E c \in D : idOf[c] = id
  BY RecordsImage DEF CanonicalIds
<1>4. \A id \in R : records[id] = payoffs[id]
  BY TraverseFacts DEF TraverseOK
<1>5. \A id \in R : Seq2Set(records[id].kids) \subseteq R
  BY RecordsAreReach DEF IsReach, Structural
<1>6. DOMAIN image = R
  BY DEF AsContract
<1>7. ASSUME NEW c \in D PROVE ReadsBack(nodes[c], image[idOf[c]], idOf)
  <2> DEFINE p == nodes[c]
             id == idOf[c]
             refs == Images(p, idOf)
  <2>1. NodeOK(p, c, idOf, unitOf, payoffs)
    BY <1>1 DEF TableOK
  <2>2. NodeShape(p, D) /\ id \in R /\ records[id] = payoffs[id]
    BY <1>2, <1>3, <1>4
  <2>3. payoffs[id] = NodeWith(p, idOf, unitOf, payoffs).payload
    BY <2>1 DEF NodeOK
  <2> HIDE DEF p, id, D, R
  <2>4. records[id] = PayloadFor(p, refs)
    BY <1>2, <2>2, <2>3, RefersToImages
  <2>5. p.type \in SupportedTypes /\ p.sound = TRUE
    <3>1. p = Payload(p.type, p.kids, p.unit, p.val, p.num, p.op)
          /\ p.type \in SupportedTypes
      BY <2>2 DEF NodeShape
    <3>2. Payload(p.type, p.kids, p.unit, p.val, p.num, p.op).sound = TRUE
      BY DEF Payload
    <3>3. QED
      BY <3>1, <3>2
  <2>6. /\ p.type = "Zero" => Len(p.kids) = 0
        /\ p.type = "Both" => Len(p.kids) >= 2
    BY <2>2 DEF NodeShape, LeafTypes
  <2>7. refs = << >> <=> Len(p.kids) = 0
    BY <1>2, <2>2, ImagesEmpty
  <2> HIDE DEF refs
  <2>8. /\ p.type = "Zero" => refs = << >>
        /\ p.type = "Both" => refs # << >>
    BY <2>6, <2>7
  <2>9. id \in DOMAIN records
    BY <2>2 DEF R
  <2>10. Reads(p, refs, image[id])
    BY <2>4, <2>5, <2>8, <2>9, ReadBack
  <2>11. QED
    BY <2>10 DEF ReadsBack, p, id, refs
<1>8. ASSUME NEW id \in R PROVE image[id].kids = records[id].kids
  <2>1. image[id] = [records[id] EXCEPT !.type = ContractType(records[id])]
    BY DEF AsContract
  <2>2. PICK c \in D : idOf[c] = id
    BY <1>3
  <2>3. records[id] = PayloadFor(nodes[c], Images(nodes[c], idOf))
    BY <1>1, <1>2, <1>4, <2>2, RefersToImages DEF TableOK, NodeOK
  <2> HIDE DEF image
  <2>4. QED
    BY <2>1, <2>3 DEF PayloadFor, Payload
<1> HIDE DEF image
<1>9. QED
  BY <1>2, <1>3, <1>5, <1>6, <1>7, <1>8 DEF IsImageOf, image

\* What a finished traversal returns means what the document means.
LEMMA RecordsMeanSame ==
  ASSUME IInv, Apart(idOf), pc = "traverse", walk = << >>, NEW env \in Environments
  PROVE  DocumentMeaning(AsContract(records), env)[idOf[outcome.document.root]]
           = DocumentMeaning(outcome.document.nodes, env)[outcome.document.root]
<1>1. outcome \in Outcomes /\ outcome.kind = "canonical"
  BY DEF IInv
<1>2. outcome.document.root \in DOMAIN outcome.document.nodes
  BY <1>1, DocumentFacts DEF CanonicalIds
<1> DEFINE nodes == outcome.document.nodes
           image == AsContract(records)
<1>3. EvaluableDocument(nodes, env)
  BY <1>1, OutcomeIsEvaluable
<1>4. IsImageOf(image, nodes, idOf)
  BY RecordsReadBack
<1>5. Carried(DOMAIN nodes, idOf, DocumentMeaning(nodes, env), DocumentMeaning(image, env))
  <2> HIDE DEF nodes, image
  <2>1. QED
    BY <1>3, <1>4, ImageMeansSame
<1>6. QED
  BY <1>2, <1>5 DEF Carried

\* Every step of the compiler keeps what was returned right.
LEMMA MeaningNext ==
  ASSUME IInv, NodesStayApart, PayoffKeepsMeaning, [Next]_vars
  PROVE  PayoffKeepsMeaning'
<1>1. CASE Return
  <2>1. UNCHANGED outcome /\ pc = "traverse" /\ walk = << >>
    BY <1>1 DEF Return, callArgs
  <2>2. result'.graph.nodes = records /\ result'.graph.root = idOf[outcome.document.root]
    <3>1. PICK id : result' = [kind |-> "payoff graph", graph |-> Structural,
                               identity |-> id]
      BY <1>1 DEF Return
    <3>2. result'.graph = Structural
      BY <3>1
    <3>3. QED
      BY <3>2 DEF Structural
  <2>3. Apart(idOf)
    BY DEF NodesStayApart, Apart
  <2>4. \A env \in Environments :
          DocumentMeaning(AsContract(records), env)[idOf[outcome.document.root]]
            = DocumentMeaning(outcome.document.nodes, env)[outcome.document.root]
    BY <2>1, <2>3, RecordsMeanSame
  <2>5. QED
    BY <2>1, <2>2, <2>4 DEF PayoffKeepsMeaning
<1>2. CASE ~Return
  <2>1. outcome' = outcome /\ (result' = result \/ result'.kind # "payoff graph")
    BY <1>2, OtherSteps
  <2>2. QED
    BY <2>1 DEF PayoffKeepsMeaning
<1>3. QED
  BY <1>1, <1>2

\* compile_payoff_graph preserves meaning: read as a contract again, the payoff
\* graph pays what the canonical document pays, whatever the observables are,
\* although map_node renames the types and sorts the operands by other digests.
THEOREM PayoffGraphKeepsMeaning == EqSpec => []PayoffKeepsMeaning
<1>1. EqInit => PayoffKeepsMeaning
  BY DEF EqInit, Init, NoResult, PayoffKeepsMeaning
<1>2. EqInv /\ NodesStayApart /\ PayoffKeepsMeaning /\ [EqNext]_allVars
        => PayoffKeepsMeaning'
  <2>1. SUFFICES ASSUME EqInv, NodesStayApart, PayoffKeepsMeaning, [EqNext]_allVars
                 PROVE  PayoffKeepsMeaning'
    OBVIOUS
  <2>2. CASE CompileStep \/ Propagate \/ Compare \/ UNCHANGED allVars
    <3>1. [Next]_vars
      BY <2>2 DEF CompileStep, Propagate, Compare, allVars
    <3>2. QED
      BY <2>1, <3>1, MeaningNext DEF EqInv
  <2>3. CASE CompileRight
    <3>1. result'.kind = "none"
      BY <2>3 DEF CompileRight, Restart, NoResult
    <3>2. QED
      BY <3>1 DEF PayoffKeepsMeaning
  <2>4. QED
    BY <2>1, <2>2, <2>3 DEF EqNext
<1>3. QED
  BY <1>1, <1>2, CompilerInvariant, PayoffNodesStayApart, PTL DEF EqSpec

-----------------------------------------------------------------------------
(* Equal payoff graphs.                                                    *)

LEMMA RearrangesThen ==
  ASSUME NEW n \in Nat, NEW a, NEW b, NEW c,
         NEW m, Rearranges(m, n, a, b), NEW k, Rearranges(k, n, b, c)
  PROVE  \E w : Rearranges(w, n, a, c)
<1> DEFINE w == [i \in 1..n |-> k[m[i]]]
<1>1. w \in [1..n -> 1..n]
  BY DEF Rearranges
<1>2. \A i, j \in 1..n : w[i] = w[j] => i = j
  BY DEF Rearranges
<1>3. \A i \in 1..n : a[i] = c[w[i]]
  BY DEF Rearranges
<1> HIDE DEF w
<1>4. Rearranges(w, n, a, c)
  BY <1>1, <1>2, <1>3 DEF Rearranges
<1>5. QED
  BY <1>4

\* The order that is lost by sorting does not matter.
LEMMA SortedOfRearranged ==
  ASSUME NEW n \in Nat, NEW s \in Seq(Nat), Len(s) = n, NEW t \in Seq(Nat), Len(t) = n,
         NEW m, Rearranges(m, n, s, t)
  PROVE  SortedIds(s) = SortedIds(t)
<1> DEFINE a == SortedIds(s)
           b == SortedIds(t)
<1>1. Nat \in SUBSET Nat
  OBVIOUS
<1>2. /\ a \in Seq(Nat) /\ Len(a) = n
      /\ \A i \in 1..(n - 1) : a[i] <= a[i + 1]
  BY <1>1, SortedFacts
<1>3. /\ b \in Seq(Nat) /\ Len(b) = n
      /\ \A i \in 1..(n - 1) : b[i] <= b[i + 1]
  BY <1>1, SortedFacts
<1>4. PICK k : Rearranges(k, n, a, s)
  BY SortedRearranges
<1>5. PICK l : Rearranges(l, n, b, t)
  BY SortedRearranges
<1> HIDE DEF a, b
<1>6. PICK u : Rearranges(u, n, t, b)
  BY <1>5, Undone
<1>7. PICK v : Rearranges(v, n, a, t)
  BY <1>4, RearrangesThen
<1>8. PICK w : Rearranges(w, n, a, b)
  BY <1>6, <1>7, RearrangesThen
<1>9. a \in [1..n -> Nat] /\ b \in [1..n -> Nat]
  BY <1>2, <1>3, LenProperties
<1>10. Ascending(a, n) /\ Ascending(b, n)
  BY <1>2, <1>3, <1>9 DEF Ascending
<1>11. a = b
  BY <1>8, <1>10, AscendingIsUnique
<1>12. QED
  BY <1>11 DEF a, b

\* Sorting by one digest before sorting by another makes no difference.
LEMMA SortedAgain ==
  ASSUME NEW D \in SUBSET Nat, NEW ids, OneToOne(ids, D), NEW u \in Seq(D)
  PROVE  /\ SortedIds(u) \in Seq(D)
         /\ SortedIds(Renamed(ids, SortedIds(u))) = SortedIds(Renamed(ids, u))
<1> DEFINE s == SortedIds(u)
           a == Renamed(ids, s)
           b == Renamed(ids, u)
<1>1. PICK n \in Nat : n = Len(u)
  BY LenProperties
<1>2. s \in Seq(D) /\ Len(s) = n
  BY <1>1, SortedFacts
<1>3. u \in Seq(Nat)
  BY WiderSeq
<1>4. PICK m : Rearranges(m, n, s, u)
  BY <1>1, <1>3, SortedRearranges
<1> HIDE DEF s
<1>5. /\ a \in Seq(Nat) /\ Len(a) = n /\ \A i \in 1..n : a[i] = ids[s[i]]
  BY <1>2, RenamedFacts
<1>6. /\ b \in Seq(Nat) /\ Len(b) = n /\ \A i \in 1..n : b[i] = ids[u[i]]
  BY <1>1, RenamedFacts
<1> HIDE DEF a, b
<1>7. Rearranges(m, n, a, b)
  <2>1. m \in [1..n -> 1..n] /\ \A i, j \in 1..n : m[i] = m[j] => i = j
    BY <1>4 DEF Rearranges
  <2>2. ASSUME NEW i \in 1..n PROVE a[i] = b[m[i]]
    <3>1. m[i] \in 1..n /\ s[i] = u[m[i]]
      BY <1>4 DEF Rearranges
    <3>2. a[i] = ids[s[i]] /\ b[m[i]] = ids[u[m[i]]]
      BY <1>5, <1>6, <3>1
    <3>3. QED
      BY <3>1, <3>2
  <2>3. QED
    BY <2>1, <2>2 DEF Rearranges
<1>8. SortedIds(a) = SortedIds(b)
  BY <1>5, <1>6, <1>7, SortedOfRearranged
<1>9. QED
  BY <1>2, <1>8 DEF a, b, s

\* f takes the nodes in A to nodes in B that have the same payoff ids.
CarriesIds(f, A, B, idsA, idsB) == \A x \in A : f[x] \in B /\ idsB[f[x]] = idsA[x]

LEMMA RenamedTwice ==
  ASSUME NEW A, NEW B \in SUBSET Nat, NEW f, NEW idsA, NEW idsB,
         CarriesIds(f, A, B, idsA, idsB), NEW ks \in Seq(A)
  PROVE  /\ Renamed(f, ks) \in Seq(B)
         /\ Len(Renamed(f, ks)) = Len(ks)
         /\ Renamed(idsB, Renamed(f, ks)) = Renamed(idsA, ks)
<1> DEFINE n == Len(ks)
           s == Renamed(f, ks)
<1>1. n \in Nat /\ \A i \in 1..n : ks[i] \in A
  BY LenProperties, ElementOfSeq
<1>2. s \in [1..n -> B] /\ \A i \in 1..n : s[i] = f[ks[i]]
  BY <1>1 DEF Renamed, CarriesIds
<1>3. s \in Seq(B)
  BY <1>1, <1>2, SeqDef
<1>4. Len(s) = n
  BY <1>1, <1>2, <1>3, LenProperties
<1>5. \A i \in 1..n : idsB[s[i]] = idsA[ks[i]]
  BY <1>1, <1>2 DEF CarriesIds
<1> HIDE DEF s, n
<1>6. Renamed(idsB, s) = [i \in 1..n |-> idsA[ks[i]]]
  BY <1>4, <1>5 DEF Renamed
<1>7. QED
  BY <1>3, <1>4, <1>6 DEF s, n, Renamed

\* The children under the ids of one contract, and from there under payoff ids.
LEMMA ImagesThen ==
  ASSUME NEW A, NEW B \in SUBSET Nat, NEW f, NEW idsA, NEW idsB, OneToOne(idsB, B),
         CarriesIds(f, A, B, idsA, idsB), NEW p, p.kids \in Seq(A),
         NEW q, q.type = p.type, q.kids = Images(p, f)
  PROVE  Images(q, idsB) = Images(p, idsA)
<1> DEFINE ks == p.kids
           u == Renamed(f, ks)
<1>1. u \in Seq(B) /\ Renamed(idsB, u) = Renamed(idsA, ks)
  BY RenamedTwice
<1>2. SortedIds(Renamed(idsB, SortedIds(u))) = SortedIds(Renamed(idsB, u))
  <2> HIDE DEF u
  <2>1. QED
    BY <1>1, SortedAgain
<1>3. q.kids = IF p.type \in SortedTypes THEN SortedIds(u) ELSE u
  BY DEF Images
<1> HIDE DEF u
<1>4. CASE p.type \in SortedTypes
  BY <1>1, <1>2, <1>3, <1>4 DEF Images
<1>5. CASE p.type \notin SortedTypes
  BY <1>1, <1>3, <1>5 DEF Images
<1>6. QED
  BY <1>4, <1>5

\* What payoff ids say of the children, read back.
LEMMA ImagesBack ==
  ASSUME NEW A, NEW B \in SUBSET Nat, NEW f, NEW idsA, NEW idsB, OneToOne(idsB, B),
         CarriesIds(f, A, B, idsA, idsB), NEW p, p.kids \in Seq(A),
         NEW q, NodeShape(q, B), q.type = p.type, Images(q, idsB) = Images(p, idsA)
  PROVE  q.kids = Images(p, f)
<1> DEFINE ks == p.kids
           u == Renamed(f, ks)
           t == SortedIds(u)
           kq == q.kids
<1>1. u \in Seq(B) /\ Renamed(idsB, u) = Renamed(idsA, ks)
  BY RenamedTwice
<1>2. kq \in Seq(B)
  BY DEF NodeShape
<1>3. CASE p.type \in SortedTypes
  <2>1. SortedIds(Renamed(idsB, kq)) = SortedIds(Renamed(idsB, u))
    BY <1>1, <1>3 DEF Images
  <2>2. \A i \in 1..(Len(kq) - 1) : kq[i] <= kq[i + 1]
    BY <1>3 DEF NodeShape
  <2> HIDE DEF u, kq
  <2>3. t \in Seq(B) /\ SortedIds(Renamed(idsB, t)) = SortedIds(Renamed(idsB, u))
    BY <1>1, SortedAgain
  <2>4. \A i \in 1..(Len(t) - 1) : t[i] <= t[i + 1]
    BY <1>1, SortedFacts
  <2> HIDE DEF t
  <2>5. kq = t
    BY <1>2, <2>1, <2>2, <2>3, <2>4, SameSorted
  <2>6. QED
    BY <1>3, <2>5 DEF Images, kq, t, u
<1>4. CASE p.type \notin SortedTypes
  <2>1. Renamed(idsB, kq) = Renamed(idsB, u)
    BY <1>1, <1>4 DEF Images
  <2> HIDE DEF u, kq
  <2>2. kq = u
    BY <1>1, <1>2, <2>1, SameFields
  <2>3. QED
    BY <1>4, <2>2 DEF Images, kq, u
<1>5. QED
  BY <1>3, <1>4

\* What the comparison knows of a canonical document.
IsSpelled(document) ==
  /\ DOMAIN document.nodes \in SUBSET Nat
  /\ document.root \in DOMAIN document.nodes
  /\ IsAcyclic(document.nodes)
  /\ \A c \in DOMAIN document.nodes : NodeShape(document.nodes[c], DOMAIN document.nodes)

\* graph is what document compiles to if its nodes have the payoff ids ids.
IsCompilation(graph, document, ids) ==
  /\ IsSpelled(document)
  /\ OneToOne(ids, DOMAIN document.nodes)
  /\ graph.root = ids[document.root]
  /\ \A c \in DOMAIN document.nodes :
       /\ ids[c] \in DOMAIN graph.nodes
       /\ graph.nodes[ids[c]]
            = PayloadFor(document.nodes[c], Images(document.nodes[c], ids))
  /\ \A id \in DOMAIN graph.nodes : \E c \in DOMAIN document.nodes : ids[c] = id
  /\ graph.nodes = [id \in DOMAIN graph.nodes |-> graph.nodes[id]]
  /\ graph = [root |-> graph.root, nodes |-> graph.nodes]

\* A node of the document again, but for the children.
LEMMA SameButKids ==
  ASSUME NEW p, NEW q, NEW D, NEW E, NodeShape(p, D), NodeShape(q, E),
         p.type = q.type, p.unit = q.unit, p.val = q.val, p.num = q.num, p.op = q.op
  PROVE  q = [p EXCEPT !.kids = q.kids]
<1>1. /\ p = Payload(p.type, p.kids, p.unit, p.val, p.num, p.op)
      /\ q = Payload(q.type, q.kids, q.unit, q.val, q.num, q.op)
  BY DEF NodeShape
<1>2. q = Payload(p.type, q.kids, p.unit, p.val, p.num, p.op)
  BY <1>1, Zenon
<1>3. [p EXCEPT !.kids = q.kids] = Payload(p.type, q.kids, p.unit, p.val, p.num, p.op)
  <2> DEFINE r == Payload(p.type, p.kids, p.unit, p.val, p.num, p.op)
             ks == q.kids
             s == [p EXCEPT !.kids = ks]
  <2>1. p = r
    BY <1>1
  <2>2. s = [r EXCEPT !.kids = ks]
    BY <2>1
  <2> HIDE DEF s, ks
  <2>3. s = Payload(p.type, ks, p.unit, p.val, p.num, p.op)
    BY <2>2 DEF Payload
  <2>4. QED
    BY <2>3 DEF s, ks
<1>4. QED
  BY <1>2, <1>3

\* Two nodes that are mapped to one payload have one class and the same fields.
LEMMA SameClass ==
  ASSUME NEW A \in SUBSET Nat, NEW p, NodeShape(p, A), NEW idsA, OneToOne(idsA, A),
         NEW B \in SUBSET Nat, NEW q, NodeShape(q, B), NEW idsB, OneToOne(idsB, B),
         PayloadFor(p, Images(p, idsA)) = PayloadFor(q, Images(q, idsB))
  PROVE  /\ p.type = q.type /\ Images(q, idsB) = Images(p, idsA)
         /\ p.unit = q.unit /\ p.val = q.val /\ p.num = q.num /\ p.op = q.op
<1> DEFINE s == Images(p, idsA)
           t == Images(q, idsB)
<1>1. s = << >> <=> Len(p.kids) = 0
  BY ImagesEmpty
<1>2. t = << >> <=> Len(q.kids) = 0
  BY ImagesEmpty
<1>3. PayloadFor(p, s) = PayloadFor(q, t)
  OBVIOUS
<1> HIDE DEF s, t
<1>4. /\ PGType[p.type] = PGType[q.type] /\ s = t
      /\ p.unit = q.unit /\ p.val = q.val /\ p.num = q.num /\ p.op = q.op
  BY <1>3, SamePayload
<1>5. p.type \in SupportedTypes /\ q.type \in SupportedTypes
  BY DEF NodeShape
<1>6. p.type = q.type
  <2>1. /\ p.type = "Zero" => Len(p.kids) = 0
        /\ q.type = "Zero" => Len(q.kids) = 0
        /\ p.type = "Both" => Len(p.kids) >= 2
        /\ q.type = "Both" => Len(q.kids) >= 2
    BY DEF NodeShape, LeafTypes
  <2>2. ~(p.type = "Zero" /\ q.type = "Both") /\ ~(q.type = "Zero" /\ p.type = "Both")
    BY <1>1, <1>2, <1>4, <2>1
  <2>3. QED
    BY <1>4, <1>5, <2>2, PGTypeApart
<1>7. QED
  BY <1>4, <1>6 DEF s, t

\* Documents that compile to one graph are documents of one contract.
LEMMA SameGraph ==
  ASSUME NEW a, NEW b, NEW g, NEW idsA, IsCompilation(g, a, idsA),
         NEW idsB, IsCompilation(g, b, idsB)
  PROVE  SameContract(a, b)
<1> DEFINE A == DOMAIN a.nodes
           B == DOMAIN b.nodes
           f == [c \in A |-> CHOOSE d \in B : idsB[d] = idsA[c]]
<1>1. ASSUME NEW c \in A PROVE f[c] \in B /\ idsB[f[c]] = idsA[c]
  <2>1. \E d \in B : idsB[d] = idsA[c]
    BY DEF IsCompilation
  <2>2. QED
    BY <2>1
<1>2. /\ A \in SUBSET Nat /\ B \in SUBSET Nat
      /\ a.root \in A /\ b.root \in B /\ idsA[a.root] = idsB[b.root]
      /\ OneToOne(idsA, A) /\ OneToOne(idsB, B)
      /\ \A c \in A : NodeShape(a.nodes[c], A)
      /\ \A d \in B : NodeShape(b.nodes[d], B)
  BY DEF IsCompilation, IsSpelled
<1>3. f \in Bijection(A, B)
  <2>1. f \in [A -> B]
    BY <1>1
  <2>2. \A c, d \in A : f[c] = f[d] => c = d
    BY <1>1, <1>2 DEF OneToOne
  <2>3. ASSUME NEW d \in B PROVE \E c \in A : f[c] = d
    <3>1. PICK c \in A : idsA[c] = idsB[d]
      BY DEF IsCompilation
    <3>2. f[c] = d
      BY <1>1, <1>2, <3>1 DEF OneToOne
    <3>3. QED
      BY <3>2
  <2> HIDE DEF f
  <2>4. f \in Injection(A, B)
    BY <2>1, <2>2 DEF Injection, IsInjective
  <2>5. f \in Surjection(A, B)
    BY <2>1, <2>3 DEF Surjection
  <2>6. QED
    BY <2>4, <2>5 DEF Bijection
<1>4. CarriesIds(f, A, B, idsA, idsB)
  BY <1>1 DEF CarriesIds
<1> HIDE DEF f
<1>5. f[a.root] = b.root
  BY <1>1, <1>2 DEF OneToOne
<1>6. ASSUME NEW c \in A
      PROVE  b.nodes[f[c]] = [a.nodes[c] EXCEPT !.kids = Images(a.nodes[c], f)]
  <2> DEFINE p == a.nodes[c]
             q == b.nodes[f[c]]
  <2>1. NodeShape(p, A) /\ NodeShape(q, B)
    BY <1>1, <1>2
  <2>2. /\ g.nodes[idsA[c]] = PayloadFor(p, Images(p, idsA))
        /\ g.nodes[idsB[f[c]]] = PayloadFor(q, Images(q, idsB))
    BY <1>1 DEF IsCompilation
  <2> HIDE DEF p, q, A, B
  <2>3. PayloadFor(p, Images(p, idsA)) = PayloadFor(q, Images(q, idsB))
    BY <1>1, <2>2
  <2>4. /\ p.type = q.type /\ Images(q, idsB) = Images(p, idsA)
        /\ p.unit = q.unit /\ p.val = q.val /\ p.num = q.num /\ p.op = q.op
    BY <1>2, <2>1, <2>3, SameClass
  <2>5. q.kids = Images(p, f)
    <3>1. p.kids \in Seq(A) /\ q.type = p.type
      BY <2>1, <2>4 DEF NodeShape
    <3>2. QED
      BY <1>2, <1>4, <2>1, <2>4, <3>1, ImagesBack
  <2>6. q = [p EXCEPT !.kids = q.kids]
    BY <2>1, <2>4, SameButKids
  <2>7. QED
    BY <2>5, <2>6 DEF p, q
<1>7. QED
  BY <1>3, <1>5, <1>6 DEF SameContract

\* The documents of one contract compile to one graph, under one payoff digest.
LEMMA SameSpelling ==
  ASSUME NEW a, NEW b, SameContract(a, b),
         NEW ga, NEW idsA, IsCompilation(ga, a, idsA),
         NEW gb, NEW idsB, IsCompilation(gb, b, idsB),
         NEW answered, ContentAddressed(ga.nodes, answered),
         ContentAddressed(gb.nodes, answered)
  PROVE  ga = gb
<1> DEFINE A == DOMAIN a.nodes
           B == DOMAIN b.nodes
<1>1. PICK f \in Bijection(A, B) :
        /\ f[a.root] = b.root
        /\ \A c \in A :
             b.nodes[f[c]] = [a.nodes[c] EXCEPT !.kids = Images(a.nodes[c], f)]
  BY DEF SameContract
<1>2. /\ \A c \in A : f[c] \in B
      /\ \A d \in B : \E c \in A : f[c] = d
  BY DEF Bijection, Injection, Surjection
<1>3. /\ A \in SUBSET Nat /\ B \in SUBSET Nat /\ a.root \in A
      /\ IsAcyclic(a.nodes)
      /\ OneToOne(idsA, A) /\ OneToOne(idsB, B)
      /\ \A c \in A : NodeShape(a.nodes[c], A)
      /\ \A d \in B : NodeShape(b.nodes[d], B)
  BY DEF IsCompilation, IsSpelled
<1>4. ASSUME NEW c \in A, NEW K \in SUBSET A, Seq2Set(a.nodes[c].kids) \subseteq K,
             CarriesIds(f, K, B, idsA, idsB)
      PROVE  idsB[f[c]] = idsA[c] /\ ga.nodes[idsA[c]] = gb.nodes[idsB[f[c]]]
  <2> DEFINE p == a.nodes[c]
             q == b.nodes[f[c]]
  <2>1. NodeShape(p, A) /\ Seq2Set(p.kids) \subseteq K
    BY <1>3, <1>4
  <2>2. q = [p EXCEPT !.kids = Images(p, f)]
    BY <1>1
  <2>3. /\ ga.nodes[idsA[c]] = PayloadFor(p, Images(p, idsA))
        /\ gb.nodes[idsB[f[c]]] = PayloadFor(q, Images(q, idsB))
        /\ idsA[c] \in DOMAIN ga.nodes /\ idsB[f[c]] \in DOMAIN gb.nodes
    BY <1>2 DEF IsCompilation
  <2> HIDE DEF p, q, A, B
  <2>4. NodeShape(p, K)
    BY <2>1, ShapeNarrows
  <2>5. /\ q.type = p.type /\ q.kids = Images(p, f) /\ q.unit = p.unit
        /\ q.val = p.val /\ q.num = p.num /\ q.op = p.op
    <3>1. p = Payload(p.type, p.kids, p.unit, p.val, p.num, p.op)
      BY <2>1 DEF NodeShape
    <3> DEFINE r == Payload(p.type, p.kids, p.unit, p.val, p.num, p.op)
               ks == Images(p, f)
    <3>2. q = [r EXCEPT !.kids = ks] /\ p = r
      BY <2>2, <3>1
    <3> HIDE DEF ks
    <3>3. q = Payload(p.type, ks, p.unit, p.val, p.num, p.op)
      BY <3>2 DEF Payload
    <3>4. QED
      BY <3>3 DEF Payload, ks
  <2>6. p.kids \in Seq(K)
    BY <2>4 DEF NodeShape
  <2>7. Images(q, idsB) = Images(p, idsA)
    BY <1>3, <1>4, <2>5, <2>6, ImagesThen
  <2>8. PayloadFor(p, Images(p, idsA)) = PayloadFor(q, Images(q, idsB))
    BY <2>5, <2>7 DEF PayloadFor
  <2>9. ga.nodes[idsA[c]] = gb.nodes[idsB[f[c]]]
    BY <2>3, <2>8
  <2>10. QED
    BY <2>3, <2>9 DEF ContentAddressed
<1>5. CarriesIds(f, A, B, idsA, idsB)
  <2> DEFINE S == {c \in A : idsB[f[c]] # idsA[c]}
  <2>1. ASSUME S # {} PROVE FALSE
    <3>1. PICK c \in S : Seq2Set(a.nodes[c].kids) \cap S = {}
      BY <1>3, <2>1 DEF IsAcyclic
    <3> DEFINE K == Seq2Set(a.nodes[c].kids)
    <3>2. c \in A /\ idsB[f[c]] # idsA[c]
      BY <3>1
    <3>3. K \in SUBSET A
      <4>1. a.nodes[c].kids \in Seq(A)
        BY <1>3, <3>2 DEF NodeShape
      <4>2. QED
        BY <4>1, ElementOfSeq DEF Seq2Set
    <3>4. CarriesIds(f, K, B, idsA, idsB)
      BY <1>2, <3>1, <3>3 DEF CarriesIds
    <3> HIDE DEF S, A, B
    <3>5. QED
      BY <1>4, <3>2, <3>3, <3>4
  <2>2. QED
    BY <1>2, <2>1 DEF CarriesIds
<1>6. ASSUME NEW c \in A
      PROVE  idsB[f[c]] = idsA[c] /\ ga.nodes[idsA[c]] = gb.nodes[idsB[f[c]]]
  <2>1. a.nodes[c].kids \in Seq(A)
    BY <1>3 DEF NodeShape
  <2>2. Seq2Set(a.nodes[c].kids) \subseteq A
    BY <2>1, ElementOfSeq DEF Seq2Set
  <2> HIDE DEF A, B
  <2>3. QED
    BY <1>4, <1>5, <2>2
<1>7. ga.root = gb.root
  BY <1>1, <1>3, <1>6 DEF IsCompilation
<1>8. DOMAIN ga.nodes = DOMAIN gb.nodes
  <2>1. ASSUME NEW id \in DOMAIN ga.nodes PROVE id \in DOMAIN gb.nodes
    <3>1. PICK c \in A : idsA[c] = id
      BY DEF IsCompilation
    <3>2. idsB[f[c]] \in DOMAIN gb.nodes
      BY <1>2 DEF IsCompilation
    <3>3. QED
      BY <1>6, <3>1, <3>2
  <2>2. ASSUME NEW id \in DOMAIN gb.nodes PROVE id \in DOMAIN ga.nodes
    <3>1. PICK d \in B : idsB[d] = id
      BY DEF IsCompilation
    <3>2. PICK c \in A : f[c] = d
      BY <1>2
    <3>3. idsA[c] \in DOMAIN ga.nodes
      BY DEF IsCompilation
    <3>4. QED
      BY <1>6, <3>1, <3>2, <3>3
  <2>3. QED
    BY <2>1, <2>2
<1>9. ASSUME NEW id \in DOMAIN ga.nodes PROVE ga.nodes[id] = gb.nodes[id]
  <2>1. PICK c \in A : idsA[c] = id
    BY DEF IsCompilation
  <2>2. QED
    BY <1>6, <2>1
<1>10. ga.nodes = gb.nodes
  <2>1. /\ ga.nodes = [id \in DOMAIN ga.nodes |-> ga.nodes[id]]
        /\ gb.nodes = [id \in DOMAIN gb.nodes |-> gb.nodes[id]]
    BY DEF IsCompilation
  <2>2. [id \in DOMAIN ga.nodes |-> ga.nodes[id]]
          = [id \in DOMAIN gb.nodes |-> gb.nodes[id]]
    BY <1>8, <1>9
  <2>3. QED
    BY <2>1, <2>2
<1>11. QED
  <2>1. /\ ga = [root |-> ga.root, nodes |-> ga.nodes]
        /\ gb = [root |-> gb.root, nodes |-> gb.nodes]
    BY DEF IsCompilation
  <2>2. QED
    BY <1>7, <1>10, <2>1

\* A result, the document it was compiled from, and what the oracles answered.
IsCompiledTo(res, document, answered, hashed) ==
  /\ \E ids : IsCompilation(res.graph, document, ids)
  /\ ContentAddressed(res.graph.nodes, answered)
  /\ res.graph \in DOMAIN hashed
  /\ hashed[res.graph] = res.identity

IsAFunction(f) == f = [x \in DOMAIN f |-> f[x]]

LEMMA OutcomeIsSpelled ==
  ASSUME outcome \in Outcomes, outcome.kind = "canonical"
  PROVE  IsSpelled(outcome.document)
<1>1. IsAcyclic(outcome.document.nodes)
  BY OutcomesAssumption DEF IsWellFormed
<1>2. QED
  BY <1>1, DocumentShapes, DocumentFacts DEF IsSpelled, CanonicalIds

\* What Return gives back was compiled from the document.
LEMMA ReturnsCompilation ==
  ASSUME IInv, Apart(idOf), IsAFunction(records), Return
  PROVE  /\ outcome.kind = "canonical"
         /\ IsCompiledTo(result', outcome.document, digests, graphDigests')
<1> DEFINE doc == outcome.document
           nodes == doc.nodes
           D == DOMAIN nodes
           g == Structural
<1>1. pc = "traverse" /\ walk = << >>
  BY DEF Return
<1>2. /\ outcome \in Outcomes /\ outcome.kind = "canonical" /\ DOMAIN idOf = D
      /\ TableOK(nodes, idOf, unitOf, payoffs, digests)
  BY <1>1 DEF IInv, CoreOK, CanonicalIds
<1>3. /\ D \in SUBSET Nat /\ OneToOne(idOf, D)
      /\ \A c \in D : NodeShape(nodes[c], D)
  BY <1>2, CompiledShapes DEF CanonicalIds
<1>4. /\ \A c \in D : idOf[c] \in DOMAIN records
      /\ \A id \in DOMAIN records : \E c \in D : idOf[c] = id
  BY <1>1, RecordsImage DEF CanonicalIds
<1>5. \A id \in DOMAIN records : records[id] = payoffs[id] /\ id \in DOMAIN payoffs
  <2>1. /\ TraverseOK(PayoffRoot, payoffs, walk, walkColour, records)
        /\ WalkInv(Reached, TableKids(payoffs), PayoffRoot, walk, walkColour)
    BY <1>1, TraverseFacts
  <2>2. DOMAIN records \subseteq DOMAIN payoffs
    BY <1>2, <1>4 DEF TableOK, NodeOK
  <2>3. QED
    BY <2>1, <2>2 DEF TraverseOK
<1>6. ASSUME NEW c \in D
      PROVE  records[idOf[c]] = PayloadFor(nodes[c], Images(nodes[c], idOf))
  <2> DEFINE p == nodes[c]
  <2>1. payoffs[idOf[c]] = NodeWith(p, idOf, unitOf, payoffs).payload
    BY <1>2 DEF TableOK, NodeOK
  <2>2. NodeShape(p, D)
    BY <1>3
  <2> HIDE DEF p, D
  <2>3. NodeWith(p, idOf, unitOf, payoffs).payload = PayloadFor(p, Images(p, idOf))
    BY <1>3, <2>2, RefersToImages
  <2>4. QED
    BY <1>4, <1>5, <2>1, <2>3 DEF p, D
<1>7. PICK id \in Answers(graphDigests, g) :
        /\ graphDigests' = Extended(graphDigests, g, id)
        /\ result' = [kind |-> "payoff graph", graph |-> g, identity |-> id]
  BY DEF Return
<1>8. g.root = idOf[doc.root] /\ g.nodes = records
  BY DEF Structural
<1>9. g = [root |-> g.root, nodes |-> g.nodes]
  BY DEF Structural
<1>10. IsSpelled(doc)
  BY <1>2, OutcomeIsSpelled
<1>11. result'.graph = g /\ result'.identity = id
  BY <1>7
<1> HIDE DEF g
<1>12. IsCompilation(g, doc, idOf)
  BY <1>3, <1>4, <1>6, <1>8, <1>9, <1>10 DEF IsCompilation, IsAFunction
<1>13. ContentAddressed(g.nodes, digests)
  BY <1>2, <1>5, <1>8 DEF ContentAddressed, TableOK
<1>14. g \in DOMAIN graphDigests' /\ graphDigests'[g] = id
  BY <1>7 DEF Extended
<1>15. QED
  BY <1>2, <1>11, <1>12, <1>13, <1>14 DEF IsCompiledTo

\* The oracles keep their answers.
KeepsAnswers(answered, next) ==
  \A x \in DOMAIN answered : x \in DOMAIN next /\ next[x] = answered[x]

LEMMA AskingKeepsAnswers ==
  ASSUME NEW answered, NEW x, NEW id \in Answers(answered, x)
  PROVE  KeepsAnswers(answered, Extended(answered, x, id))
<1>1. x \in DOMAIN answered => id = answered[x]
  BY AnswersKept
<1>2. QED
  BY <1>1 DEF KeepsAnswers, Extended

LEMMA OraclesKept ==
  ASSUME [Next]_vars
  PROVE  KeepsAnswers(digests, digests') /\ KeepsAnswers(graphDigests, graphDigests')
<1>1. \/ graphDigests' = graphDigests
      \/ \E x : \E id \in Answers(graphDigests, x) :
           graphDigests' = Extended(graphDigests, x, id)
  BY DEF Next, RejectConfig, AcceptConfig, CanonicalizationFails, BeginCompile,
         SkipVisited, Schedule, CompileNode, DetectCollision, BeginTraversal,
         TraverseSkip, TraverseVisit, TraverseLeave, TooComplex, Return, oracle, vars
<1>2. \/ digests' = digests
      \/ \E x : \E id \in Answers(digests, x) : digests' = Extended(digests, x, id)
  BY DEF Next, RejectConfig, AcceptConfig, CanonicalizationFails, BeginCompile,
         SkipVisited, Schedule, CompileNode, DetectCollision, BeginTraversal,
         TraverseSkip, TraverseVisit, TraverseLeave, TooComplex, Return, oracle, vars
<1>3. KeepsAnswers(graphDigests, graphDigests) /\ KeepsAnswers(digests, digests)
  BY DEF KeepsAnswers
<1>4. QED
  BY <1>1, <1>2, <1>3, AskingKeepsAnswers

LEMMA CompiledStays ==
  ASSUME NEW res, NEW document, NEW answered, NEW hashed,
         IsCompiledTo(res, document, answered, hashed),
         NEW next, KeepsAnswers(answered, next), NEW hashes, KeepsAnswers(hashed, hashes)
  PROVE  IsCompiledTo(res, document, next, hashes)
BY DEF IsCompiledTo, KeepsAnswers, ContentAddressed

\* Only leaving a payoff node enters a record.
LEMMA RecordsStay ==
  ASSUME IsAFunction(records), [Next]_vars
  PROVE  IsAFunction(records')
<1>1. CASE TraverseLeave
  <2>1. PICK x, y : records' = Extended(records, x, y)
    BY <1>1 DEF TraverseLeave
  <2>2. IsAFunction(Extended(records, x, y))
    BY DEF IsAFunction, Extended
  <2>3. QED
    BY <2>1, <2>2
<1>2. CASE ~TraverseLeave
  <2>1. records' = records
    BY <1>2 DEF Next, RejectConfig, AcceptConfig, CanonicalizationFails, BeginCompile,
         SkipVisited, Schedule, CompileNode, DetectCollision, BeginTraversal,
         TraverseSkip, TraverseVisit, TooComplex, Return, traversal, vars
  <2>2. QED
    BY <2>1 DEF IsAFunction
<1>3. QED
  BY <1>1, <1>2

\* Nothing happens after the answer.
LEMMA NothingAfterDone ==
  ASSUME Next
  PROVE  pc # "done"
BY DEF Next, RejectConfig, AcceptConfig, CanonicalizationFails, BeginCompile,
       SkipVisited, Schedule, CompileNode, DetectCollision, BeginTraversal, TraverseSkip,
       TraverseVisit, TraverseLeave, TooComplex, Return, Popping, Walking

\* What __eq__ knows of the two calls.
ComparedInv ==
  /\ IsAFunction(records)
  /\ outcome = IF leftResult = NoResult THEN pair[1] ELSE pair[2]
  /\ result.kind = "payoff graph" =>
       /\ outcome.kind = "canonical"
       /\ IsCompiledTo(result, outcome.document, digests, graphDigests)
  /\ leftResult # NoResult =>
       /\ pair[1].kind = "canonical"
       /\ IsCompiledTo(leftResult, pair[1].document, digests, graphDigests)
  /\ answer # "none" => pc = "done"
  /\ answer \in {"equal", "different"} =>
       /\ leftResult # NoResult /\ result.kind = "payoff graph"
       /\ answer = "equal" <=> leftResult.identity = result.identity

\* A step of a call, under no answer yet.
LEMMA ComparedNext ==
  ASSUME IInv, Apart(idOf), ComparedInv, [Next]_vars, UNCHANGED eqVars
  PROVE  ComparedInv'
<1>1. /\ pair' = pair /\ leftResult' = leftResult /\ answer' = answer
  BY DEF eqVars
<1>2. KeepsAnswers(digests, digests') /\ KeepsAnswers(graphDigests, graphDigests')
  BY OraclesKept
<1>3. IsAFunction(records')
  BY RecordsStay DEF ComparedInv
<1>4. outcome' = outcome
  BY OtherSteps DEF Return, callArgs
<1>5. ASSUME leftResult # NoResult
      PROVE  /\ pair[1].kind = "canonical"
             /\ IsCompiledTo(leftResult, pair[1].document, digests', graphDigests')
  BY <1>2, <1>5, CompiledStays DEF ComparedInv
<1>6. ASSUME result'.kind = "payoff graph"
      PROVE  /\ outcome.kind = "canonical"
             /\ IsCompiledTo(result', outcome.document, digests', graphDigests')
  <2>1. CASE Return
    <3>1. /\ outcome.kind = "canonical" /\ digests' = digests
          /\ IsCompiledTo(result', outcome.document, digests, graphDigests')
      BY <2>1, ReturnsCompilation DEF ComparedInv, Return
    <3>2. QED
      BY <3>1
  <2>2. CASE ~Return
    <3>1. result' = result
      BY <1>6, <2>2, OtherSteps
    <3>2. QED
      BY <1>2, <1>6, <3>1, CompiledStays DEF ComparedInv
  <2>3. QED
    BY <2>1, <2>2
<1>7. answer # "none" => UNCHANGED vars
  BY NothingAfterDone DEF ComparedInv
<1>8. answer # "none" => pc' = "done" /\ result' = result
  BY <1>7 DEF ComparedInv, vars
<1>9. answer \in {"equal", "different"} => answer # "none"
  OBVIOUS
<1>10. QED
  BY <1>1, <1>3, <1>4, <1>5, <1>6, <1>8, <1>9 DEF ComparedInv

\* The second call, the exception and the verdict.
LEMMA ComparedAnswers ==
  ASSUME IInv, ComparedInv, ResultTyped, CompileRight \/ Propagate \/ Compare
  PROVE  ComparedInv'
<1>1. CASE CompileRight
  <2>1. /\ answer = "none" /\ result.kind = "payoff graph" /\ leftResult = NoResult
        /\ leftResult' = result /\ outcome' = pair[2] /\ result' = NoResult
        /\ records' = << >> /\ digests' = digests /\ graphDigests' = graphDigests
        /\ pair' = pair /\ answer' = answer
    BY <1>1 DEF CompileRight, Returned, Restart, oracle
  <2>2. NoResult.kind = "none"
    BY DEF NoResult
  <2>3. leftResult' # NoResult /\ result'.kind # "payoff graph"
    BY <2>1, <2>2
  <2>4. IsAFunction(records')
    <3>1. IsAFunction(<< >>)
      BY DEF IsAFunction
    <3>2. QED
      BY <2>1, <3>1
  <2>5. outcome = pair[1] /\ outcome.kind = "canonical"
        /\ IsCompiledTo(result, outcome.document, digests, graphDigests)
    BY <2>1 DEF ComparedInv
  <2>6. answer' # "equal" /\ answer' # "different"
    BY <2>1
  <2>7. QED
    BY <2>1, <2>3, <2>4, <2>5, <2>6 DEF ComparedInv
<1>2. CASE Propagate
  <2>1. /\ UNCHANGED vars /\ pair' = pair /\ leftResult' = leftResult
        /\ answer' = result.kind /\ pc = "done"
    BY <1>2 DEF Propagate, Returned
  <2>2. result.kind \notin {"equal", "different"}
    BY DEF ResultTyped, PayoffGraphErrors, CanonicalizationErrors
  <2>3. QED
    BY <2>1, <2>2 DEF ComparedInv, vars
<1>3. CASE Compare
  <2>1. /\ UNCHANGED vars /\ pair' = pair /\ leftResult' = leftResult
        /\ pc = "done" /\ leftResult # NoResult /\ result.kind = "payoff graph"
        /\ answer' = IF leftResult.identity = result.identity
                     THEN "equal" ELSE "different"
    BY <1>3 DEF Compare, Returned
  <2>2. QED
    BY <2>1 DEF ComparedInv, vars
<1>4. QED
  BY <1>1, <1>2, <1>3

LEMMA ComparedIsRight == EqInv /\ ComparedInv => EqualIffSameContract
<1>1. SUFFICES ASSUME EqInv, ComparedInv, answer \in {"equal", "different"}
               PROVE  IF pair \in PairsOfOneContract THEN answer = "equal"
                      ELSE answer = "equal" =>
                             /\ leftResult.graph # result.graph
                             /\ graphDigests[leftResult.graph] = graphDigests[result.graph]
  BY DEF EqualIffSameContract
<1> DEFINE a == pair[1].document
           b == pair[2].document
           ga == leftResult.graph
           gb == result.graph
<1>2. /\ leftResult # NoResult /\ result.kind = "payoff graph"
      /\ answer = "equal" <=> leftResult.identity = result.identity
  BY <1>1 DEF ComparedInv
<1>3. /\ pair[1].kind = "canonical" /\ pair[2].kind = "canonical"
      /\ IsCompiledTo(leftResult, a, digests, graphDigests)
      /\ IsCompiledTo(result, b, digests, graphDigests)
  BY <1>1, <1>2 DEF ComparedInv
<1>4. PICK idsA : IsCompilation(ga, a, idsA)
  BY <1>3 DEF IsCompiledTo
<1>5. PICK idsB : IsCompilation(gb, b, idsB)
  BY <1>3 DEF IsCompiledTo
<1>6. /\ ContentAddressed(ga.nodes, digests) /\ ContentAddressed(gb.nodes, digests)
      /\ graphDigests[ga] = leftResult.identity /\ graphDigests[gb] = result.identity
  BY <1>3 DEF IsCompiledTo
<1>7. pair \in PairsOfOneContract <=> SameContract(a, b)
  BY <1>1, <1>3 DEF PairsOfOneContract, EqInv
<1> HIDE DEF a, b, ga, gb
<1>8. SameContract(a, b) => ga = gb
  BY <1>4, <1>5, <1>6, SameSpelling
<1>9. ga = gb => SameContract(a, b)
  BY <1>4, <1>5, SameGraph
<1>10. QED
  BY <1>1, <1>2, <1>6, <1>7, <1>8, <1>9 DEF ga, gb

\* PayoffGraph.__eq__ is right for any two contracts: it answers True when the
\* contracts are the same one, however the canonical and the payoff digests order
\* their operands, and answers True for two that are not only if SHA-256 gives two
\* different payoff graphs one digest.
THEOREM EqualPayoffsAreOneContract == EqSpec => []EqualIffSameContract
<1>1. EqInit => ComparedInv
  <2>1. SUFFICES ASSUME EqInit PROVE ComparedInv
    OBVIOUS
  <2>2. /\ records = << >> /\ leftResult = NoResult /\ outcome = pair[1]
        /\ answer = "none" /\ result.kind = "none"
    BY <2>1 DEF EqInit, Init, NoResult
  <2>3. IsAFunction(records)
    <3>1. IsAFunction(<< >>)
      BY DEF IsAFunction
    <3>2. QED
      BY <2>2, <3>1
  <2>4. QED
    BY <2>2, <2>3 DEF ComparedInv
<1>2. EqInv /\ NodesStayApart /\ TypeOK /\ ComparedInv /\ [EqNext]_allVars
        => ComparedInv'
  <2>1. SUFFICES ASSUME EqInv, NodesStayApart, TypeOK, ComparedInv, [EqNext]_allVars
                 PROVE  ComparedInv'
    OBVIOUS
  <2>2. IInv /\ Apart(idOf) /\ ResultTyped
    BY <2>1 DEF EqInv, NodesStayApart, Apart, TypeOK, ResultTyped
  <2>3. CASE CompileStep \/ UNCHANGED allVars
    <3>1. [Next]_vars /\ UNCHANGED eqVars
      BY <2>3 DEF CompileStep, allVars
    <3>2. QED
      BY <2>1, <2>2, <3>1, ComparedNext
  <2>4. CASE CompileRight \/ Propagate \/ Compare
    BY <2>1, <2>2, <2>4, ComparedAnswers
  <2>5. QED
    BY <2>1, <2>3, <2>4 DEF EqNext
<1>3. QED
  BY <1>1, <1>2, ComparedIsRight, CompilerInvariant, PayoffNodesStayApart, PayoffTypes, PTL
     DEF EqSpec
=============================================================================
