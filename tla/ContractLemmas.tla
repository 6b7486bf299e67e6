--------------------------- MODULE ContractLemmas ---------------------------
(***************************************************************************)
(* What the proofs about the stages share.  The local rules of the node    *)
(* classes, class by class: when the checks of validate_contract pass, and *)
(* when those of the constructor do.  The arithmetic of meanings: numbers  *)
(* in lowest terms, and collections, whose operands may change places.     *)
(* And that every accepted contract without cycles has a meaning.          *)
(***************************************************************************)
EXTENDS ValidationPromise, ContractConstruction, ContractSemantics,
        SequenceTheorems, WellFoundedInduction, TLAPS

-----------------------------------------------------------------------------
(* Lists of checks.                                                        *)

Failing == {Invalid, Mismatch, InvalidNoPath, Input}

Check == BOOLEAN \X Failing

LEMMA ACheck ==
  ASSUME NEW b \in BOOLEAN, NEW e \in Failing
  PROVE  <<b, e>> \in Check /\ (<<b, e>>[1] <=> b)
BY DEF Check

\* Among some positions there is a first one.
LEMMA FirstOf ==
  ASSUME NEW T, T \subseteq Nat, T # {}
  PROVE  \E i \in T : \A j \in T : i <= j
<1> DEFINE R == OpToRel(<, Nat)
<1>0. IsWellFoundedOn(R, Nat)
  BY NatLessThanWellFounded
<1>1. \A i, j \in Nat : i < j => <<i, j>> \in R
  BY DEF OpToRel
<1> HIDE DEF R
<1>2. PICK i \in T : \A j \in T : ~(<<j, i>> \in R)
  BY <1>0, WFMin
<1>3. ASSUME NEW j \in T PROVE i <= j
  <2>1. i \in Nat /\ j \in Nat /\ ~(j < i)
    BY <1>1, <1>2
  <2>2. QED
    BY <2>1
<1>4. QED
  BY <1>3

\* A list of checks passes if they all hold.
LEMMA PassesIff ==
  ASSUME NEW c \in Seq(Check)
  PROVE  FirstFailure(c) = Pass <=> \A i \in 1..Len(c) : c[i][1]
<1> DEFINE failing == {i \in 1..Len(c) : ~c[i][1]}
           first == CHOOSE i \in failing : \A j \in failing : i <= j
<1>1. Len(c) \in Nat /\ \A i \in 1..Len(c) : c[i][2] \in Failing
  BY LenProperties, ElementOfSeq DEF Check
<1>2. ASSUME failing # {} PROVE FirstFailure(c) # Pass
  <2>1. failing \subseteq Nat
    BY <1>1
  <2>2. \E i \in failing : \A j \in failing : i <= j
    BY <1>2, <2>1, FirstOf
  <2>3. first \in failing
    BY <2>2
  <2>4. FirstFailure(c) = c[first][2]
    BY <1>2 DEF FirstFailure
  <2>5. c[first][2] \in Failing
    BY <1>1, <2>3
  <2>6. Pass \notin Failing
    BY DEF Failing, Pass, Invalid, Mismatch, InvalidNoPath, Input
  <2>7. QED
    BY <2>4, <2>5, <2>6
<1>3. failing = {} => FirstFailure(c) = Pass
  BY DEF FirstFailure
<1>4. QED
  BY <1>2, <1>3

\* Two lists in a row pass if both do.
LEMMA PassesJoin ==
  ASSUME NEW a \in Seq(Check), NEW b \in Seq(Check)
  PROVE  /\ a \o b \in Seq(Check)
         /\ FirstFailure(a \o b) = Pass <=> FirstFailure(a) = Pass /\ FirstFailure(b) = Pass
<1> DEFINE c == a \o b
<1>1. /\ Len(c) = Len(a) + Len(b) /\ c \in Seq(Check)
      /\ Len(a) \in Nat /\ Len(b) \in Nat
      /\ \A i \in 1..(Len(a) + Len(b)) :
           c[i] = IF i <= Len(a) THEN a[i] ELSE b[i - Len(a)]
  BY ConcatProperties, LenProperties
<1> HIDE DEF c
<1>2. ASSUME \A i \in 1..Len(c) : c[i][1]
      PROVE  (\A i \in 1..Len(a) : a[i][1]) /\ (\A i \in 1..Len(b) : b[i][1])
  <2>1. ASSUME NEW i \in 1..Len(a) PROVE a[i][1]
    <3>1. i \in 1..(Len(a) + Len(b)) /\ i <= Len(a)
      BY <1>1
    <3>2. QED
      BY <1>1, <1>2, <3>1
  <2>2. ASSUME NEW i \in 1..Len(b) PROVE b[i][1]
    <3> DEFINE k == Len(a) + i
    <3>1. k \in 1..(Len(a) + Len(b)) /\ ~(k <= Len(a)) /\ k - Len(a) = i
      BY <1>1
    <3> HIDE DEF k
    <3>2. QED
      BY <1>1, <1>2, <3>1
  <2>3. QED
    BY <2>1, <2>2
<1>3. ASSUME \A i \in 1..Len(a) : a[i][1], \A i \in 1..Len(b) : b[i][1]
      PROVE  \A i \in 1..Len(c) : c[i][1]
  <2>1. ASSUME NEW i \in 1..Len(c) PROVE c[i][1]
    <3>1. CASE i <= Len(a)
      BY <1>1, <1>3, <3>1
    <3>2. CASE ~(i <= Len(a))
      <4>1. i - Len(a) \in 1..Len(b)
        BY <1>1, <3>2
      <4>2. QED
        BY <1>1, <1>3, <3>2, <4>1
    <3>3. QED
      BY <3>1, <3>2
  <2>2. QED
    BY <2>1
<1>4. QED
  BY <1>1, <1>2, <1>3, PassesIff DEF c

\* Lists of a few checks.
LEMMA Passes1 ==
  ASSUME NEW x1 \in Check
  PROVE  /\ << x1 >> \in Seq(Check)
         /\ FirstFailure(<< x1 >>) = Pass <=> x1[1]
<1> DEFINE s == << x1 >>
<1>1. s \in Seq(Check) /\ Len(s) = 1 /\ s[1] = x1
  OBVIOUS
<1> HIDE DEF s
<1>2. (\A i \in 1..Len(s) : s[i][1]) <=> x1[1]
  BY <1>1
<1>3. QED
  BY <1>1, <1>2, PassesIff DEF s

LEMMA Passes2 ==
  ASSUME NEW x1 \in Check, NEW x2 \in Check
  PROVE  /\ << x1, x2 >> \in Seq(Check)
         /\ FirstFailure(<< x1, x2 >>) = Pass
              <=> x1[1] /\ x2[1]
<1> DEFINE s == << x1, x2 >>
<1>1. /\ s \in Seq(Check) /\ Len(s) = 2
      /\ s[1] = x1 /\ s[2] = x2
  OBVIOUS
<1> HIDE DEF s
<1>2. (\A i \in 1..Len(s) : s[i][1]) <=> x1[1] /\ x2[1]
  <2>1. 1..Len(s) = {1, 2}
    BY <1>1
  <2>2. QED
    BY <1>1, <2>1
<1>3. QED
  BY <1>1, <1>2, PassesIff DEF s

LEMMA Passes3 ==
  ASSUME NEW x1 \in Check, NEW x2 \in Check, NEW x3 \in Check
  PROVE  /\ << x1, x2, x3 >> \in Seq(Check)
         /\ FirstFailure(<< x1, x2, x3 >>) = Pass
              <=> x1[1] /\ x2[1] /\ x3[1]
<1> DEFINE s == << x1, x2, x3 >>
<1>1. /\ s \in Seq(Check) /\ Len(s) = 3
      /\ s[1] = x1 /\ s[2] = x2 /\ s[3] = x3
  OBVIOUS
<1> HIDE DEF s
<1>2. (\A i \in 1..Len(s) : s[i][1]) <=> x1[1] /\ x2[1] /\ x3[1]
  <2>1. 1..Len(s) = {1, 2, 3}
    BY <1>1
  <2>2. QED
    BY <1>1, <2>1
<1>3. QED
  BY <1>1, <1>2, PassesIff DEF s

LEMMA Passes4 ==
  ASSUME NEW x1 \in Check, NEW x2 \in Check, NEW x3 \in Check, NEW x4 \in Check
  PROVE  /\ << x1, x2, x3, x4 >> \in Seq(Check)
         /\ FirstFailure(<< x1, x2, x3, x4 >>) = Pass
              <=> x1[1] /\ x2[1] /\ x3[1] /\ x4[1]
<1> DEFINE s == << x1, x2, x3, x4 >>
<1>1. /\ s \in Seq(Check) /\ Len(s) = 4
      /\ s[1] = x1 /\ s[2] = x2 /\ s[3] = x3 /\ s[4] = x4
  OBVIOUS
<1> HIDE DEF s
<1>2. (\A i \in 1..Len(s) : s[i][1]) <=> x1[1] /\ x2[1] /\ x3[1] /\ x4[1]
  <2>1. 1..Len(s) = {1, 2, 3, 4}
    BY <1>1
  <2>2. QED
    BY <1>1, <2>1
<1>3. QED
  BY <1>1, <1>2, PassesIff DEF s

LEMMA Passes5 ==
  ASSUME NEW x1 \in Check, NEW x2 \in Check, NEW x3 \in Check, NEW x4 \in Check, NEW x5 \in Check
  PROVE  /\ << x1, x2, x3, x4, x5 >> \in Seq(Check)
         /\ FirstFailure(<< x1, x2, x3, x4, x5 >>) = Pass
              <=> x1[1] /\ x2[1] /\ x3[1] /\ x4[1] /\ x5[1]
<1> DEFINE s == << x1, x2, x3, x4, x5 >>
<1>1. /\ s \in Seq(Check) /\ Len(s) = 5
      /\ s[1] = x1 /\ s[2] = x2 /\ s[3] = x3 /\ s[4] = x4 /\ s[5] = x5
  OBVIOUS
<1> HIDE DEF s
<1>2. (\A i \in 1..Len(s) : s[i][1]) <=> x1[1] /\ x2[1] /\ x3[1] /\ x4[1] /\ x5[1]
  <2>1. 1..Len(s) = {1, 2, 3, 4, 5}
    BY <1>1
  <2>2. QED
    BY <1>1, <2>1
<1>3. QED
  BY <1>1, <1>2, PassesIff DEF s

\* ... after the check of the unit.
LEMMA After1Pass1 ==
  ASSUME NEW x0 \in Check, NEW x1 \in Check
  PROVE  FirstFailure(<< x0 >> \o << x1 >>) = Pass
           <=> x0[1] /\ x1[1]
<1> DEFINE s == << x0 >>
           t == << x1 >>
<1>1. s \in Seq(Check) /\ (FirstFailure(s) = Pass <=> x0[1])
  BY Passes1
<1>2. t \in Seq(Check) /\ (FirstFailure(t) = Pass <=> x1[1])
  BY Passes1
<1> HIDE DEF s, t
<1>3. QED
  BY <1>1, <1>2, PassesJoin DEF s, t

LEMMA After1Pass2 ==
  ASSUME NEW x0 \in Check, NEW x1 \in Check, NEW x2 \in Check
  PROVE  FirstFailure(<< x0 >> \o << x1, x2 >>) = Pass
           <=> x0[1] /\ x1[1] /\ x2[1]
<1> DEFINE s == << x0 >>
           t == << x1, x2 >>
<1>1. s \in Seq(Check) /\ (FirstFailure(s) = Pass <=> x0[1])
  BY Passes1
<1>2. t \in Seq(Check) /\ (FirstFailure(t) = Pass <=> x1[1] /\ x2[1])
  BY Passes2
<1> HIDE DEF s, t
<1>3. QED
  BY <1>1, <1>2, PassesJoin DEF s, t

LEMMA After1Pass3 ==
  ASSUME NEW x0 \in Check, NEW x1 \in Check, NEW x2 \in Check, NEW x3 \in Check
  PROVE  FirstFailure(<< x0 >> \o << x1, x2, x3 >>) = Pass
           <=> x0[1] /\ x1[1] /\ x2[1] /\ x3[1]
<1> DEFINE s == << x0 >>
           t == << x1, x2, x3 >>
<1>1. s \in Seq(Check) /\ (FirstFailure(s) = Pass <=> x0[1])
  BY Passes1
<1>2. t \in Seq(Check) /\ (FirstFailure(t) = Pass <=> x1[1] /\ x2[1] /\ x3[1])
  BY Passes3
<1> HIDE DEF s, t
<1>3. QED
  BY <1>1, <1>2, PassesJoin DEF s, t

LEMMA After1Pass4 ==
  ASSUME NEW x0 \in Check, NEW x1 \in Check, NEW x2 \in Check, NEW x3 \in Check, NEW x4 \in Check
  PROVE  FirstFailure(<< x0 >> \o << x1, x2, x3, x4 >>) = Pass
           <=> x0[1] /\ x1[1] /\ x2[1] /\ x3[1] /\ x4[1]
<1> DEFINE s == << x0 >>
           t == << x1, x2, x3, x4 >>
<1>1. s \in Seq(Check) /\ (FirstFailure(s) = Pass <=> x0[1])
  BY Passes1
<1>2. t \in Seq(Check) /\ (FirstFailure(t) = Pass <=> x1[1] /\ x2[1] /\ x3[1] /\ x4[1])
  BY Passes4
<1> HIDE DEF s, t
<1>3. QED
  BY <1>1, <1>2, PassesJoin DEF s, t

-----------------------------------------------------------------------------
(* Operand collections.                                                    *)

\* The loop over m operands makes two checks per operand.
Alternates(loop, m, A, B) ==
  loop = [j \in 1..2 * m |-> IF j % 2 = 1 THEN A[(j + 1) \div 2]
                                          ELSE B[(j + 1) \div 2]]

LEMMA LoopPasses ==
  ASSUME NEW m \in Nat, NEW A, NEW B, \A i \in 1..m : A[i] \in Check /\ B[i] \in Check,
         NEW loop, Alternates(loop, m, A, B)
  PROVE  /\ loop \in Seq(Check)
         /\ FirstFailure(loop) = Pass <=> \A i \in 1..m : A[i][1] /\ B[i][1]
<1> USE DEF Alternates
<1>1. \A j \in 1..2 * m : (j + 1) \div 2 \in 1..m
  OBVIOUS
<1>2. loop \in [1..2 * m -> Check]
  BY <1>1
<1>3. 2 * m \in Nat
  OBVIOUS
<1>4. loop \in Seq(Check)
  BY <1>2, <1>3, SeqDef
<1>5. Len(loop) = 2 * m
  BY <1>2, <1>3, <1>4, LenProperties
<1>6. ASSUME \A j \in 1..2 * m : loop[j][1], NEW i \in 1..m
      PROVE  A[i][1] /\ B[i][1]
  <2> DEFINE a == 2 * i - 1
             b == 2 * i
  <2>1. a \in 1..2 * m /\ a % 2 = 1 /\ (a + 1) \div 2 = i
    OBVIOUS
  <2>2. b \in 1..2 * m /\ ~(b % 2 = 1) /\ (b + 1) \div 2 = i
    OBVIOUS
  <2> HIDE DEF a, b
  <2>3. loop[a] = A[i] /\ loop[b] = B[i]
    BY <2>1, <2>2
  <2>4. QED
    BY <1>6, <2>1, <2>2, <2>3
<1>7. ASSUME \A i \in 1..m : A[i][1] /\ B[i][1], NEW j \in 1..2 * m
      PROVE  loop[j][1]
  <2>1. loop[j] = A[(j + 1) \div 2] \/ loop[j] = B[(j + 1) \div 2]
    OBVIOUS
  <2>2. QED
    BY <1>1, <1>7, <2>1
<1>8. QED
  BY <1>4, <1>5, <1>6, <1>7, PassesIff

\* _expect_scalar_collection
LEMMA ScalarCollectionPasses ==
  ASSUME NEW g, NEW rec, rec.kids \in Seq(Node)
  PROVE  /\ ScalarCollectionChecks(g, rec) \in Seq(Check)
         /\ FirstFailure(ScalarCollectionChecks(g, rec)) = Pass <=>
              /\ rec.slots = "tuple"
              /\ Len(rec.kids) >= 2
              /\ \A i \in 1..Len(rec.kids) : IsScalar(g[rec.kids[i]])
              /\ \A i \in 1..Len(rec.kids) : g[rec.kids[i]].unit = rec.unit
<1> DEFINE m == Len(rec.kids)
           A == [i \in 1..m |-> <<IsScalar(g[rec.kids[i]]), Mismatch>>]
           B == [i \in 1..m |-> <<g[rec.kids[i]].unit = g[rec.kids[1]].unit, Invalid>>]
           loop == [j \in 1..2 * m |->
                      LET kid == g[rec.kids[(j + 1) \div 2]]
                      IN  IF j % 2 = 1 THEN <<IsScalar(kid), Mismatch>>
                          ELSE <<kid.unit = g[rec.kids[1]].unit, Invalid>>]
           x1 == <<rec.slots = "tuple", Mismatch>>
           x2 == <<m >= 2, Invalid>>
           x3 == <<\A k \in Seq2Set(rec.kids) : g[k].unit = rec.unit, Invalid>>
           first == << x1, x2 >>
           last == << x3 >>
<1>1. m \in Nat /\ Invalid \in Failing /\ Mismatch \in Failing
  BY LenProperties DEF Failing
<1>2. ScalarCollectionChecks(g, rec) = (first \o loop) \o last
  BY Zenon DEF ScalarCollectionChecks
<1>3. \A i \in 1..m : /\ A[i] \in Check /\ (A[i][1] <=> IsScalar(g[rec.kids[i]]))
                      /\ B[i] \in Check
                      /\ B[i][1] <=> g[rec.kids[i]].unit = g[rec.kids[1]].unit
  <2> TAKE i \in 1..m
  <2> DEFINE b == IsScalar(g[rec.kids[i]])
             c == g[rec.kids[i]].unit = g[rec.kids[1]].unit
  <2>1. A[i] = <<b, Mismatch>> /\ B[i] = <<c, Invalid>>
    OBVIOUS
  <2>2. b \in BOOLEAN /\ c \in BOOLEAN
    BY DEF IsScalar
  <2> HIDE DEF A, B, b, c
  <2>3. A[i] \in Check /\ (A[i][1] <=> b) /\ B[i] \in Check /\ (B[i][1] <=> c)
    BY <1>1, <2>1, <2>2, ACheck
  <2>4. QED
    BY <2>3 DEF b, c
<1>4. Alternates(loop, m, A, B)
  <2>1. \A j \in 1..2 * m : (j + 1) \div 2 \in 1..m
    BY <1>1
  <2>2. QED
    BY <2>1 DEF Alternates
<1>5. /\ (rec.slots = "tuple") \in BOOLEAN /\ (m >= 2) \in BOOLEAN
      /\ (\A k \in Seq2Set(rec.kids) : g[k].unit = rec.unit) \in BOOLEAN
  BY <1>1
<1>6. /\ x1 \in Check /\ (x1[1] <=> rec.slots = "tuple")
      /\ x2 \in Check /\ (x2[1] <=> m >= 2)
      /\ x3 \in Check /\ (x3[1] <=> (\A k \in Seq2Set(rec.kids) : g[k].unit = rec.unit))
  BY <1>1, <1>5, ACheck
<1>7. (\A k \in Seq2Set(rec.kids) : g[k].unit = rec.unit)
        <=> \A i \in 1..m : g[rec.kids[i]].unit = rec.unit
  BY DEF Seq2Set
<1> HIDE DEF A, B, loop, x1, x2, x3
<1>8. first \in Seq(Check) /\ (FirstFailure(first) = Pass <=> x1[1] /\ x2[1])
  BY <1>6, Passes2
<1>9. last \in Seq(Check) /\ (FirstFailure(last) = Pass <=> x3[1])
  BY <1>6, Passes1
<1>10. /\ loop \in Seq(Check)
       /\ FirstFailure(loop) = Pass <=> \A i \in 1..m : A[i][1] /\ B[i][1]
  <2>1. m \in Nat /\ \A i \in 1..m : A[i] \in Check /\ B[i] \in Check
    BY <1>1, <1>3
  <2> HIDE DEF m
  <2>2. QED
    BY <1>4, <2>1, LoopPasses, ZenonT(60)
<1> HIDE DEF first, last
<1>11. /\ first \o loop \in Seq(Check)
       /\ FirstFailure(first \o loop) = Pass
            <=> FirstFailure(first) = Pass /\ FirstFailure(loop) = Pass
  BY <1>8, <1>10, PassesJoin
<1> DEFINE head == first \o loop
<1> HIDE DEF head
<1>12. /\ head \o last \in Seq(Check)
       /\ FirstFailure(head \o last) = Pass
            <=> FirstFailure(head) = Pass /\ FirstFailure(last) = Pass
  BY <1>9, <1>11, PassesJoin DEF head
<1>13. ASSUME m >= 2, \A i \in 1..m : g[rec.kids[i]].unit = rec.unit
       PROVE  \A i \in 1..m : g[rec.kids[i]].unit = g[rec.kids[1]].unit
  <2>1. 1 \in 1..m
    BY <1>1, <1>13
  <2>2. QED
    BY <1>13, <2>1
<1> DEFINE scalars == \A i \in 1..m : IsScalar(g[rec.kids[i]])
           united == \A i \in 1..m : g[rec.kids[i]].unit = rec.unit
           alike == \A i \in 1..m : g[rec.kids[i]].unit = g[rec.kids[1]].unit
<1>14. (\A i \in 1..m : A[i][1] /\ B[i][1]) <=> scalars /\ alike
  BY <1>3
<1>15. m >= 2 /\ united => alike
  BY <1>13
<1> HIDE DEF scalars, united, alike, m
<1>16. FirstFailure(ScalarCollectionChecks(g, rec)) = Pass
         <=> rec.slots = "tuple" /\ m >= 2 /\ scalars /\ alike /\ united
  BY <1>2, <1>6, <1>7, <1>8, <1>9, <1>10, <1>11, <1>12, <1>14 DEF head, united
<1>17. QED
  BY <1>2, <1>12, <1>15, <1>16 DEF head, scalars, united, m

\* _validate_scalar_operands and _validate_boolean_operands
LEMMA OperandsPass ==
  ASSUME NEW g, NEW rec, rec.kids \in Seq(Node), NEW members, NEW sameUnit \in BOOLEAN
  PROVE  FirstFailure(OperandChecks(g, rec, members, sameUnit)) = Pass <=>
           /\ rec.slots = "tuple"
           /\ Len(rec.kids) >= 2
           /\ \A i \in 1..Len(rec.kids) : rec.kids[i] \in members
           /\ sameUnit => \A i \in 1..Len(rec.kids) :
                            MayMatch(g[rec.kids[i]].unit, g[rec.kids[1]].unit)
<1> DEFINE m == Len(rec.kids)
           A == [i \in 1..m |-> <<rec.kids[i] \in members, Mismatch>>]
           B == [i \in 1..m |->
                   <<sameUnit => MayMatch(g[rec.kids[i]].unit, g[rec.kids[1]].unit), Input>>]
           loop == [j \in 1..2 * m |->
                      LET kid == rec.kids[(j + 1) \div 2]
                      IN  IF j % 2 = 1 THEN <<kid \in members, Mismatch>>
                          ELSE <<sameUnit => MayMatch(g[kid].unit, g[rec.kids[1]].unit), Input>>]
           x1 == <<rec.slots = "tuple", Mismatch>>
           x2 == <<m >= 2, Input>>
           first == << x1, x2 >>
<1>1. m \in Nat /\ Input \in Failing /\ Mismatch \in Failing
  BY LenProperties DEF Failing
<1>2. OperandChecks(g, rec, members, sameUnit) = first \o loop
  BY Zenon DEF OperandChecks
<1>3. \A i \in 1..m : /\ A[i] \in Check /\ (A[i][1] <=> rec.kids[i] \in members)
                      /\ B[i] \in Check
                      /\ B[i][1] <=> (sameUnit => MayMatch(g[rec.kids[i]].unit,
                                                            g[rec.kids[1]].unit))
  <2> TAKE i \in 1..m
  <2> DEFINE b == rec.kids[i] \in members
             c == sameUnit => MayMatch(g[rec.kids[i]].unit, g[rec.kids[1]].unit)
  <2>1. A[i] = <<b, Mismatch>> /\ B[i] = <<c, Input>>
    OBVIOUS
  <2>2. b \in BOOLEAN /\ c \in BOOLEAN
    OBVIOUS
  <2> HIDE DEF A, B, b, c
  <2>3. A[i] \in Check /\ (A[i][1] <=> b) /\ B[i] \in Check /\ (B[i][1] <=> c)
    BY <1>1, <2>1, <2>2, ACheck
  <2>4. QED
    BY <2>3 DEF b, c
<1>4. Alternates(loop, m, A, B)
  <2>1. \A j \in 1..2 * m : (j + 1) \div 2 \in 1..m
    BY <1>1
  <2>2. QED
    BY <2>1 DEF Alternates
<1>5. (rec.slots = "tuple") \in BOOLEAN /\ (m >= 2) \in BOOLEAN
  BY <1>1
<1>6. /\ x1 \in Check /\ (x1[1] <=> rec.slots = "tuple")
      /\ x2 \in Check /\ (x2[1] <=> m >= 2)
  BY <1>1, <1>5, ACheck
<1> HIDE DEF A, B, loop, x1, x2
<1>7. first \in Seq(Check) /\ (FirstFailure(first) = Pass <=> x1[1] /\ x2[1])
  BY <1>6, Passes2
<1>8. /\ loop \in Seq(Check)
      /\ FirstFailure(loop) = Pass <=> \A i \in 1..m : A[i][1] /\ B[i][1]
  <2>1. m \in Nat /\ \A i \in 1..m : A[i] \in Check /\ B[i] \in Check
    BY <1>1, <1>3
  <2> HIDE DEF m
  <2>2. QED
    BY <1>4, <2>1, LoopPasses, ZenonT(60)
<1> HIDE DEF first
<1>9. FirstFailure(first \o loop) = Pass
        <=> FirstFailure(first) = Pass /\ FirstFailure(loop) = Pass
  BY <1>7, <1>8, PassesJoin
<1> DEFINE inside == \A i \in 1..m : rec.kids[i] \in members
           alike == \A i \in 1..m : MayMatch(g[rec.kids[i]].unit, g[rec.kids[1]].unit)
<1>10. (\A i \in 1..m : A[i][1] /\ B[i][1]) <=> inside /\ (sameUnit => alike)
  BY <1>3
<1> HIDE DEF inside, alike, m
<1>11. FirstFailure(OperandChecks(g, rec, members, sameUnit)) = Pass
         <=> rec.slots = "tuple" /\ m >= 2 /\ inside /\ (sameUnit => alike)
  BY <1>2, <1>6, <1>7, <1>8, <1>9, <1>10
<1>12. QED
  BY <1>11 DEF inside, alike, m

-----------------------------------------------------------------------------
(* Class by class.                                                         *)

LEMMA LeafRules ==
  ASSUME NEW g, NEW n, g[n].type \in {"Number", "Observable"}, g[n].sound \in BOOLEAN
  PROVE  /\ NodeError(g, n) = Pass <=>
               /\ g[n].unit \in ValidUnits
               /\ g[n].sound
         /\ \A instance \in BOOLEAN :
             FirstFailure(ConstructorChecks(g, g[n], instance)) = Pass <=>
                 /\ instance
<1> SUFFICES ASSUME NEW instance \in BOOLEAN
             PROVE  /\ NodeError(g, n) = Pass <=>
                          /\ g[n].unit \in ValidUnits
                          /\ g[n].sound
                    /\ FirstFailure(ConstructorChecks(g, g[n], instance)) = Pass <=>
                          /\ instance
  OBVIOUS
<1> DEFINE rec == g[n]
           x0 == <<rec.unit \in ValidUnits, Invalid>>
           x1 == <<rec.sound, Invalid>>
           y1 == <<instance, Mismatch>>
<1>1. /\ rec.type \in ScalarTypes
      /\ rec.type \notin BooleanTypes
      /\ rec.type \notin ContractTypes
      /\ rec.type \in {"Number", "Observable"}
      /\ rec.type \notin {"Add", "Maximum", "Minimum"}
      /\ rec.type # "Subtract"
      /\ rec.type # "Multiply"
      /\ rec.type # "Divide"
      /\ rec.type # "Negate"
      /\ rec.type # "ConditionalValue"
  BY DEF ScalarTypes, BooleanTypes, ContractTypes
<1>2. /\ rec.type \in {"Number", "Observable", "BooleanConstant"}
      /\ rec.type \notin {"Add", "Maximum", "Minimum"}
      /\ rec.type \notin {"AllOf", "AnyOf"}
      /\ rec.type # "Both"
      /\ rec.type # "Subtract"
      /\ rec.type # "Multiply"
      /\ rec.type # "Divide"
      /\ rec.type # "Negate"
      /\ rec.type # "ConditionalValue"
      /\ rec.type # "Comparison"
      /\ rec.type # "Not"
      /\ rec.type # "Zero"
      /\ rec.type # "Payment"
      /\ rec.type # "Scale"
      /\ rec.type # "ConditionalContract"
  OBVIOUS
<1>3. ScalarChecks(g, rec) = << x1 >>
  BY <1>1, Zenon DEF ScalarChecks
<1>4. NodeError(g, n) = FirstFailure(<< x0 >> \o ScalarChecks(g, rec))
  BY <1>1, Zenon DEF NodeError
<1>5. ConstructorChecks(g, rec, instance) = << y1 >>
  BY <1>2, Zenon DEF ConstructorChecks
<1>6. /\ Invalid \in Failing /\ InvalidNoPath \in Failing
      /\ Mismatch \in Failing /\ Input \in Failing
  BY DEF Failing
<1>7. /\ (rec.unit \in ValidUnits) \in BOOLEAN
      /\ rec.sound \in BOOLEAN
      /\ instance \in BOOLEAN
  BY DEF IsScalar, IsBoolean, IsContract, IsMoney, MayMatch, MayBeMoney, MayBeScalar
<1>8. /\ x0 \in Check /\ (x0[1] <=> rec.unit \in ValidUnits)
      /\ x1 \in Check /\ (x1[1] <=> rec.sound)
  BY <1>6, <1>7, ACheck
<1>9. /\ y1 \in Check /\ (y1[1] <=> instance)
  BY <1>6, <1>7, ACheck
<1> HIDE DEF x0, x1, y1
<1>10. FirstFailure(<< x0 >> \o << x1 >>) = Pass
        <=> x0[1] /\ x1[1]
  BY <1>8, After1Pass1
<1>11. FirstFailure(<< y1 >>) = Pass <=> y1[1]
  BY <1>9, Passes1
<1>12. QED
  BY <1>3, <1>4, <1>5, <1>8, <1>9, <1>10, <1>11

LEMMA SubtractRules ==
  ASSUME NEW g, NEW n, g[n].type = "Subtract"
  PROVE  /\ NodeError(g, n) = Pass <=>
               /\ g[n].unit \in ValidUnits
               /\ IsScalar(g[g[n].kids[1]]) /\ IsScalar(g[g[n].kids[2]])
               /\ g[g[n].kids[1]].unit = g[g[n].kids[2]].unit
               /\ g[g[n].kids[1]].unit = g[n].unit
         /\ \A instance \in BOOLEAN :
             FirstFailure(ConstructorChecks(g, g[n], instance)) = Pass <=>
                 /\ g[n].slots = "tuple"
                 /\ IsScalar(g[g[n].kids[1]]) /\ IsScalar(g[g[n].kids[2]])
                 /\ MayMatch(g[g[n].kids[1]].unit, g[g[n].kids[2]].unit)
<1> SUFFICES ASSUME NEW instance \in BOOLEAN
             PROVE  /\ NodeError(g, n) = Pass <=>
                          /\ g[n].unit \in ValidUnits
                          /\ IsScalar(g[g[n].kids[1]]) /\ IsScalar(g[g[n].kids[2]])
                          /\ g[g[n].kids[1]].unit = g[g[n].kids[2]].unit
                          /\ g[g[n].kids[1]].unit = g[n].unit
                    /\ FirstFailure(ConstructorChecks(g, g[n], instance)) = Pass <=>
                          /\ g[n].slots = "tuple"
                          /\ IsScalar(g[g[n].kids[1]]) /\ IsScalar(g[g[n].kids[2]])
                          /\ MayMatch(g[g[n].kids[1]].unit, g[g[n].kids[2]].unit)
  OBVIOUS
<1> DEFINE rec == g[n]
           k1 == g[rec.kids[1]]
           k2 == g[rec.kids[2]]
           x0 == <<rec.unit \in ValidUnits, Invalid>>
           x1 == <<IsScalar(k1) /\ IsScalar(k2), Invalid>>
           x2 == <<k1.unit = k2.unit, Invalid>>
           x3 == <<k1.unit = rec.unit, Invalid>>
           y1 == <<rec.slots = "tuple", Mismatch>>
           y2 == <<\A i \in {1, 2} : IsScalar(g[rec.kids[i]]), Mismatch>>
           y3 == <<MayMatch(k1.unit, k2.unit), Input>>
<1>1. /\ rec.type \in ScalarTypes
      /\ rec.type \notin BooleanTypes
      /\ rec.type \notin ContractTypes
      /\ rec.type \notin {"Number", "Observable"}
      /\ rec.type \notin {"Add", "Maximum", "Minimum"}
      /\ rec.type = "Subtract"
      /\ rec.type # "Multiply"
      /\ rec.type # "Divide"
      /\ rec.type # "Negate"
      /\ rec.type # "ConditionalValue"
  BY DEF ScalarTypes, BooleanTypes, ContractTypes
<1>2. /\ rec.type \notin {"Number", "Observable", "BooleanConstant"}
      /\ rec.type \notin {"Add", "Maximum", "Minimum"}
      /\ rec.type \notin {"AllOf", "AnyOf"}
      /\ rec.type # "Both"
      /\ rec.type = "Subtract"
      /\ rec.type # "Multiply"
      /\ rec.type # "Divide"
      /\ rec.type # "Negate"
      /\ rec.type # "ConditionalValue"
      /\ rec.type # "Comparison"
      /\ rec.type # "Not"
      /\ rec.type # "Zero"
      /\ rec.type # "Payment"
      /\ rec.type # "Scale"
      /\ rec.type # "ConditionalContract"
  OBVIOUS
<1>3. ScalarChecks(g, rec) = << x1, x2, x3 >>
  BY <1>1, Zenon DEF ScalarChecks
<1>4. NodeError(g, n) = FirstFailure(<< x0 >> \o ScalarChecks(g, rec))
  BY <1>1, Zenon DEF NodeError
<1>5. ConstructorChecks(g, rec, instance) = << y1, y2, y3 >>
  BY <1>2, Zenon DEF ConstructorChecks
<1>6. /\ Invalid \in Failing /\ InvalidNoPath \in Failing
      /\ Mismatch \in Failing /\ Input \in Failing
  BY DEF Failing
<1>7. /\ (rec.unit \in ValidUnits) \in BOOLEAN
      /\ (IsScalar(k1) /\ IsScalar(k2)) \in BOOLEAN
      /\ (k1.unit = k2.unit) \in BOOLEAN
      /\ (MayMatch(k1.unit, k2.unit)) \in BOOLEAN
      /\ (k1.unit = rec.unit) \in BOOLEAN
      /\ (rec.slots = "tuple") \in BOOLEAN
      /\ (\A i \in {1, 2} : IsScalar(g[rec.kids[i]])) \in BOOLEAN
      /\ (k1.unit = k2.unit) \in BOOLEAN
      /\ (MayMatch(k1.unit, k2.unit)) \in BOOLEAN
  BY DEF IsScalar, IsBoolean, IsContract, IsMoney, MayMatch, MayBeMoney, MayBeScalar
<1>8. /\ x0 \in Check /\ (x0[1] <=> rec.unit \in ValidUnits)
      /\ x1 \in Check /\ (x1[1] <=> IsScalar(k1) /\ IsScalar(k2))
      /\ x2 \in Check /\ (x2[1] <=> k1.unit = k2.unit)
      /\ x3 \in Check /\ (x3[1] <=> k1.unit = rec.unit)
  BY <1>6, <1>7, ACheck
<1>9. /\ y1 \in Check /\ (y1[1] <=> (rec.slots = "tuple"))
      /\ y2 \in Check /\ (y2[1] <=> (\A i \in {1, 2} : IsScalar(g[rec.kids[i]])))
      /\ y3 \in Check /\ (y3[1] <=> (MayMatch(k1.unit, k2.unit)))
  BY <1>6, <1>7, ACheck
<1> HIDE DEF x0, x1, x2, x3, y1, y2, y3
<1>10. FirstFailure(<< x0 >> \o << x1, x2, x3 >>) = Pass
        <=> x0[1] /\ x1[1] /\ x2[1] /\ x3[1]
  BY <1>8, After1Pass3
<1>11. FirstFailure(<< y1, y2, y3 >>) = Pass <=> y1[1] /\ y2[1] /\ y3[1]
  BY <1>9, Passes3
<1>12. QED
  BY <1>3, <1>4, <1>5, <1>8, <1>9, <1>10, <1>11

LEMMA MultiplyRules ==
  ASSUME NEW g, NEW n, g[n].type = "Multiply"
  PROVE  /\ NodeError(g, n) = Pass <=>
               /\ g[n].unit \in ValidUnits
               /\ IsScalar(g[g[n].kids[1]]) /\ IsScalar(g[g[n].kids[2]])
               /\ ~(IsMoney(g[g[n].kids[1]].unit) /\ IsMoney(g[g[n].kids[2]].unit))
               /\ MultiplyUnit(g[g[n].kids[1]].unit, g[g[n].kids[2]].unit) = g[n].unit
         /\ \A instance \in BOOLEAN :
             FirstFailure(ConstructorChecks(g, g[n], instance)) = Pass <=>
                 /\ g[n].slots = "tuple"
                 /\ IsScalar(g[g[n].kids[1]]) /\ IsScalar(g[g[n].kids[2]])
                 /\ MultiplyUnit(g[g[n].kids[1]].unit, g[g[n].kids[2]].unit) # "none"
<1> SUFFICES ASSUME NEW instance \in BOOLEAN
             PROVE  /\ NodeError(g, n) = Pass <=>
                          /\ g[n].unit \in ValidUnits
                          /\ IsScalar(g[g[n].kids[1]]) /\ IsScalar(g[g[n].kids[2]])
                          /\ ~(IsMoney(g[g[n].kids[1]].unit) /\ IsMoney(g[g[n].kids[2]].unit))
                          /\ MultiplyUnit(g[g[n].kids[1]].unit, g[g[n].kids[2]].unit) = g[n].unit
                    /\ FirstFailure(ConstructorChecks(g, g[n], instance)) = Pass <=>
                          /\ g[n].slots = "tuple"
                          /\ IsScalar(g[g[n].kids[1]]) /\ IsScalar(g[g[n].kids[2]])
                          /\ MultiplyUnit(g[g[n].kids[1]].unit, g[g[n].kids[2]].unit) # "none"
  OBVIOUS
<1> DEFINE rec == g[n]
           k1 == g[rec.kids[1]]
           k2 == g[rec.kids[2]]
           x0 == <<rec.unit \in ValidUnits, Invalid>>
           x1 == <<IsScalar(k1) /\ IsScalar(k2), Invalid>>
           x2 == <<~(IsMoney(k1.unit) /\ IsMoney(k2.unit)), InvalidNoPath>>
           x3 == <<MultiplyUnit(k1.unit, k2.unit) = rec.unit, Invalid>>
           y1 == <<rec.slots = "tuple", Mismatch>>
           y2 == <<\A i \in {1, 2} : IsScalar(g[rec.kids[i]]), Mismatch>>
           y3 == <<MultiplyUnit(k1.unit, k2.unit) # "none", Input>>
<1>1. /\ rec.type \in ScalarTypes
      /\ rec.type \notin BooleanTypes
      /\ rec.type \notin ContractTypes
      /\ rec.type \notin {"Number", "Observable"}
      /\ rec.type \notin {"Add", "Maximum", "Minimum"}
      /\ rec.type # "Subtract"
      /\ rec.type = "Multiply"
      /\ rec.type # "Divide"
      /\ rec.type # "Negate"
      /\ rec.type # "ConditionalValue"
  BY DEF ScalarTypes, BooleanTypes, ContractTypes
<1>2. /\ rec.type \notin {"Number", "Observable", "BooleanConstant"}
      /\ rec.type \notin {"Add", "Maximum", "Minimum"}
      /\ rec.type \notin {"AllOf", "AnyOf"}
      /\ rec.type # "Both"
      /\ rec.type # "Subtract"
      /\ rec.type = "Multiply"
      /\ rec.type # "Divide"
      /\ rec.type # "Negate"
      /\ rec.type # "ConditionalValue"
      /\ rec.type # "Comparison"
      /\ rec.type # "Not"
      /\ rec.type # "Zero"
      /\ rec.type # "Payment"
      /\ rec.type # "Scale"
      /\ rec.type # "ConditionalContract"
  OBVIOUS
<1>3. ScalarChecks(g, rec) = << x1, x2, x3 >>
  BY <1>1, Zenon DEF ScalarChecks
<1>4. NodeError(g, n) = FirstFailure(<< x0 >> \o ScalarChecks(g, rec))
  BY <1>1, Zenon DEF NodeError
<1>5. ConstructorChecks(g, rec, instance) = << y1, y2, y3 >>
  BY <1>2, Zenon DEF ConstructorChecks
<1>6. /\ Invalid \in Failing /\ InvalidNoPath \in Failing
      /\ Mismatch \in Failing /\ Input \in Failing
  BY DEF Failing
<1>7. /\ (rec.unit \in ValidUnits) \in BOOLEAN
      /\ (IsScalar(k1) /\ IsScalar(k2)) \in BOOLEAN
      /\ (~(IsMoney(k1.unit) /\ IsMoney(k2.unit))) \in BOOLEAN
      /\ (MultiplyUnit(k1.unit, k2.unit) = rec.unit) \in BOOLEAN
      /\ (rec.slots = "tuple") \in BOOLEAN
      /\ (\A i \in {1, 2} : IsScalar(g[rec.kids[i]])) \in BOOLEAN
      /\ (MultiplyUnit(k1.unit, k2.unit) # "none") \in BOOLEAN
  BY DEF IsScalar, IsBoolean, IsContract, IsMoney, MayMatch, MayBeMoney, MayBeScalar
<1>8. /\ x0 \in Check /\ (x0[1] <=> rec.unit \in ValidUnits)
      /\ x1 \in Check /\ (x1[1] <=> IsScalar(k1) /\ IsScalar(k2))
      /\ x2 \in Check /\ (x2[1] <=> ~(IsMoney(k1.unit) /\ IsMoney(k2.unit)))
      /\ x3 \in Check /\ (x3[1] <=> MultiplyUnit(k1.unit, k2.unit) = rec.unit)
  BY <1>6, <1>7, ACheck
<1>9. /\ y1 \in Check /\ (y1[1] <=> (rec.slots = "tuple"))
      /\ y2 \in Check /\ (y2[1] <=> (\A i \in {1, 2} : IsScalar(g[rec.kids[i]])))
      /\ y3 \in Check /\ (y3[1] <=> (MultiplyUnit(k1.unit, k2.unit) # "none"))
  BY <1>6, <1>7, ACheck
<1> HIDE DEF x0, x1, x2, x3, y1, y2, y3
<1>10. FirstFailure(<< x0 >> \o << x1, x2, x3 >>) = Pass
        <=> x0[1] /\ x1[1] /\ x2[1] /\ x3[1]
  BY <1>8, After1Pass3
<1>11. FirstFailure(<< y1, y2, y3 >>) = Pass <=> y1[1] /\ y2[1] /\ y3[1]
  BY <1>9, Passes3
<1>12. QED
  BY <1>3, <1>4, <1>5, <1>8, <1>9, <1>10, <1>11

LEMMA DivideRules ==
  ASSUME NEW g, NEW n, g[n].type = "Divide"
  PROVE  /\ NodeError(g, n) = Pass <=>
               /\ g[n].unit \in ValidUnits
               /\ IsScalar(g[g[n].kids[1]]) /\ IsScalar(g[g[n].kids[2]])
               /\ g[g[n].kids[2]].unit = "scalar"
               /\ ~(g[g[n].kids[2]].type = "Number" /\ g[g[n].kids[2]].val = 0)
               /\ g[g[n].kids[1]].unit = g[n].unit
         /\ \A instance \in BOOLEAN :
             FirstFailure(ConstructorChecks(g, g[n], instance)) = Pass <=>
                 /\ g[n].slots = "tuple"
                 /\ IsScalar(g[g[n].kids[1]]) /\ IsScalar(g[g[n].kids[2]])
                 /\ MayBeScalar(g[g[n].kids[2]].unit)
                 /\ (g[g[n].kids[2]].type = "Number" /\ g[g[n].kids[2]].sound => g[g[n].kids[2]].val # 0)
<1> SUFFICES ASSUME NEW instance \in BOOLEAN
             PROVE  /\ NodeError(g, n) = Pass <=>
                          /\ g[n].unit \in ValidUnits
                          /\ IsScalar(g[g[n].kids[1]]) /\ IsScalar(g[g[n].kids[2]])
                          /\ g[g[n].kids[2]].unit = "scalar"
                          /\ ~(g[g[n].kids[2]].type = "Number" /\ g[g[n].kids[2]].val = 0)
                          /\ g[g[n].kids[1]].unit = g[n].unit
                    /\ FirstFailure(ConstructorChecks(g, g[n], instance)) = Pass <=>
                          /\ g[n].slots = "tuple"
                          /\ IsScalar(g[g[n].kids[1]]) /\ IsScalar(g[g[n].kids[2]])
                          /\ MayBeScalar(g[g[n].kids[2]].unit)
                          /\ (g[g[n].kids[2]].type = "Number" /\ g[g[n].kids[2]].sound => g[g[n].kids[2]].val # 0)
  OBVIOUS
<1> DEFINE rec == g[n]
           k1 == g[rec.kids[1]]
           k2 == g[rec.kids[2]]
           x0 == <<rec.unit \in ValidUnits, Invalid>>
           x1 == <<IsScalar(k1) /\ IsScalar(k2), Invalid>>
           x2 == <<k2.unit = "scalar", Invalid>>
           x3 == <<~(k2.type = "Number" /\ k2.val = 0), Invalid>>
           x4 == <<k1.unit = rec.unit, Invalid>>
           y1 == <<rec.slots = "tuple", Mismatch>>
           y2 == <<\A i \in {1, 2} : IsScalar(g[rec.kids[i]]), Mismatch>>
           y3 == <<MayBeScalar(k2.unit), Input>>
           y4 == <<k2.type = "Number" /\ k2.sound => k2.val # 0, Input>>
<1>1. /\ rec.type \in ScalarTypes
      /\ rec.type \notin BooleanTypes
      /\ rec.type \notin ContractTypes
      /\ rec.type \notin {"Number", "Observable"}
      /\ rec.type \notin {"Add", "Maximum", "Minimum"}
      /\ rec.type # "Subtract"
      /\ rec.type # "Multiply"
      /\ rec.type = "Divide"
      /\ rec.type # "Negate"
      /\ rec.type # "ConditionalValue"
  BY DEF ScalarTypes, BooleanTypes, ContractTypes
<1>2. /\ rec.type \notin {"Number", "Observable", "BooleanConstant"}
      /\ rec.type \notin {"Add", "Maximum", "Minimum"}
      /\ rec.type \notin {"AllOf", "AnyOf"}
      /\ rec.type # "Both"
      /\ rec.type # "Subtract"
      /\ rec.type # "Multiply"
      /\ rec.type = "Divide"
      /\ rec.type # "Negate"
      /\ rec.type # "ConditionalValue"
      /\ rec.type # "Comparison"
      /\ rec.type # "Not"
      /\ rec.type # "Zero"
      /\ rec.type # "Payment"
      /\ rec.type # "Scale"
      /\ rec.type # "ConditionalContract"
  OBVIOUS
<1>3. ScalarChecks(g, rec) = << x1, x2, x3, x4 >>
  BY <1>1, Zenon DEF ScalarChecks
<1>4. NodeError(g, n) = FirstFailure(<< x0 >> \o ScalarChecks(g, rec))
  BY <1>1, Zenon DEF NodeError
<1>5. ConstructorChecks(g, rec, instance) = << y1, y2, y3, y4 >>
  BY <1>2, Zenon DEF ConstructorChecks
<1>6. /\ Invalid \in Failing /\ InvalidNoPath \in Failing
      /\ Mismatch \in Failing /\ Input \in Failing
  BY DEF Failing
<1>7. /\ (rec.unit \in ValidUnits) \in BOOLEAN
      /\ (IsScalar(k1) /\ IsScalar(k2)) \in BOOLEAN
      /\ (k2.unit = "scalar") \in BOOLEAN
      /\ (MayBeScalar(k2.unit)) \in BOOLEAN
      /\ (~(k2.type = "Number" /\ k2.val = 0)) \in BOOLEAN
      /\ (k1.unit = rec.unit) \in BOOLEAN
      /\ (rec.slots = "tuple") \in BOOLEAN
      /\ (\A i \in {1, 2} : IsScalar(g[rec.kids[i]])) \in BOOLEAN
      /\ (k2.unit = "scalar") \in BOOLEAN
      /\ (MayBeScalar(k2.unit)) \in BOOLEAN
      /\ (k2.type = "Number" => k2.val # 0) \in BOOLEAN
      /\ (k2.type = "Number" /\ k2.sound => k2.val # 0) \in BOOLEAN
  BY DEF IsScalar, IsBoolean, IsContract, IsMoney, MayMatch, MayBeMoney, MayBeScalar
<1>8. /\ x0 \in Check /\ (x0[1] <=> rec.unit \in ValidUnits)
      /\ x1 \in Check /\ (x1[1] <=> IsScalar(k1) /\ IsScalar(k2))
      /\ x2 \in Check /\ (x2[1] <=> k2.unit = "scalar")
      /\ x3 \in Check /\ (x3[1] <=> ~(k2.type = "Number" /\ k2.val = 0))
      /\ x4 \in Check /\ (x4[1] <=> k1.unit = rec.unit)
  BY <1>6, <1>7, ACheck
<1>9. /\ y1 \in Check /\ (y1[1] <=> (rec.slots = "tuple"))
      /\ y2 \in Check /\ (y2[1] <=> (\A i \in {1, 2} : IsScalar(g[rec.kids[i]])))
      /\ y3 \in Check /\ (y3[1] <=> (MayBeScalar(k2.unit)))
      /\ y4 \in Check /\ (y4[1] <=> (k2.type = "Number" /\ k2.sound => k2.val # 0))
  BY <1>6, <1>7, ACheck
<1> HIDE DEF x0, x1, x2, x3, x4, y1, y2, y3, y4
<1>10. FirstFailure(<< x0 >> \o << x1, x2, x3, x4 >>) = Pass
        <=> x0[1] /\ x1[1] /\ x2[1] /\ x3[1] /\ x4[1]
  BY <1>8, After1Pass4
<1>11. FirstFailure(<< y1, y2, y3, y4 >>) = Pass <=> y1[1] /\ y2[1] /\ y3[1] /\ y4[1]
  BY <1>9, Passes4
<1>12. QED
  BY <1>3, <1>4, <1>5, <1>8, <1>9, <1>10, <1>11

LEMMA NegateRules ==
  ASSUME NEW g, NEW n, g[n].type = "Negate"
  PROVE  /\ NodeError(g, n) = Pass <=>
               /\ g[n].unit \in ValidUnits
               /\ IsScalar(g[g[n].kids[1]])
               /\ g[g[n].kids[1]].unit = g[n].unit
         /\ \A instance \in BOOLEAN :
             FirstFailure(ConstructorChecks(g, g[n], instance)) = Pass <=>
                 /\ g[n].slots = "tuple"
                 /\ IsScalar(g[g[n].kids[1]])
<1> SUFFICES ASSUME NEW instance \in BOOLEAN
             PROVE  /\ NodeError(g, n) = Pass <=>
                          /\ g[n].unit \in ValidUnits
                          /\ IsScalar(g[g[n].kids[1]])
                          /\ g[g[n].kids[1]].unit = g[n].unit
                    /\ FirstFailure(ConstructorChecks(g, g[n], instance)) = Pass <=>
                          /\ g[n].slots = "tuple"
                          /\ IsScalar(g[g[n].kids[1]])
  OBVIOUS
<1> DEFINE rec == g[n]
           k1 == g[rec.kids[1]]
           x0 == <<rec.unit \in ValidUnits, Invalid>>
           x1 == <<IsScalar(k1), Invalid>>
           x2 == <<k1.unit = rec.unit, Invalid>>
           y1 == <<rec.slots = "tuple", Mismatch>>
           y2 == <<\A i \in {1} : IsScalar(g[rec.kids[i]]), Mismatch>>
<1>1. /\ rec.type \in ScalarTypes
      /\ rec.type \notin BooleanTypes
      /\ rec.type \notin ContractTypes
      /\ rec.type \notin {"Number", "Observable"}
      /\ rec.type \notin {"Add", "Maximum", "Minimum"}
      /\ rec.type # "Subtract"
      /\ rec.type # "Multiply"
      /\ rec.type # "Divide"
      /\ rec.type = "Negate"
      /\ rec.type # "ConditionalValue"
  BY DEF ScalarTypes, BooleanTypes, ContractTypes
<1>2. /\ rec.type \notin {"Number", "Observable", "BooleanConstant"}
      /\ rec.type \notin {"Add", "Maximum", "Minimum"}
      /\ rec.type \notin {"AllOf", "AnyOf"}
      /\ rec.type # "Both"
      /\ rec.type # "Subtract"
      /\ rec.type # "Multiply"
      /\ rec.type # "Divide"
      /\ rec.type = "Negate"
      /\ rec.type # "ConditionalValue"
      /\ rec.type # "Comparison"
      /\ rec.type # "Not"
      /\ rec.type # "Zero"
      /\ rec.type # "Payment"
      /\ rec.type # "Scale"
      /\ rec.type # "ConditionalContract"
  OBVIOUS
<1>3. ScalarChecks(g, rec) = << x1, x2 >>
  BY <1>1, Zenon DEF ScalarChecks
<1>4. NodeError(g, n) = FirstFailure(<< x0 >> \o ScalarChecks(g, rec))
  BY <1>1, Zenon DEF NodeError
<1>5. ConstructorChecks(g, rec, instance) = << y1, y2 >>
  BY <1>2, Zenon DEF ConstructorChecks
<1>6. /\ Invalid \in Failing /\ InvalidNoPath \in Failing
      /\ Mismatch \in Failing /\ Input \in Failing
  BY DEF Failing
<1>7. /\ (rec.unit \in ValidUnits) \in BOOLEAN
      /\ IsScalar(k1) \in BOOLEAN
      /\ (k1.unit = rec.unit) \in BOOLEAN
      /\ (rec.slots = "tuple") \in BOOLEAN
      /\ (\A i \in {1} : IsScalar(g[rec.kids[i]])) \in BOOLEAN
  BY DEF IsScalar, IsBoolean, IsContract, IsMoney, MayMatch, MayBeMoney, MayBeScalar
<1>8. /\ x0 \in Check /\ (x0[1] <=> rec.unit \in ValidUnits)
      /\ x1 \in Check /\ (x1[1] <=> IsScalar(k1))
      /\ x2 \in Check /\ (x2[1] <=> k1.unit = rec.unit)
  BY <1>6, <1>7, ACheck
<1>9. /\ y1 \in Check /\ (y1[1] <=> (rec.slots = "tuple"))
      /\ y2 \in Check /\ (y2[1] <=> (\A i \in {1} : IsScalar(g[rec.kids[i]])))
  BY <1>6, <1>7, ACheck
<1> HIDE DEF x0, x1, x2, y1, y2
<1>10. FirstFailure(<< x0 >> \o << x1, x2 >>) = Pass
        <=> x0[1] /\ x1[1] /\ x2[1]
  BY <1>8, After1Pass2
<1>11. FirstFailure(<< y1, y2 >>) = Pass <=> y1[1] /\ y2[1]
  BY <1>9, Passes2
<1>12. QED
  BY <1>3, <1>4, <1>5, <1>8, <1>9, <1>10, <1>11

LEMMA ConditionalValueRules ==
  ASSUME NEW g, NEW n, g[n].type = "ConditionalValue"
  PROVE  /\ NodeError(g, n) = Pass <=>
               /\ g[n].unit \in ValidUnits
               /\ IsBoolean(g[g[n].kids[1]])
               /\ IsScalar(g[g[n].kids[2]]) /\ IsScalar(g[g[n].kids[3]])
               /\ g[g[n].kids[2]].unit = g[g[n].kids[3]].unit
               /\ g[g[n].kids[2]].unit = g[n].unit
         /\ \A instance \in BOOLEAN :
             FirstFailure(ConstructorChecks(g, g[n], instance)) = Pass <=>
                 /\ g[n].slots = "tuple"
                 /\ IsBoolean(g[g[n].kids[1]])
                 /\ IsScalar(g[g[n].kids[2]]) /\ IsScalar(g[g[n].kids[3]])
                 /\ MayMatch(g[g[n].kids[2]].unit, g[g[n].kids[3]].unit)
<1> SUFFICES ASSUME NEW instance \in BOOLEAN
             PROVE  /\ NodeError(g, n) = Pass <=>
                          /\ g[n].unit \in ValidUnits
                          /\ IsBoolean(g[g[n].kids[1]])
                          /\ IsScalar(g[g[n].kids[2]]) /\ IsScalar(g[g[n].kids[3]])
                          /\ g[g[n].kids[2]].unit = g[g[n].kids[3]].unit
                          /\ g[g[n].kids[2]].unit = g[n].unit
                    /\ FirstFailure(ConstructorChecks(g, g[n], instance)) = Pass <=>
                          /\ g[n].slots = "tuple"
                          /\ IsBoolean(g[g[n].kids[1]])
                          /\ IsScalar(g[g[n].kids[2]]) /\ IsScalar(g[g[n].kids[3]])
                          /\ MayMatch(g[g[n].kids[2]].unit, g[g[n].kids[3]].unit)
  OBVIOUS
<1> DEFINE rec == g[n]
           k1 == g[rec.kids[1]]
           k2 == g[rec.kids[2]]
           k3 == g[rec.kids[3]]
           x0 == <<rec.unit \in ValidUnits, Invalid>>
           x1 == <<IsBoolean(k1), Invalid>>
           x2 == <<IsScalar(k2) /\ IsScalar(k3), Invalid>>
           x3 == <<k2.unit = k3.unit, Invalid>>
           x4 == <<k2.unit = rec.unit, Invalid>>
           y1 == <<rec.slots = "tuple", Mismatch>>
           y2 == <<IsBoolean(k1), Mismatch>>
           y3 == <<\A i \in {2, 3} : IsScalar(g[rec.kids[i]]), Mismatch>>
           y4 == <<MayMatch(k2.unit, k3.unit), Input>>
<1>1. /\ rec.type \in ScalarTypes
      /\ rec.type \notin BooleanTypes
      /\ rec.type \notin ContractTypes
      /\ rec.type \notin {"Number", "Observable"}
      /\ rec.type \notin {"Add", "Maximum", "Minimum"}
      /\ rec.type # "Subtract"
      /\ rec.type # "Multiply"
      /\ rec.type # "Divide"
      /\ rec.type # "Negate"
      /\ rec.type = "ConditionalValue"
  BY DEF ScalarTypes, BooleanTypes, ContractTypes
<1>2. /\ rec.type \notin {"Number", "Observable", "BooleanConstant"}
      /\ rec.type \notin {"Add", "Maximum", "Minimum"}
      /\ rec.type \notin {"AllOf", "AnyOf"}
      /\ rec.type # "Both"
      /\ rec.type # "Subtract"
      /\ rec.type # "Multiply"
      /\ rec.type # "Divide"
      /\ rec.type # "Negate"
      /\ rec.type = "ConditionalValue"
      /\ rec.type # "Comparison"
      /\ rec.type # "Not"
      /\ rec.type # "Zero"
      /\ rec.type # "Payment"
      /\ rec.type # "Scale"
      /\ rec.type # "ConditionalContract"
  OBVIOUS
<1>3. ScalarChecks(g, rec) = << x1, x2, x3, x4 >>
  BY <1>1, Zenon DEF ScalarChecks
<1>4. NodeError(g, n) = FirstFailure(<< x0 >> \o ScalarChecks(g, rec))
  BY <1>1, Zenon DEF NodeError
<1>5. ConstructorChecks(g, rec, instance) = << y1, y2, y3, y4 >>
  BY <1>2, Zenon DEF ConstructorChecks
<1>6. /\ Invalid \in Failing /\ InvalidNoPath \in Failing
      /\ Mismatch \in Failing /\ Input \in Failing
  BY DEF Failing
<1>7. /\ (rec.unit \in ValidUnits) \in BOOLEAN
      /\ IsBoolean(k1) \in BOOLEAN
      /\ (IsScalar(k2) /\ IsScalar(k3)) \in BOOLEAN
      /\ (k2.unit = k3.unit) \in BOOLEAN
      /\ (MayMatch(k2.unit, k3.unit)) \in BOOLEAN
      /\ (k2.unit = rec.unit) \in BOOLEAN
      /\ (rec.slots = "tuple") \in BOOLEAN
      /\ IsBoolean(k1) \in BOOLEAN
      /\ (\A i \in {2, 3} : IsScalar(g[rec.kids[i]])) \in BOOLEAN
      /\ (k2.unit = k3.unit) \in BOOLEAN
      /\ (MayMatch(k2.unit, k3.unit)) \in BOOLEAN
  BY DEF IsScalar, IsBoolean, IsContract, IsMoney, MayMatch, MayBeMoney, MayBeScalar
<1>8. /\ x0 \in Check /\ (x0[1] <=> rec.unit \in ValidUnits)
      /\ x1 \in Check /\ (x1[1] <=> IsBoolean(k1))
      /\ x2 \in Check /\ (x2[1] <=> IsScalar(k2) /\ IsScalar(k3))
      /\ x3 \in Check /\ (x3[1] <=> k2.unit = k3.unit)
      /\ x4 \in Check /\ (x4[1] <=> k2.unit = rec.unit)
  BY <1>6, <1>7, ACheck
<1>9. /\ y1 \in Check /\ (y1[1] <=> (rec.slots = "tuple"))
      /\ y2 \in Check /\ (y2[1] <=> IsBoolean(k1))
      /\ y3 \in Check /\ (y3[1] <=> (\A i \in {2, 3} : IsScalar(g[rec.kids[i]])))
      /\ y4 \in Check /\ (y4[1] <=> (MayMatch(k2.unit, k3.unit)))
  BY <1>6, <1>7, ACheck
<1> HIDE DEF x0, x1, x2, x3, x4, y1, y2, y3, y4
<1>10. FirstFailure(<< x0 >> \o << x1, x2, x3, x4 >>) = Pass
        <=> x0[1] /\ x1[1] /\ x2[1] /\ x3[1] /\ x4[1]
  BY <1>8, After1Pass4
<1>11. FirstFailure(<< y1, y2, y3, y4 >>) = Pass <=> y1[1] /\ y2[1] /\ y3[1] /\ y4[1]
  BY <1>9, Passes4
<1>12. QED
  BY <1>3, <1>4, <1>5, <1>8, <1>9, <1>10, <1>11

LEMMA BooleanConstantRules ==
  ASSUME NEW g, NEW n, g[n].type = "BooleanConstant", g[n].sound \in BOOLEAN
  PROVE  /\ NodeError(g, n) = Pass <=>
               /\ g[n].sound
         /\ \A instance \in BOOLEAN :
             FirstFailure(ConstructorChecks(g, g[n], instance)) = Pass <=>
                 /\ instance
<1> SUFFICES ASSUME NEW instance \in BOOLEAN
             PROVE  /\ NodeError(g, n) = Pass <=>
                          /\ g[n].sound
                    /\ FirstFailure(ConstructorChecks(g, g[n], instance)) = Pass <=>
                          /\ instance
  OBVIOUS
<1> DEFINE rec == g[n]
           x1 == <<rec.sound, Invalid>>
           y1 == <<instance, Mismatch>>
<1>1. /\ rec.type \notin ScalarTypes
      /\ rec.type \in BooleanTypes
      /\ rec.type \notin ContractTypes
      /\ rec.type = "BooleanConstant"
      /\ rec.type # "Comparison"
      /\ rec.type \notin {"AllOf", "AnyOf"}
      /\ rec.type # "Not"
  BY DEF ScalarTypes, BooleanTypes, ContractTypes
<1>2. /\ rec.type \in {"Number", "Observable", "BooleanConstant"}
      /\ rec.type \notin {"Add", "Maximum", "Minimum"}
      /\ rec.type \notin {"AllOf", "AnyOf"}
      /\ rec.type # "Both"
      /\ rec.type # "Subtract"
      /\ rec.type # "Multiply"
      /\ rec.type # "Divide"
      /\ rec.type # "Negate"
      /\ rec.type # "ConditionalValue"
      /\ rec.type # "Comparison"
      /\ rec.type # "Not"
      /\ rec.type # "Zero"
      /\ rec.type # "Payment"
      /\ rec.type # "Scale"
      /\ rec.type # "ConditionalContract"
  OBVIOUS
<1>3. BooleanChecks(g, rec) = << x1 >>
  BY <1>1, Zenon DEF BooleanChecks
<1>4. NodeError(g, n) = FirstFailure(BooleanChecks(g, rec))
  BY <1>1, Zenon DEF NodeError
<1>5. ConstructorChecks(g, rec, instance) = << y1 >>
  BY <1>2, Zenon DEF ConstructorChecks
<1>6. /\ Invalid \in Failing /\ InvalidNoPath \in Failing
      /\ Mismatch \in Failing /\ Input \in Failing
  BY DEF Failing
<1>7. 
      /\ rec.sound \in BOOLEAN
      /\ instance \in BOOLEAN
  BY DEF IsScalar, IsBoolean, IsContract, IsMoney, MayMatch, MayBeMoney, MayBeScalar
<1>8. /\ x1 \in Check /\ (x1[1] <=> rec.sound)
  BY <1>6, <1>7, ACheck
<1>9. /\ y1 \in Check /\ (y1[1] <=> instance)
  BY <1>6, <1>7, ACheck
<1> HIDE DEF x1, y1
<1>10. FirstFailure(<< x1 >>) = Pass <=> x1[1]
  BY <1>8, Passes1
<1>11. FirstFailure(<< y1 >>) = Pass <=> y1[1]
  BY <1>9, Passes1
<1>12. QED
  BY <1>3, <1>4, <1>5, <1>8, <1>9, <1>10, <1>11

LEMMA ComparisonRules ==
  ASSUME NEW g, NEW n, g[n].type = "Comparison", g[n].sound \in BOOLEAN
  PROVE  /\ NodeError(g, n) = Pass <=>
               /\ IsScalar(g[g[n].kids[1]]) /\ IsScalar(g[g[n].kids[2]])
               /\ g[n].sound
               /\ g[g[n].kids[1]].unit = g[g[n].kids[2]].unit
         /\ \A instance \in BOOLEAN :
             FirstFailure(ConstructorChecks(g, g[n], instance)) = Pass <=>
                 /\ g[n].slots = "tuple"
                 /\ IsScalar(g[g[n].kids[1]]) /\ IsScalar(g[g[n].kids[2]])
                 /\ instance
                 /\ MayMatch(g[g[n].kids[1]].unit, g[g[n].kids[2]].unit)
<1> SUFFICES ASSUME NEW instance \in BOOLEAN
             PROVE  /\ NodeError(g, n) = Pass <=>
                          /\ IsScalar(g[g[n].kids[1]]) /\ IsScalar(g[g[n].kids[2]])
                          /\ g[n].sound
                          /\ g[g[n].kids[1]].unit = g[g[n].kids[2]].unit
                    /\ FirstFailure(ConstructorChecks(g, g[n], instance)) = Pass <=>
                          /\ g[n].slots = "tuple"
                          /\ IsScalar(g[g[n].kids[1]]) /\ IsScalar(g[g[n].kids[2]])
                          /\ instance
                          /\ MayMatch(g[g[n].kids[1]].unit, g[g[n].kids[2]].unit)
  OBVIOUS
<1> DEFINE rec == g[n]
           k1 == g[rec.kids[1]]
           k2 == g[rec.kids[2]]
           x1 == <<IsScalar(k1) /\ IsScalar(k2), Invalid>>
           x2 == <<rec.sound, Invalid>>
           x3 == <<k1.unit = k2.unit, Invalid>>
           y1 == <<rec.slots = "tuple", Mismatch>>
           y2 == <<\A i \in {1, 2} : IsScalar(g[rec.kids[i]]), Mismatch>>
           y3 == <<instance, Mismatch>>
           y4 == <<MayMatch(k1.unit, k2.unit), Input>>
<1>1. /\ rec.type \notin ScalarTypes
      /\ rec.type \in BooleanTypes
      /\ rec.type \notin ContractTypes
      /\ rec.type # "BooleanConstant"
      /\ rec.type = "Comparison"
      /\ rec.type \notin {"AllOf", "AnyOf"}
      /\ rec.type # "Not"
  BY DEF ScalarTypes, BooleanTypes, ContractTypes
<1>2. /\ rec.type \notin {"Number", "Observable", "BooleanConstant"}
      /\ rec.type \notin {"Add", "Maximum", "Minimum"}
      /\ rec.type \notin {"AllOf", "AnyOf"}
      /\ rec.type # "Both"
      /\ rec.type # "Subtract"
      /\ rec.type # "Multiply"
      /\ rec.type # "Divide"
      /\ rec.type # "Negate"
      /\ rec.type # "ConditionalValue"
      /\ rec.type = "Comparison"
      /\ rec.type # "Not"
      /\ rec.type # "Zero"
      /\ rec.type # "Payment"
      /\ rec.type # "Scale"
      /\ rec.type # "ConditionalContract"
  OBVIOUS
<1>3. BooleanChecks(g, rec) = << x1, x2, x3 >>
  BY <1>1, Zenon DEF BooleanChecks
<1>4. NodeError(g, n) = FirstFailure(BooleanChecks(g, rec))
  BY <1>1, Zenon DEF NodeError
<1>5. ConstructorChecks(g, rec, instance) = << y1, y2, y3, y4 >>
  BY <1>2, Zenon DEF ConstructorChecks
<1>6. /\ Invalid \in Failing /\ InvalidNoPath \in Failing
      /\ Mismatch \in Failing /\ Input \in Failing
  BY DEF Failing
<1>7. /\ (IsScalar(k1) /\ IsScalar(k2)) \in BOOLEAN
      /\ (k1.unit = k2.unit) \in BOOLEAN
      /\ (MayMatch(k1.unit, k2.unit)) \in BOOLEAN
      /\ (rec.slots = "tuple") \in BOOLEAN
      /\ (\A i \in {1, 2} : IsScalar(g[rec.kids[i]])) \in BOOLEAN
      /\ (k1.unit = k2.unit) \in BOOLEAN
      /\ (MayMatch(k1.unit, k2.unit)) \in BOOLEAN
      /\ rec.sound \in BOOLEAN
      /\ instance \in BOOLEAN
  BY DEF IsScalar, IsBoolean, IsContract, IsMoney, MayMatch, MayBeMoney, MayBeScalar
<1>8. /\ x1 \in Check /\ (x1[1] <=> IsScalar(k1) /\ IsScalar(k2))
      /\ x2 \in Check /\ (x2[1] <=> rec.sound)
      /\ x3 \in Check /\ (x3[1] <=> k1.unit = k2.unit)
  BY <1>6, <1>7, ACheck
<1>9. /\ y1 \in Check /\ (y1[1] <=> (rec.slots = "tuple"))
      /\ y2 \in Check /\ (y2[1] <=> (\A i \in {1, 2} : IsScalar(g[rec.kids[i]])))
      /\ y3 \in Check /\ (y3[1] <=> instance)
      /\ y4 \in Check /\ (y4[1] <=> (MayMatch(k1.unit, k2.unit)))
  BY <1>6, <1>7, ACheck
<1> HIDE DEF x1, x2, x3, y1, y2, y3, y4
<1>10. FirstFailure(<< x1, x2, x3 >>) = Pass <=> x1[1] /\ x2[1] /\ x3[1]
  BY <1>8, Passes3
<1>11. FirstFailure(<< y1, y2, y3, y4 >>) = Pass <=> y1[1] /\ y2[1] /\ y3[1] /\ y4[1]
  BY <1>9, Passes4
<1>12. QED
  BY <1>3, <1>4, <1>5, <1>8, <1>9, <1>10, <1>11

LEMMA NotRules ==
  ASSUME NEW g, NEW n, g[n].type = "Not"
  PROVE  /\ NodeError(g, n) = Pass <=>
               /\ IsBoolean(g[g[n].kids[1]])
         /\ \A instance \in BOOLEAN :
             FirstFailure(ConstructorChecks(g, g[n], instance)) = Pass <=>
                 /\ g[n].slots = "tuple"
                 /\ IsBoolean(g[g[n].kids[1]])
<1> SUFFICES ASSUME NEW instance \in BOOLEAN
             PROVE  /\ NodeError(g, n) = Pass <=>
                          /\ IsBoolean(g[g[n].kids[1]])
                    /\ FirstFailure(ConstructorChecks(g, g[n], instance)) = Pass <=>
                          /\ g[n].slots = "tuple"
                          /\ IsBoolean(g[g[n].kids[1]])
  OBVIOUS
<1> DEFINE rec == g[n]
           k1 == g[rec.kids[1]]
           x1 == <<IsBoolean(k1), Invalid>>
           y1 == <<rec.slots = "tuple", Mismatch>>
           y2 == <<IsBoolean(k1), Mismatch>>
<1>1. /\ rec.type \notin ScalarTypes
      /\ rec.type \in BooleanTypes
      /\ rec.type \notin ContractTypes
      /\ rec.type # "BooleanConstant"
      /\ rec.type # "Comparison"
      /\ rec.type \notin {"AllOf", "AnyOf"}
      /\ rec.type = "Not"
  BY DEF ScalarTypes, BooleanTypes, ContractTypes
<1>2. /\ rec.type \notin {"Number", "Observable", "BooleanConstant"}
      /\ rec.type \notin {"Add", "Maximum", "Minimum"}
      /\ rec.type \notin {"AllOf", "AnyOf"}
      /\ rec.type # "Both"
      /\ rec.type # "Subtract"
      /\ rec.type # "Multiply"
      /\ rec.type # "Divide"
      /\ rec.type # "Negate"
      /\ rec.type # "ConditionalValue"
      /\ rec.type # "Comparison"
      /\ rec.type = "Not"
      /\ rec.type # "Zero"
      /\ rec.type # "Payment"
      /\ rec.type # "Scale"
      /\ rec.type # "ConditionalContract"
  OBVIOUS
<1>3. BooleanChecks(g, rec) = << x1 >>
  BY <1>1, Zenon DEF BooleanChecks
<1>4. NodeError(g, n) = FirstFailure(BooleanChecks(g, rec))
  BY <1>1, Zenon DEF NodeError
<1>5. ConstructorChecks(g, rec, instance) = << y1, y2 >>
  BY <1>2, Zenon DEF ConstructorChecks
<1>6. /\ Invalid \in Failing /\ InvalidNoPath \in Failing
      /\ Mismatch \in Failing /\ Input \in Failing
  BY DEF Failing
<1>7. /\ IsBoolean(k1) \in BOOLEAN
      /\ (rec.slots = "tuple") \in BOOLEAN
      /\ IsBoolean(k1) \in BOOLEAN
  BY DEF IsScalar, IsBoolean, IsContract, IsMoney, MayMatch, MayBeMoney, MayBeScalar
<1>8. /\ x1 \in Check /\ (x1[1] <=> IsBoolean(k1))
  BY <1>6, <1>7, ACheck
<1>9. /\ y1 \in Check /\ (y1[1] <=> (rec.slots = "tuple"))
      /\ y2 \in Check /\ (y2[1] <=> IsBoolean(k1))
  BY <1>6, <1>7, ACheck
<1> HIDE DEF x1, y1, y2
<1>10. FirstFailure(<< x1 >>) = Pass <=> x1[1]
  BY <1>8, Passes1
<1>11. FirstFailure(<< y1, y2 >>) = Pass <=> y1[1] /\ y2[1]
  BY <1>9, Passes2
<1>12. QED
  BY <1>3, <1>4, <1>5, <1>8, <1>9, <1>10, <1>11

LEMMA PaymentRules ==
  ASSUME NEW g, NEW n, g[n].type = "Payment", g[n].sound \in BOOLEAN
  PROVE  /\ NodeError(g, n) = Pass <=>
               /\ IsScalar(g[g[n].kids[1]])
               /\ g[g[n].kids[1]].unit \in ValidUnits
               /\ g[n].unit \in Currencies /\ g[n].sound
               /\ IsMoney(g[g[n].kids[1]].unit)
               /\ g[g[n].kids[1]].unit = g[n].unit
         /\ \A instance \in BOOLEAN :
             FirstFailure(ConstructorChecks(g, g[n], instance)) = Pass <=>
                 /\ g[n].slots = "tuple"
                 /\ IsScalar(g[g[n].kids[1]])
                 /\ instance
                 /\ MayBeMoney(g[g[n].kids[1]].unit)
                 /\ MayMatch(g[g[n].kids[1]].unit, g[n].unit)
<1> SUFFICES ASSUME NEW instance \in BOOLEAN
             PROVE  /\ NodeError(g, n) = Pass <=>
                          /\ IsScalar(g[g[n].kids[1]])
                          /\ g[g[n].kids[1]].unit \in ValidUnits
                          /\ g[n].unit \in Currencies /\ g[n].sound
                          /\ IsMoney(g[g[n].kids[1]].unit)
                          /\ g[g[n].kids[1]].unit = g[n].unit
                    /\ FirstFailure(ConstructorChecks(g, g[n], instance)) = Pass <=>
                          /\ g[n].slots = "tuple"
                          /\ IsScalar(g[g[n].kids[1]])
                          /\ instance
                          /\ MayBeMoney(g[g[n].kids[1]].unit)
                          /\ MayMatch(g[g[n].kids[1]].unit, g[n].unit)
  OBVIOUS
<1> DEFINE rec == g[n]
           k1 == g[rec.kids[1]]
           x1 == <<IsScalar(k1), Invalid>>
           x2 == <<k1.unit \in ValidUnits, Invalid>>
           x3 == <<rec.unit \in Currencies /\ rec.sound, Invalid>>
           x4 == <<IsMoney(k1.unit), Invalid>>
           x5 == <<k1.unit = rec.unit, Invalid>>
           y1 == <<rec.slots = "tuple", Mismatch>>
           y2 == <<\A i \in {1} : IsScalar(g[rec.kids[i]]), Mismatch>>
           y3 == <<instance, Mismatch>>
           y4 == <<MayBeMoney(k1.unit), Input>>
           y5 == <<MayMatch(k1.unit, rec.unit), Input>>
<1>1. /\ rec.type \notin ScalarTypes
      /\ rec.type \notin BooleanTypes
      /\ rec.type \in ContractTypes
      /\ rec.type # "Zero"
      /\ rec.type = "Payment"
      /\ rec.type # "Both"
      /\ rec.type # "Scale"
      /\ rec.type # "ConditionalContract"
  BY DEF ScalarTypes, BooleanTypes, ContractTypes
<1>2. /\ rec.type \notin {"Number", "Observable", "BooleanConstant"}
      /\ rec.type \notin {"Add", "Maximum", "Minimum"}
      /\ rec.type \notin {"AllOf", "AnyOf"}
      /\ rec.type # "Both"
      /\ rec.type # "Subtract"
      /\ rec.type # "Multiply"
      /\ rec.type # "Divide"
      /\ rec.type # "Negate"
      /\ rec.type # "ConditionalValue"
      /\ rec.type # "Comparison"
      /\ rec.type # "Not"
      /\ rec.type # "Zero"
      /\ rec.type = "Payment"
      /\ rec.type # "Scale"
      /\ rec.type # "ConditionalContract"
  OBVIOUS
<1>3. ContractChecks(g, rec) = << x1, x2, x3, x4, x5 >>
  BY <1>1, Zenon DEF ContractChecks
<1>4. NodeError(g, n) = FirstFailure(ContractChecks(g, rec))
  BY <1>1, Zenon DEF NodeError
<1>5. ConstructorChecks(g, rec, instance) = << y1, y2, y3, y4, y5 >>
  BY <1>2, Zenon DEF ConstructorChecks
<1>6. /\ Invalid \in Failing /\ InvalidNoPath \in Failing
      /\ Mismatch \in Failing /\ Input \in Failing
  BY DEF Failing
<1>7. /\ IsScalar(k1) \in BOOLEAN
      /\ (k1.unit \in ValidUnits) \in BOOLEAN
      /\ (rec.unit \in Currencies /\ rec.sound) \in BOOLEAN
      /\ (rec.unit \in Currencies /\ instance) \in BOOLEAN
      /\ IsMoney(k1.unit) \in BOOLEAN
      /\ MayBeMoney(k1.unit) \in BOOLEAN
      /\ (k1.unit = rec.unit) \in BOOLEAN
      /\ (MayMatch(k1.unit, rec.unit)) \in BOOLEAN
      /\ (rec.slots = "tuple") \in BOOLEAN
      /\ (\A i \in {1} : IsScalar(g[rec.kids[i]])) \in BOOLEAN
      /\ IsMoney(k1.unit) \in BOOLEAN
      /\ MayBeMoney(k1.unit) \in BOOLEAN
      /\ (k1.unit = rec.unit) \in BOOLEAN
      /\ (MayMatch(k1.unit, rec.unit)) \in BOOLEAN
      /\ rec.sound \in BOOLEAN
      /\ instance \in BOOLEAN
  BY DEF IsScalar, IsBoolean, IsContract, IsMoney, MayMatch, MayBeMoney, MayBeScalar
<1>8. /\ x1 \in Check /\ (x1[1] <=> IsScalar(k1))
      /\ x2 \in Check /\ (x2[1] <=> k1.unit \in ValidUnits)
      /\ x3 \in Check /\ (x3[1] <=> rec.unit \in Currencies /\ rec.sound)
      /\ x4 \in Check /\ (x4[1] <=> IsMoney(k1.unit))
      /\ x5 \in Check /\ (x5[1] <=> k1.unit = rec.unit)
  BY <1>6, <1>7, ACheck
<1>9. /\ y1 \in Check /\ (y1[1] <=> (rec.slots = "tuple"))
      /\ y2 \in Check /\ (y2[1] <=> (\A i \in {1} : IsScalar(g[rec.kids[i]])))
      /\ y3 \in Check /\ (y3[1] <=> instance)
      /\ y4 \in Check /\ (y4[1] <=> MayBeMoney(k1.unit))
      /\ y5 \in Check /\ (y5[1] <=> (MayMatch(k1.unit, rec.unit)))
  BY <1>6, <1>7, ACheck
<1> HIDE DEF x1, x2, x3, x4, x5, y1, y2, y3, y4, y5
<1>10. FirstFailure(<< x1, x2, x3, x4, x5 >>) = Pass <=> x1[1] /\ x2[1] /\ x3[1] /\ x4[1] /\ x5[1]
  BY <1>8, Passes5
<1>11. FirstFailure(<< y1, y2, y3, y4, y5 >>) = Pass <=> y1[1] /\ y2[1] /\ y3[1] /\ y4[1] /\ y5[1]
  BY <1>9, Passes5
<1>12. QED
  BY <1>3, <1>4, <1>5, <1>8, <1>9, <1>10, <1>11

LEMMA ScaleRules ==
  ASSUME NEW g, NEW n, g[n].type = "Scale"
  PROVE  /\ NodeError(g, n) = Pass <=>
               /\ IsScalar(g[g[n].kids[1]])
               /\ IsContract(g[g[n].kids[2]])
               /\ g[g[n].kids[1]].unit = "scalar"
         /\ \A instance \in BOOLEAN :
             FirstFailure(ConstructorChecks(g, g[n], instance)) = Pass <=>
                 /\ g[n].slots = "tuple"
                 /\ IsScalar(g[g[n].kids[1]])
                 /\ IsContract(g[g[n].kids[2]])
                 /\ MayBeScalar(g[g[n].kids[1]].unit)
<1> SUFFICES ASSUME NEW instance \in BOOLEAN
             PROVE  /\ NodeError(g, n) = Pass <=>
                          /\ IsScalar(g[g[n].kids[1]])
                          /\ IsContract(g[g[n].kids[2]])
                          /\ g[g[n].kids[1]].unit = "scalar"
                    /\ FirstFailure(ConstructorChecks(g, g[n], instance)) = Pass <=>
                          /\ g[n].slots = "tuple"
                          /\ IsScalar(g[g[n].kids[1]])
                          /\ IsContract(g[g[n].kids[2]])
                          /\ MayBeScalar(g[g[n].kids[1]].unit)
  OBVIOUS
<1> DEFINE rec == g[n]
           k1 == g[rec.kids[1]]
           k2 == g[rec.kids[2]]
           x1 == <<IsScalar(k1), Invalid>>
           x2 == <<IsContract(k2), Invalid>>
           x3 == <<k1.unit = "scalar", Invalid>>
           y1 == <<rec.slots = "tuple", Mismatch>>
           y2 == <<\A i \in {1} : IsScalar(g[rec.kids[i]]), Mismatch>>
           y3 == <<\A i \in {2} : IsContract(g[rec.kids[i]]), Mismatch>>
           y4 == <<MayBeScalar(k1.unit), Input>>
<1>1. /\ rec.type \notin ScalarTypes
      /\ rec.type \notin BooleanTypes
      /\ rec.type \in ContractTypes
      /\ rec.type # "Zero"
      /\ rec.type # "Payment"
      /\ rec.type # "Both"
      /\ rec.type = "Scale"
      /\ rec.type # "ConditionalContract"
  BY DEF ScalarTypes, BooleanTypes, ContractTypes
<1>2. /\ rec.type \notin {"Number", "Observable", "BooleanConstant"}
      /\ rec.type \notin {"Add", "Maximum", "Minimum"}
      /\ rec.type \notin {"AllOf", "AnyOf"}
      /\ rec.type # "Both"
      /\ rec.type # "Subtract"
      /\ rec.type # "Multiply"
      /\ rec.type # "Divide"
      /\ rec.type # "Negate"
      /\ rec.type # "ConditionalValue"
      /\ rec.type # "Comparison"
      /\ rec.type # "Not"
      /\ rec.type # "Zero"
      /\ rec.type # "Payment"
      /\ rec.type = "Scale"
      /\ rec.type # "ConditionalContract"
  OBVIOUS
<1>3. ContractChecks(g, rec) = << x1, x2, x3 >>
  BY <1>1, Zenon DEF ContractChecks
<1>4. NodeError(g, n) = FirstFailure(ContractChecks(g, rec))
  BY <1>1, Zenon DEF NodeError
<1>5. ConstructorChecks(g, rec, instance) = << y1, y2, y3, y4 >>
  BY <1>2, Zenon DEF ConstructorChecks
<1>6. /\ Invalid \in Failing /\ InvalidNoPath \in Failing
      /\ Mismatch \in Failing /\ Input \in Failing
  BY DEF Failing
<1>7. /\ IsScalar(k1) \in BOOLEAN
      /\ IsContract(k2) \in BOOLEAN
      /\ (k1.unit = "scalar") \in BOOLEAN
      /\ (MayBeScalar(k1.unit)) \in BOOLEAN
      /\ (rec.slots = "tuple") \in BOOLEAN
      /\ (\A i \in {1} : IsScalar(g[rec.kids[i]])) \in BOOLEAN
      /\ (\A i \in {2} : IsContract(g[rec.kids[i]])) \in BOOLEAN
      /\ (k1.unit = "scalar") \in BOOLEAN
      /\ (MayBeScalar(k1.unit)) \in BOOLEAN
  BY DEF IsScalar, IsBoolean, IsContract, IsMoney, MayMatch, MayBeMoney, MayBeScalar
<1>8. /\ x1 \in Check /\ (x1[1] <=> IsScalar(k1))
      /\ x2 \in Check /\ (x2[1] <=> IsContract(k2))
      /\ x3 \in Check /\ (x3[1] <=> k1.unit = "scalar")
  BY <1>6, <1>7, ACheck
<1>9. /\ y1 \in Check /\ (y1[1] <=> (rec.slots = "tuple"))
      /\ y2 \in Check /\ (y2[1] <=> (\A i \in {1} : IsScalar(g[rec.kids[i]])))
      /\ y3 \in Check /\ (y3[1] <=> (\A i \in {2} : IsContract(g[rec.kids[i]])))
      /\ y4 \in Check /\ (y4[1] <=> (MayBeScalar(k1.unit)))
  BY <1>6, <1>7, ACheck
<1> HIDE DEF x1, x2, x3, y1, y2, y3, y4
<1>10. FirstFailure(<< x1, x2, x3 >>) = Pass <=> x1[1] /\ x2[1] /\ x3[1]
  BY <1>8, Passes3
<1>11. FirstFailure(<< y1, y2, y3, y4 >>) = Pass <=> y1[1] /\ y2[1] /\ y3[1] /\ y4[1]
  BY <1>9, Passes4
<1>12. QED
  BY <1>3, <1>4, <1>5, <1>8, <1>9, <1>10, <1>11

LEMMA ConditionalContractRules ==
  ASSUME NEW g, NEW n, g[n].type = "ConditionalContract"
  PROVE  /\ NodeError(g, n) = Pass <=>
               /\ IsBoolean(g[g[n].kids[1]])
               /\ IsContract(g[g[n].kids[2]]) /\ IsContract(g[g[n].kids[3]])
         /\ \A instance \in BOOLEAN :
             FirstFailure(ConstructorChecks(g, g[n], instance)) = Pass <=>
                 /\ g[n].slots = "tuple"
                 /\ IsBoolean(g[g[n].kids[1]])
                 /\ IsContract(g[g[n].kids[2]]) /\ IsContract(g[g[n].kids[3]])
<1> SUFFICES ASSUME NEW instance \in BOOLEAN
             PROVE  /\ NodeError(g, n) = Pass <=>
                          /\ IsBoolean(g[g[n].kids[1]])
                          /\ IsContract(g[g[n].kids[2]]) /\ IsContract(g[g[n].kids[3]])
                    /\ FirstFailure(ConstructorChecks(g, g[n], instance)) = Pass <=>
                          /\ g[n].slots = "tuple"
                          /\ IsBoolean(g[g[n].kids[1]])
                          /\ IsContract(g[g[n].kids[2]]) /\ IsContract(g[g[n].kids[3]])
  OBVIOUS
<1> DEFINE rec == g[n]
           k1 == g[rec.kids[1]]
           k2 == g[rec.kids[2]]
           k3 == g[rec.kids[3]]
           x1 == <<IsBoolean(k1), Invalid>>
           x2 == <<IsContract(k2) /\ IsContract(k3), Invalid>>
           y1 == <<rec.slots = "tuple", Mismatch>>
           y2 == <<IsBoolean(k1), Mismatch>>
           y3 == <<\A i \in {2, 3} : IsContract(g[rec.kids[i]]), Mismatch>>
<1>1. /\ rec.type \notin ScalarTypes
      /\ rec.type \notin BooleanTypes
      /\ rec.type \in ContractTypes
      /\ rec.type # "Zero"
      /\ rec.type # "Payment"
      /\ rec.type # "Both"
      /\ rec.type # "Scale"
      /\ rec.type = "ConditionalContract"
  BY DEF ScalarTypes, BooleanTypes, ContractTypes
<1>2. /\ rec.type \notin {"Number", "Observable", "BooleanConstant"}
      /\ rec.type \notin {"Add", "Maximum", "Minimum"}
      /\ rec.type \notin {"AllOf", "AnyOf"}
      /\ rec.type # "Both"
      /\ rec.type # "Subtract"
      /\ rec.type # "Multiply"
      /\ rec.type # "Divide"
      /\ rec.type # "Negate"
      /\ rec.type # "ConditionalValue"
      /\ rec.type # "Comparison"
      /\ rec.type # "Not"
      /\ rec.type # "Zero"
      /\ rec.type # "Payment"
      /\ rec.type # "Scale"
      /\ rec.type = "ConditionalContract"
  OBVIOUS
<1>3. ContractChecks(g, rec) = << x1, x2 >>
  BY <1>1, Zenon DEF ContractChecks
<1>4. NodeError(g, n) = FirstFailure(ContractChecks(g, rec))
  BY <1>1, Zenon DEF NodeError
<1>5. ConstructorChecks(g, rec, instance) = << y1, y2, y3 >>
  BY <1>2, Zenon DEF ConstructorChecks
<1>6. /\ Invalid \in Failing /\ InvalidNoPath \in Failing
      /\ Mismatch \in Failing /\ Input \in Failing
  BY DEF Failing
<1>7. /\ IsBoolean(k1) \in BOOLEAN
      /\ (IsContract(k2) /\ IsContract(k3)) \in BOOLEAN
      /\ (rec.slots = "tuple") \in BOOLEAN
      /\ IsBoolean(k1) \in BOOLEAN
      /\ (\A i \in {2, 3} : IsContract(g[rec.kids[i]])) \in BOOLEAN
  BY DEF IsScalar, IsBoolean, IsContract, IsMoney, MayMatch, MayBeMoney, MayBeScalar
<1>8. /\ x1 \in Check /\ (x1[1] <=> IsBoolean(k1))
      /\ x2 \in Check /\ (x2[1] <=> IsContract(k2) /\ IsContract(k3))
  BY <1>6, <1>7, ACheck
<1>9. /\ y1 \in Check /\ (y1[1] <=> (rec.slots = "tuple"))
      /\ y2 \in Check /\ (y2[1] <=> IsBoolean(k1))
      /\ y3 \in Check /\ (y3[1] <=> (\A i \in {2, 3} : IsContract(g[rec.kids[i]])))
  BY <1>6, <1>7, ACheck
<1> HIDE DEF x1, x2, y1, y2, y3
<1>10. FirstFailure(<< x1, x2 >>) = Pass <=> x1[1] /\ x2[1]
  BY <1>8, Passes2
<1>11. FirstFailure(<< y1, y2, y3 >>) = Pass <=> y1[1] /\ y2[1] /\ y3[1]
  BY <1>9, Passes3
<1>12. QED
  BY <1>3, <1>4, <1>5, <1>8, <1>9, <1>10, <1>11

LEMMA ScalarCollectionRules ==
  ASSUME NEW g, NEW n, g[n].type \in {"Add", "Maximum", "Minimum"}, g[n].kids \in Seq(Node)
  PROVE  /\ NodeError(g, n) = Pass <=>
               /\ g[n].unit \in ValidUnits
               /\ g[n].slots = "tuple"
               /\ Len(g[n].kids) >= 2
               /\ \A i \in 1..Len(g[n].kids) : IsScalar(g[g[n].kids[i]])
               /\ \A i \in 1..Len(g[n].kids) : g[g[n].kids[i]].unit = g[n].unit
         /\ \A instance \in BOOLEAN :
             FirstFailure(ConstructorChecks(g, g[n], instance)) = Pass <=>
                 /\ g[n].slots = "tuple"
                 /\ Len(g[n].kids) >= 2
                 /\ \A i \in 1..Len(g[n].kids) : IsScalar(g[g[n].kids[i]])
                 /\ \A i \in 1..Len(g[n].kids) :
                      MayMatch(g[g[n].kids[i]].unit, g[g[n].kids[1]].unit)
<1> SUFFICES ASSUME NEW instance \in BOOLEAN
             PROVE  /\ NodeError(g, n) = Pass <=>
                          /\ g[n].unit \in ValidUnits
                          /\ g[n].slots = "tuple"
                          /\ Len(g[n].kids) >= 2
                          /\ \A i \in 1..Len(g[n].kids) : IsScalar(g[g[n].kids[i]])
                          /\ \A i \in 1..Len(g[n].kids) : g[g[n].kids[i]].unit = g[n].unit
                    /\ FirstFailure(ConstructorChecks(g, g[n], instance)) = Pass <=>
                          /\ g[n].slots = "tuple"
                          /\ Len(g[n].kids) >= 2
                          /\ \A i \in 1..Len(g[n].kids) : IsScalar(g[g[n].kids[i]])
                          /\ \A i \in 1..Len(g[n].kids) :
                               MayMatch(g[g[n].kids[i]].unit, g[g[n].kids[1]].unit)
  OBVIOUS
<1> DEFINE rec == g[n]
           x0 == <<rec.unit \in ValidUnits, Invalid>>
           t == ScalarCollectionChecks(g, rec)
           members == {k \in Node : IsScalar(g[k])}
           same == TRUE
<1>1. /\ rec.type \in ScalarTypes /\ rec.type \in {"Add", "Maximum", "Minimum"}
      /\ rec.type \notin BooleanTypes /\ rec.type \notin ContractTypes
      /\ rec.type \notin {"Number", "Observable"} /\ rec.type # "Subtract"
      /\ rec.type # "Multiply" /\ rec.type # "Divide" /\ rec.type # "Negate"
      /\ rec.type # "ConditionalValue"
      /\ rec.type \notin {"Number", "Observable", "BooleanConstant"}
  BY DEF ScalarTypes, BooleanTypes, ContractTypes
<1>2. NodeError(g, n) = FirstFailure(<< x0 >> \o ScalarChecks(g, rec))
  BY <1>1, Zenon DEF NodeError
<1>3. ScalarChecks(g, rec) = t
  BY <1>1, Zenon DEF ScalarChecks
<1>4. ConstructorChecks(g, rec, instance) = OperandChecks(g, rec, members, same)
  BY <1>1, Zenon DEF ConstructorChecks
<1>5. x0 \in Check /\ (x0[1] <=> rec.unit \in ValidUnits)
  <2>1. Invalid \in Failing /\ (rec.unit \in ValidUnits) \in BOOLEAN
    BY DEF Failing
  <2>2. QED
    BY <2>1, ACheck
<1>6. << x0 >> \in Seq(Check) /\ (FirstFailure(<< x0 >>) = Pass <=> x0[1])
  BY <1>5, Passes1
<1>7. /\ t \in Seq(Check)
      /\ FirstFailure(t) = Pass <=>
           /\ rec.slots = "tuple"
           /\ Len(rec.kids) >= 2
           /\ \A i \in 1..Len(rec.kids) : IsScalar(g[rec.kids[i]])
           /\ \A i \in 1..Len(rec.kids) : g[rec.kids[i]].unit = rec.unit
  BY ScalarCollectionPasses
<1> DEFINE s == << x0 >>
<1> HIDE DEF x0, t, s
<1>8. FirstFailure(s \o t) = Pass <=> FirstFailure(s) = Pass /\ FirstFailure(t) = Pass
  BY <1>6, <1>7, PassesJoin DEF s
<1>9. same \in BOOLEAN
  OBVIOUS
<1>10. \A i \in 1..Len(rec.kids) :
         rec.kids[i] \in members <=> IsScalar(g[rec.kids[i]])
  BY ElementOfSeq
<1> HIDE DEF members
<1>11. FirstFailure(OperandChecks(g, rec, members, same)) = Pass <=>
           /\ rec.slots = "tuple"
           /\ Len(rec.kids) >= 2
           /\ \A i \in 1..Len(rec.kids) : rec.kids[i] \in members
           /\ same => \A i \in 1..Len(rec.kids) :
                            MayMatch(g[rec.kids[i]].unit, g[rec.kids[1]].unit)
  <2>1. rec.kids \in Seq(Node)
    OBVIOUS
  <2> HIDE DEF same, rec
  <2>2. QED
    BY <1>9, <2>1, OperandsPass, ZenonT(60)
<1>12. QED
  BY <1>2, <1>3, <1>4, <1>5, <1>6, <1>7, <1>8, <1>10, <1>11 DEF s

LEMMA BooleanCollectionRules ==
  ASSUME NEW g, NEW n, g[n].type \in {"AllOf", "AnyOf"}, g[n].kids \in Seq(Node)
  PROVE  /\ NodeError(g, n) = Pass <=>
               /\ g[n].slots = "tuple"
               /\ Len(g[n].kids) >= 2
               /\ \A i \in 1..Len(g[n].kids) : IsBoolean(g[g[n].kids[i]])
         /\ \A instance \in BOOLEAN :
             FirstFailure(ConstructorChecks(g, g[n], instance)) = Pass <=>
                 /\ g[n].slots = "tuple"
                 /\ Len(g[n].kids) >= 2
                 /\ \A i \in 1..Len(g[n].kids) : IsBoolean(g[g[n].kids[i]])
<1> SUFFICES ASSUME NEW instance \in BOOLEAN
             PROVE  /\ NodeError(g, n) = Pass <=>
                          /\ g[n].slots = "tuple"
                          /\ Len(g[n].kids) >= 2
                          /\ \A i \in 1..Len(g[n].kids) : IsBoolean(g[g[n].kids[i]])
                    /\ FirstFailure(ConstructorChecks(g, g[n], instance)) = Pass <=>
                          /\ g[n].slots = "tuple"
                          /\ Len(g[n].kids) >= 2
                          /\ \A i \in 1..Len(g[n].kids) : IsBoolean(g[g[n].kids[i]])
  OBVIOUS
<1> DEFINE rec == g[n]
           x1 == <<rec.slots = "tuple", Mismatch>>
           x2 == <<Len(rec.kids) >= 2, Invalid>>
           x3 == <<\A k \in Seq2Set(rec.kids) : IsBoolean(g[k]), Mismatch>>
           members == {k \in Node : IsBoolean(g[k])}
           same == FALSE
<1>1. /\ rec.type \in BooleanTypes /\ rec.type \in {"AllOf", "AnyOf"}
      /\ rec.type \notin ScalarTypes /\ rec.type \notin ContractTypes
      /\ rec.type # "BooleanConstant" /\ rec.type # "Comparison" /\ rec.type # "Not"
      /\ rec.type \notin {"Number", "Observable", "BooleanConstant"}
      /\ rec.type \notin {"Add", "Maximum", "Minimum"}
  BY DEF ScalarTypes, BooleanTypes, ContractTypes
<1>2. NodeError(g, n) = FirstFailure(BooleanChecks(g, rec))
  BY <1>1, Zenon DEF NodeError
<1>3. BooleanChecks(g, rec) = << x1, x2, x3 >>
  BY <1>1, Zenon DEF BooleanChecks, BooleanCollectionChecks
<1>4. ConstructorChecks(g, rec, instance) = OperandChecks(g, rec, members, same)
  BY <1>1, Zenon DEF ConstructorChecks
<1>5. /\ x1 \in Check /\ (x1[1] <=> rec.slots = "tuple")
      /\ x2 \in Check /\ (x2[1] <=> Len(rec.kids) >= 2)
      /\ x3 \in Check /\ (x3[1] <=> (\A k \in Seq2Set(rec.kids) : IsBoolean(g[k])))
  <2>1. /\ Invalid \in Failing /\ Mismatch \in Failing
        /\ (rec.slots = "tuple") \in BOOLEAN
        /\ (\A k \in Seq2Set(rec.kids) : IsBoolean(g[k])) \in BOOLEAN
    BY DEF Failing
  <2>2. (Len(rec.kids) >= 2) \in BOOLEAN
    BY LenProperties
  <2>3. QED
    BY <2>1, <2>2, ACheck
<1> HIDE DEF x1, x2, x3
<1>6. FirstFailure(<< x1, x2, x3 >>) = Pass <=> x1[1] /\ x2[1] /\ x3[1]
  BY <1>5, Passes3
<1>7. (\A k \in Seq2Set(rec.kids) : IsBoolean(g[k]))
        <=> \A i \in 1..Len(rec.kids) : IsBoolean(g[rec.kids[i]])
  BY DEF Seq2Set
<1>8. \A i \in 1..Len(rec.kids) :
        rec.kids[i] \in members <=> IsBoolean(g[rec.kids[i]])
  BY ElementOfSeq
<1>9. same \in BOOLEAN
  OBVIOUS
<1> HIDE DEF members
<1>10. FirstFailure(OperandChecks(g, rec, members, same)) = Pass <=>
           /\ rec.slots = "tuple"
           /\ Len(rec.kids) >= 2
           /\ \A i \in 1..Len(rec.kids) : rec.kids[i] \in members
           /\ same => \A i \in 1..Len(rec.kids) :
                            MayMatch(g[rec.kids[i]].unit, g[rec.kids[1]].unit)
  <2>1. rec.kids \in Seq(Node)
    OBVIOUS
  <2> HIDE DEF same, rec
  <2>2. QED
    BY <1>9, <2>1, OperandsPass, ZenonT(60)
<1>11. QED
  BY <1>2, <1>3, <1>4, <1>5, <1>6, <1>7, <1>8, <1>10

LEMMA BothRules ==
  ASSUME NEW g, NEW n, g[n].type = "Both", g[n].kids \in Seq(Node)
  PROVE  /\ NodeError(g, n) = Pass <=>
               /\ g[n].slots = "tuple"
               /\ Len(g[n].kids) >= 2
               /\ \A i \in 1..Len(g[n].kids) : IsContract(g[g[n].kids[i]])
         /\ \A instance \in BOOLEAN :
             FirstFailure(ConstructorChecks(g, g[n], instance)) = Pass <=>
                 /\ g[n].slots = "tuple"
                 /\ Len(g[n].kids) >= 2
                 /\ \A i \in 1..Len(g[n].kids) : IsContract(g[g[n].kids[i]])
<1> SUFFICES ASSUME NEW instance \in BOOLEAN
             PROVE  /\ NodeError(g, n) = Pass <=>
                          /\ g[n].slots = "tuple"
                          /\ Len(g[n].kids) >= 2
                          /\ \A i \in 1..Len(g[n].kids) : IsContract(g[g[n].kids[i]])
                    /\ FirstFailure(ConstructorChecks(g, g[n], instance)) = Pass <=>
                          /\ g[n].slots = "tuple"
                          /\ Len(g[n].kids) >= 2
                          /\ \A i \in 1..Len(g[n].kids) : IsContract(g[g[n].kids[i]])
  OBVIOUS
<1> DEFINE rec == g[n]
           x1 == <<rec.slots = "tuple", Mismatch>>
           x2 == <<Len(rec.kids) >= 2, Invalid>>
           x3 == <<\A k \in Seq2Set(rec.kids) : IsContract(g[k]), Mismatch>>
           members == {k \in Node : IsContract(g[k])}
           same == FALSE
<1>1. /\ rec.type \in ContractTypes /\ rec.type = "Both"
      /\ rec.type \notin ScalarTypes /\ rec.type \notin BooleanTypes
      /\ rec.type # "Zero" /\ rec.type # "Payment" /\ rec.type # "Scale"
      /\ rec.type # "ConditionalContract"
      /\ rec.type \notin {"Number", "Observable", "BooleanConstant"}
      /\ rec.type \notin {"Add", "Maximum", "Minimum"}
      /\ rec.type \notin {"AllOf", "AnyOf"}
  BY DEF ScalarTypes, BooleanTypes, ContractTypes
<1>2. NodeError(g, n) = FirstFailure(ContractChecks(g, rec))
  BY <1>1, Zenon DEF NodeError
<1>3. ContractChecks(g, rec) = << x1, x2, x3 >>
  BY <1>1, Zenon DEF ContractChecks, BothChecks
<1>4. ConstructorChecks(g, rec, instance) = OperandChecks(g, rec, members, same)
  BY <1>1, Zenon DEF ConstructorChecks
<1>5. /\ x1 \in Check /\ (x1[1] <=> rec.slots = "tuple")
      /\ x2 \in Check /\ (x2[1] <=> Len(rec.kids) >= 2)
      /\ x3 \in Check /\ (x3[1] <=> (\A k \in Seq2Set(rec.kids) : IsContract(g[k])))
  <2>1. /\ Invalid \in Failing /\ Mismatch \in Failing
        /\ (rec.slots = "tuple") \in BOOLEAN
        /\ (\A k \in Seq2Set(rec.kids) : IsContract(g[k])) \in BOOLEAN
    BY DEF Failing
  <2>2. (Len(rec.kids) >= 2) \in BOOLEAN
    BY LenProperties
  <2>3. QED
    BY <2>1, <2>2, ACheck
<1> HIDE DEF x1, x2, x3
<1>6. FirstFailure(<< x1, x2, x3 >>) = Pass <=> x1[1] /\ x2[1] /\ x3[1]
  BY <1>5, Passes3
<1>7. (\A k \in Seq2Set(rec.kids) : IsContract(g[k]))
        <=> \A i \in 1..Len(rec.kids) : IsContract(g[rec.kids[i]])
  BY DEF Seq2Set
<1>8. \A i \in 1..Len(rec.kids) :
        rec.kids[i] \in members <=> IsContract(g[rec.kids[i]])
  BY ElementOfSeq
<1>9. same \in BOOLEAN
  OBVIOUS
<1> HIDE DEF members
<1>10. FirstFailure(OperandChecks(g, rec, members, same)) = Pass <=>
           /\ rec.slots = "tuple"
           /\ Len(rec.kids) >= 2
           /\ \A i \in 1..Len(rec.kids) : rec.kids[i] \in members
           /\ same => \A i \in 1..Len(rec.kids) :
                            MayMatch(g[rec.kids[i]].unit, g[rec.kids[1]].unit)
  <2>1. rec.kids \in Seq(Node)
    OBVIOUS
  <2> HIDE DEF same, rec
  <2>2. QED
    BY <1>9, <2>1, OperandsPass, ZenonT(60)
<1>11. QED
  BY <1>2, <1>3, <1>4, <1>5, <1>6, <1>7, <1>8, <1>10

LEMMA ZeroRules ==
  ASSUME NEW g, NEW n, g[n].type = "Zero"
  PROVE  /\ NodeError(g, n) = Pass
         /\ \A instance \in BOOLEAN :
             FirstFailure(ConstructorChecks(g, g[n], instance)) = Pass
<1> SUFFICES ASSUME NEW instance \in BOOLEAN
             PROVE  /\ NodeError(g, n) = Pass
                    /\ FirstFailure(ConstructorChecks(g, g[n], instance)) = Pass
  OBVIOUS
<1>1. /\ g[n].type \in ContractTypes
      /\ g[n].type \notin ScalarTypes /\ g[n].type \notin BooleanTypes
  BY DEF ScalarTypes, BooleanTypes, ContractTypes
<1>2. NodeError(g, n) = FirstFailure(ContractChecks(g, g[n]))
  BY <1>1, Zenon DEF NodeError
<1>3. ContractChecks(g, g[n]) = << >>
  BY Zenon DEF ContractChecks
<1>4. /\ g[n].type \notin {"Number", "Observable", "BooleanConstant"}
      /\ g[n].type \notin {"Add", "Maximum", "Minimum"}
      /\ g[n].type \notin {"AllOf", "AnyOf"}
      /\ g[n].type # "Both" /\ g[n].type # "Subtract" /\ g[n].type # "Multiply"
      /\ g[n].type # "Divide" /\ g[n].type # "Negate"
      /\ g[n].type # "ConditionalValue" /\ g[n].type # "Comparison"
      /\ g[n].type # "Not" /\ g[n].type = "Zero" /\ g[n].type # "Payment"
      /\ g[n].type # "Scale" /\ g[n].type # "ConditionalContract"
  OBVIOUS
<1>5. ConstructorChecks(g, g[n], instance) = << >>
  BY <1>4, Zenon DEF ConstructorChecks
<1>6. FirstFailure(<< >>) = Pass
  BY DEF FirstFailure
<1>7. QED
  BY <1>2, <1>3, <1>5, <1>6

-----------------------------------------------------------------------------
(* The two copies of the rules agree.                                      *)
LEMMA UnitRules ==
  ASSUME NEW g, NEW rec
  PROVE  /\ rec.type \in {"Number", "Observable"} => ConstructedUnits(g, rec) = {rec.unit}
         /\ rec.type \in {"Add", "Maximum", "Minimum", "Subtract", "Divide", "Negate"}
              => ConstructedUnits(g, rec) = {g[rec.kids[1]].unit}
         /\ rec.type = "Multiply"
              => /\ MultiplyUnit(g[rec.kids[1]].unit, g[rec.kids[2]].unit)
                      \in ConstructedUnits(g, rec)
                 /\ "forged" \notin {g[rec.kids[1]].unit, g[rec.kids[2]].unit}
                      => ConstructedUnits(g, rec)
                           = {MultiplyUnit(g[rec.kids[1]].unit, g[rec.kids[2]].unit)}
         /\ rec.type = "ConditionalValue"
              => ConstructedUnits(g, rec) = {g[rec.kids[2]].unit}
         /\ rec.type \notin ScalarTypes => ConstructedUnits(g, rec) = {rec.unit}
BY DEF ConstructedUnits, ScalarTypes

\* Only the product of two money units has no unit.
LEMMA ProductUnit ==
  ASSUME NEW a, NEW b
  PROVE  MultiplyUnit(a, b) # "none" <=> ~(IsMoney(a) /\ IsMoney(b))
BY CurrenciesAssumption DEF MultiplyUnit, IsMoney

\* The fields of a record of a class with fixed fields are as stored, missing
\* or not iterable; those of a collection may also be iterable but no tuple.
FieldsOf(rec) ==
  /\ rec.kids \in Seq(Node) /\ rec.sound \in BOOLEAN
  /\ rec.slots \in {"tuple", "list", "opaque"}
  /\ rec.slots = "list" => rec.type \notin DOMAIN Arity
  /\ rec.type \in DOMAIN Arity /\ IsIterable(rec) => Len(rec.kids) = Arity[rec.type]

\* Every supported class allows a positive answer of isinstance; only the
\* classes of bool and of the enum leave no other.
LEMMA AnswersOfIsinstance ==
  ASSUME NEW g, NEW n, FieldsOf(g[n])
  PROVE  /\ \A a \in InstanceAnswers(g[n]) : a \in BOOLEAN
         /\ \E a \in BOOLEAN : a \in InstanceAnswers(g[n])
         /\ g[n].type \notin {"BooleanConstant", "Comparison"} => TRUE \in InstanceAnswers(g[n])
         /\ g[n].type \in {"BooleanConstant", "Comparison"}
              => InstanceAnswers(g[n]) = {g[n].sound}
<1>1. g[n].sound \in BOOLEAN
  BY Zenon DEF FieldsOf
<1>2. \A a \in InstanceAnswers(g[n]) : a \in BOOLEAN
  BY <1>1, Zenon DEF InstanceAnswers
<1>3. g[n].sound \in InstanceAnswers(g[n])
  BY Zenon DEF InstanceAnswers
<1>4. \E a \in BOOLEAN : a \in InstanceAnswers(g[n])
  BY <1>1, <1>3, Zenon
<1>5. g[n].type \notin {"BooleanConstant", "Comparison"} => TRUE \in InstanceAnswers(g[n])
  BY Zenon DEF InstanceAnswers
<1>6. g[n].type \in {"BooleanConstant", "Comparison"}
        => InstanceAnswers(g[n]) = {g[n].sound}
  BY Zenon DEF InstanceAnswers
<1>7. QED
  BY <1>2, <1>4, <1>5, <1>6, Zenon

\* What the unit of an operand answers when it is not forged.
Honest(g, k) ==
  /\ IsScalar(g[k]) => g[k].unit # "forged"
  /\ g[k].type = "Number" => g[k].sound

LEMMA ExactIsHonest ==
  ASSUME NEW g, NEW k, ExactlyTyped(g, k)
  PROVE  Honest(g, k)
<1>1. ASSUME IsScalar(g[k]) PROVE g[k].unit # "forged"
  <2>1. g[k].type \in ScalarTypes
    BY <1>1 DEF ExactlyTyped, IsScalar, IsSupported, SupportedTypes, ScalarTypes,
                BooleanTypes, ContractTypes
  <2>2. QED
    BY <2>1, CurrenciesAssumption DEF ExactlyTyped, ValidUnits
<1>2. QED
  BY <1>1 DEF ExactlyTyped, Honest

LEMMA HonestUnits ==
  ASSUME NEW u, NEW v
  PROVE  /\ u = v => MayMatch(u, v)
         /\ IsMoney(u) => MayBeMoney(u)
         /\ u = "scalar" => MayBeScalar(u)
         /\ u # "forged" /\ MayBeMoney(u) => IsMoney(u)
         /\ u # "forged" /\ MayBeScalar(u) => u = "scalar"
         /\ u # "forged" /\ v # "forged" /\ MayMatch(u, v) => u = v
BY DEF MayMatch, MayBeMoney, MayBeScalar

\* Could the checks of a constructor have passed?
Built(g, n) ==
  \E instance \in InstanceAnswers(g[n]) :
    FirstFailure(ConstructorChecks(g, g[n], instance)) = Pass

\* On a node of a supported class whose fields can be iterated, the checks of
\* validate_contract pass only if a constructor call could have stored it and
\* the exact-type policy has no objection; and they fail, the policy having
\* none to the node and its operands, only if no constructor call could.
RuleAgrees(g, n) ==
  LET rec == g[n] IN
  /\ IsIterable(rec) /\ NodeError(g, n) = Pass
        => ExactlyTyped(g, n) /\ Built(g, n) /\ rec.unit \in ConstructedUnits(g, rec)
  /\ (/\ ExactlyTyped(g, n) /\ Built(g, n) /\ rec.unit \in ConstructedUnits(g, rec)
      /\ \A i \in 1..Len(rec.kids) : Honest(g, rec.kids[i]))
        => NodeError(g, n) = Pass

LEMMA ExactRecord ==
  ASSUME NEW g, NEW n
  PROVE  /\ g[n].type \in ScalarTypes \ {"Number", "Observable"}
              => (ExactlyTyped(g, n) <=> g[n].unit \in ValidUnits)
         /\ g[n].type \in {"Number", "Observable"}
              => (ExactlyTyped(g, n) <=> g[n].unit \in ValidUnits /\ g[n].sound)
         /\ g[n].type = "Payment"
              => (ExactlyTyped(g, n) <=> g[n].unit \in Currencies /\ g[n].sound)
         /\ g[n].type \in (BooleanTypes \cup ContractTypes) \ {"Payment"}
              => ExactlyTyped(g, n)
BY DEF ExactlyTyped, IsSupported, SupportedTypes, ScalarTypes, BooleanTypes, ContractTypes

LEMMA FirstPositions ==
  ASSUME NEW s
  PROVE  /\ Len(s) = 1 => 1 \in 1..Len(s)
         /\ Len(s) = 2 => 1 \in 1..Len(s) /\ 2 \in 1..Len(s)
         /\ Len(s) = 3 => 2 \in 1..Len(s) /\ 3 \in 1..Len(s)
OBVIOUS

LEMMA ScalarRulesAgree ==
  ASSUME NEW g, NEW n, FieldsOf(g[n]), g[n].type \in ScalarTypes
  PROVE  RuleAgrees(g, n)
<1> DEFINE rec == g[n]
           U == ConstructedUnits(g, rec)
           k(i) == rec.kids[i]
<1>0. rec.kids \in Seq(Node) /\ rec.sound \in BOOLEAN
  BY Zenon DEF FieldsOf
<1>1. /\ rec.kids \in Seq(Node) /\ rec.sound \in BOOLEAN
      /\ \A a \in InstanceAnswers(rec) : a \in BOOLEAN
      /\ \E a \in BOOLEAN : a \in InstanceAnswers(rec)
  BY <1>0, AnswersOfIsinstance, Zenon
<1>2. /\ IsIterable(rec) /\ rec.type \in DOMAIN Arity => rec.slots = "tuple"
      /\ rec.slots = "tuple" => IsIterable(rec)
  BY DEF FieldsOf, IsIterable
<1>3. CASE rec.type \in {"Number", "Observable"}
  <2>1. NodeError(g, n) = Pass <=> rec.unit \in ValidUnits /\ rec.sound
    BY <1>1, <1>3, LeafRules
  <2>2. Built(g, n)
    <3>1. TRUE \in InstanceAnswers(rec)
      BY <1>3, AnswersOfIsinstance, Zenon
    <3>2. FirstFailure(ConstructorChecks(g, g[n], TRUE)) = Pass
      <4>1. \A instance \in BOOLEAN :
              FirstFailure(ConstructorChecks(g, g[n], instance)) = Pass <=> instance
        BY <1>0, <1>3, LeafRules
      <4>2. TRUE \in BOOLEAN /\ TRUE
        OBVIOUS
      <4>3. QED
        BY <4>1, <4>2, Zenon
    <3>3. QED
      BY <3>1, <3>2 DEF Built
  <2>3. U = {rec.unit} /\ (ExactlyTyped(g, n) <=> rec.unit \in ValidUnits /\ rec.sound)
    BY <1>3, UnitRules, ExactRecord
  <2>4. QED
    BY <2>1, <2>2, <2>3 DEF RuleAgrees
<1>4. CASE rec.type \in {"Add", "Maximum", "Minimum"}
  <2>1. /\ U = {g[k(1)].unit} /\ (ExactlyTyped(g, n) <=> rec.unit \in ValidUnits)
    BY <1>4, UnitRules, ExactRecord DEF ScalarTypes
  <2>2. NodeError(g, n) = Pass <=>
               /\ rec.unit \in ValidUnits
               /\ rec.slots = "tuple"
               /\ Len(rec.kids) >= 2
               /\ \A i \in 1..Len(rec.kids) : IsScalar(g[k(i)])
               /\ \A i \in 1..Len(rec.kids) : g[k(i)].unit = rec.unit
    BY <1>1, <1>4, ScalarCollectionRules
  <2>3. Built(g, n) <=>
               /\ rec.slots = "tuple"
               /\ Len(rec.kids) >= 2
               /\ \A i \in 1..Len(rec.kids) : IsScalar(g[k(i)])
               /\ \A i \in 1..Len(rec.kids) : MayMatch(g[k(i)].unit, g[k(1)].unit)
    <3>1. \A instance \in BOOLEAN :
            FirstFailure(ConstructorChecks(g, g[n], instance)) = Pass <=>
               /\ rec.slots = "tuple"
               /\ Len(rec.kids) >= 2
               /\ \A i \in 1..Len(rec.kids) : IsScalar(g[k(i)])
               /\ \A i \in 1..Len(rec.kids) : MayMatch(g[k(i)].unit, g[k(1)].unit)
      BY <1>1, <1>4, ScalarCollectionRules
    <3>2. QED
      BY <1>1, <3>1 DEF Built
  <2>4. Len(rec.kids) >= 2 => 1 \in 1..Len(rec.kids)
    BY <1>1, LenProperties
  <2>5. ASSUME NodeError(g, n) = Pass
        PROVE  ExactlyTyped(g, n) /\ Built(g, n) /\ rec.unit \in U
    <3>1. g[k(1)].unit = rec.unit
      BY <2>2, <2>4, <2>5
    <3>2. \A i \in 1..Len(rec.kids) : MayMatch(g[k(i)].unit, g[k(1)].unit)
      BY <2>2, <2>5, <3>1, HonestUnits
    <3>3. QED
      BY <2>1, <2>2, <2>3, <2>5, <3>1, <3>2
  <2>6. ASSUME ExactlyTyped(g, n), Built(g, n), rec.unit \in U,
               \A i \in 1..Len(rec.kids) : Honest(g, rec.kids[i])
        PROVE  NodeError(g, n) = Pass
    <3>1. \A i \in 1..Len(rec.kids) : g[k(i)].unit # "forged"
      BY <2>3, <2>6 DEF Honest
    <3>2. \A i \in 1..Len(rec.kids) : g[k(i)].unit = g[k(1)].unit
      BY <2>3, <2>4, <2>6, <3>1, HonestUnits
    <3>3. QED
      BY <2>1, <2>2, <2>3, <2>6, <3>2
  <2>7. QED
    BY <2>5, <2>6 DEF RuleAgrees
<1>5. CASE rec.type = "Subtract"
  <2>1. /\ U = {g[k(1)].unit} /\ (ExactlyTyped(g, n) <=> rec.unit \in ValidUnits)
        /\ rec.type \in DOMAIN Arity /\ Arity[rec.type] = 2
    BY <1>5, UnitRules, ExactRecord DEF ScalarTypes, Arity
  <2>2. Built(g, n) <=> /\ rec.slots = "tuple" /\ IsScalar(g[k(1)]) /\ IsScalar(g[k(2)])
                        /\ MayMatch(g[k(1)].unit, g[k(2)].unit)
    BY <1>1, <1>5, SubtractRules DEF Built
  <2>3. rec.slots = "tuple" => 1 \in 1..Len(rec.kids) /\ 2 \in 1..Len(rec.kids)
    <3>1. rec.slots = "tuple" => Len(rec.kids) = 2
      BY <1>2, <2>1 DEF FieldsOf
    <3>2. QED
      BY <3>1, FirstPositions, Zenon
  <2>4. QED
    BY <1>2, <1>5, <2>1, <2>2, <2>3, SubtractRules, HonestUnits DEF RuleAgrees, Honest
<1>6. CASE rec.type = "Multiply"
  <2> DEFINE a == g[k(1)].unit
             b == g[k(2)].unit
  <2>1. /\ MultiplyUnit(a, b) \in U
        /\ "forged" \notin {a, b} => U = {MultiplyUnit(a, b)}
        /\ ExactlyTyped(g, n) <=> rec.unit \in ValidUnits
        /\ rec.type \in DOMAIN Arity /\ Arity[rec.type] = 2
    BY <1>6, UnitRules, ExactRecord DEF ScalarTypes, Arity
  <2>2. MultiplyUnit(a, b) # "none" <=> ~(IsMoney(a) /\ IsMoney(b))
    BY ProductUnit
  <2>3. Built(g, n) <=> /\ rec.slots = "tuple" /\ IsScalar(g[k(1)]) /\ IsScalar(g[k(2)])
                        /\ MultiplyUnit(a, b) # "none"
    BY <1>1, <1>6, MultiplyRules DEF Built
  <2>4. NodeError(g, n) = Pass <=>
          /\ rec.unit \in ValidUnits /\ IsScalar(g[k(1)]) /\ IsScalar(g[k(2)])
          /\ ~(IsMoney(a) /\ IsMoney(b)) /\ MultiplyUnit(a, b) = rec.unit
    BY <1>6, MultiplyRules
  <2>5. rec.slots = "tuple" => 1 \in 1..Len(rec.kids) /\ 2 \in 1..Len(rec.kids)
    <3>1. rec.slots = "tuple" => Len(rec.kids) = 2
      BY <1>2, <2>1 DEF FieldsOf
    <3>2. QED
      BY <3>1, FirstPositions, Zenon
  <2> HIDE DEF U
  <2>6. QED
    BY <1>2, <2>1, <2>2, <2>3, <2>4, <2>5 DEF RuleAgrees, Honest, U
<1>7. CASE rec.type = "Divide"
  <2>1. /\ U = {g[k(1)].unit} /\ (ExactlyTyped(g, n) <=> rec.unit \in ValidUnits)
        /\ rec.type \in DOMAIN Arity /\ Arity[rec.type] = 2
    BY <1>7, UnitRules, ExactRecord DEF ScalarTypes, Arity
  <2>2. Built(g, n) <=> /\ rec.slots = "tuple" /\ IsScalar(g[k(1)]) /\ IsScalar(g[k(2)])
                        /\ MayBeScalar(g[k(2)].unit)
                        /\ (g[k(2)].type = "Number" /\ g[k(2)].sound => g[k(2)].val # 0)
    BY <1>1, <1>7, DivideRules DEF Built
  <2>3. rec.slots = "tuple" => 1 \in 1..Len(rec.kids) /\ 2 \in 1..Len(rec.kids)
    <3>1. rec.slots = "tuple" => Len(rec.kids) = 2
      BY <1>2, <2>1 DEF FieldsOf
    <3>2. QED
      BY <3>1, FirstPositions, Zenon
  <2> DEFINE nz == ~(g[k(2)].type = "Number" /\ g[k(2)].val = 0)
             built == g[k(2)].type = "Number" /\ g[k(2)].sound => g[k(2)].val # 0
  <2>4. NodeError(g, n) = Pass <=>
          /\ rec.unit \in ValidUnits /\ IsScalar(g[k(1)]) /\ IsScalar(g[k(2)])
          /\ g[k(2)].unit = "scalar" /\ nz /\ g[k(1)].unit = rec.unit
    BY <1>7, DivideRules
  <2>5. /\ nz => built
        /\ built /\ Honest(g, k(2)) => nz
    BY Zenon DEF Honest
  <2>6. Honest(g, k(2)) /\ IsScalar(g[k(2)]) => g[k(2)].unit # "forged"
    BY DEF Honest
  <2>7. /\ g[k(2)].unit = "scalar" => MayBeScalar(g[k(2)].unit)
        /\ g[k(2)].unit # "forged" /\ MayBeScalar(g[k(2)].unit) => g[k(2)].unit = "scalar"
    BY HonestUnits
  <2> HIDE DEF nz, built, U
  <2>8. ASSUME IsIterable(rec), NodeError(g, n) = Pass
        PROVE  ExactlyTyped(g, n) /\ Built(g, n) /\ rec.unit \in U
    BY <1>2, <2>1, <2>2, <2>4, <2>5, <2>7, <2>8 DEF built
  <2>9. ASSUME ExactlyTyped(g, n), Built(g, n), rec.unit \in U,
               \A i \in 1..Len(rec.kids) : Honest(g, k(i))
        PROVE  NodeError(g, n) = Pass
    <3>1. built /\ Honest(g, k(2))
      BY <2>2, <2>3, <2>9 DEF built
    <3>2. QED
      BY <2>1, <2>2, <2>4, <2>5, <2>6, <2>7, <2>9, <3>1
  <2>10. QED
    BY <2>8, <2>9 DEF RuleAgrees, U
<1>8. CASE rec.type = "Negate"
  <2>1. /\ U = {g[k(1)].unit} /\ (ExactlyTyped(g, n) <=> rec.unit \in ValidUnits)
        /\ rec.type \in DOMAIN Arity
    BY <1>8, UnitRules, ExactRecord DEF ScalarTypes, Arity
  <2>2. Built(g, n) <=> rec.slots = "tuple" /\ IsScalar(g[k(1)])
    BY <1>1, <1>8, NegateRules DEF Built
  <2>3. QED
    BY <1>2, <1>8, <2>1, <2>2, NegateRules DEF RuleAgrees
<1>9. CASE rec.type = "ConditionalValue"
  <2>1. /\ U = {g[k(2)].unit} /\ (ExactlyTyped(g, n) <=> rec.unit \in ValidUnits)
        /\ rec.type \in DOMAIN Arity /\ Arity[rec.type] = 3
    BY <1>9, UnitRules, ExactRecord DEF ScalarTypes, Arity
  <2>2. Built(g, n) <=> /\ rec.slots = "tuple" /\ IsBoolean(g[k(1)])
                        /\ IsScalar(g[k(2)]) /\ IsScalar(g[k(3)])
                        /\ MayMatch(g[k(2)].unit, g[k(3)].unit)
    BY <1>1, <1>9, ConditionalValueRules DEF Built
  <2>3. rec.slots = "tuple" => 2 \in 1..Len(rec.kids) /\ 3 \in 1..Len(rec.kids)
    <3>1. rec.slots = "tuple" => Len(rec.kids) = 3
      BY <1>2, <2>1 DEF FieldsOf
    <3>2. QED
      BY <3>1, FirstPositions, Zenon
  <2>4. QED
    BY <1>2, <1>9, <2>1, <2>2, <2>3, ConditionalValueRules, HonestUnits DEF RuleAgrees, Honest
<1>10. QED
  BY <1>3, <1>4, <1>5, <1>6, <1>7, <1>8, <1>9 DEF ScalarTypes

LEMMA OtherRulesAgree ==
  ASSUME NEW g, NEW n, FieldsOf(g[n]), g[n].type \in BooleanTypes \cup ContractTypes
  PROVE  RuleAgrees(g, n)
<1> DEFINE rec == g[n]
           U == ConstructedUnits(g, rec)
           k(i) == rec.kids[i]
<1>0. rec.kids \in Seq(Node) /\ rec.sound \in BOOLEAN
  BY Zenon DEF FieldsOf
<1>1. /\ rec.kids \in Seq(Node) /\ rec.sound \in BOOLEAN
      /\ \A a \in InstanceAnswers(rec) : a \in BOOLEAN
      /\ \E a \in BOOLEAN : a \in InstanceAnswers(rec)
  BY <1>0, AnswersOfIsinstance, Zenon
<1>2. /\ IsIterable(rec) /\ rec.type \in DOMAIN Arity => rec.slots = "tuple"
      /\ rec.slots = "tuple" => IsIterable(rec)
  BY DEF FieldsOf, IsIterable
<1>3. rec.type \notin ScalarTypes /\ U = {rec.unit}
  BY UnitRules DEF ScalarTypes, BooleanTypes, ContractTypes
<1>4. rec.type # "Payment" => ExactlyTyped(g, n)
  BY ExactRecord
<1>5. rec.type \in {"BooleanConstant", "Comparison"} => InstanceAnswers(rec) = {rec.sound}
  BY AnswersOfIsinstance, Zenon
<1> HIDE DEF U
<1>6. CASE rec.type = "BooleanConstant"
  BY <1>1, <1>3, <1>4, <1>5, <1>6, BooleanConstantRules DEF RuleAgrees, Built, U
<1>7. CASE rec.type = "Comparison"
  <2>1. Built(g, n) <=> /\ rec.slots = "tuple" /\ IsScalar(g[k(1)]) /\ IsScalar(g[k(2)])
                        /\ rec.sound /\ MayMatch(g[k(1)].unit, g[k(2)].unit)
    BY <1>1, <1>5, <1>7, ComparisonRules DEF Built
  <2>2. rec.type \in DOMAIN Arity /\ Arity[rec.type] = 2
    BY <1>7 DEF Arity
  <2>3. rec.slots = "tuple" => 1 \in 1..Len(rec.kids) /\ 2 \in 1..Len(rec.kids)
    <3>1. rec.slots = "tuple" => Len(rec.kids) = 2
      BY <1>2, <2>2 DEF FieldsOf
    <3>2. QED
      BY <3>1, FirstPositions, Zenon
  <2>4. QED
    BY <1>1, <1>2, <1>3, <1>4, <1>7, <2>1, <2>2, <2>3, ComparisonRules, HonestUnits
       DEF RuleAgrees, Honest, U
<1>8. CASE rec.type \in {"AllOf", "AnyOf"}
  <2>1. Built(g, n) <=> NodeError(g, n) = Pass
    BY <1>1, <1>8, BooleanCollectionRules DEF Built
  <2>2. QED
    BY <1>3, <1>4, <1>8, <2>1 DEF RuleAgrees, U
<1>9. CASE rec.type = "Not"
  <2>1. Built(g, n) <=> rec.slots = "tuple" /\ IsBoolean(g[k(1)])
    BY <1>1, <1>9, NotRules DEF Built
  <2>2. QED
    BY <1>2, <1>3, <1>4, <1>9, <2>1, NotRules DEF RuleAgrees, Arity, U
<1>10. CASE rec.type = "Zero"
  <2>1. Built(g, n) /\ NodeError(g, n) = Pass
    BY <1>1, <1>10, ZeroRules DEF Built
  <2>2. QED
    BY <1>3, <1>4, <1>10, <2>1 DEF RuleAgrees, U
<1>11. CASE rec.type = "Payment"
  <2>1. /\ rec.type \in DOMAIN Arity /\ Arity[rec.type] = 1
        /\ ExactlyTyped(g, n) <=> rec.unit \in Currencies /\ rec.sound
        /\ TRUE \in InstanceAnswers(rec)
    <3>1. rec.type \in DOMAIN Arity /\ Arity[rec.type] = 1
      BY <1>11 DEF Arity
    <3>2. ExactlyTyped(g, n) <=> rec.unit \in Currencies /\ rec.sound
      BY <1>11, ExactRecord, Zenon
    <3>3. TRUE \in InstanceAnswers(rec)
      BY <1>11, AnswersOfIsinstance, Zenon
    <3>4. QED
      BY <3>1, <3>2, <3>3, Zenon
  <2>2. Built(g, n) <=> /\ rec.slots = "tuple" /\ IsScalar(g[k(1)])
                        /\ MayBeMoney(g[k(1)].unit) /\ MayMatch(g[k(1)].unit, rec.unit)
    BY <1>1, <1>11, <2>1, PaymentRules DEF Built
  <2>3. rec.slots = "tuple" => 1 \in 1..Len(rec.kids)
    <3>1. rec.slots = "tuple" => Len(rec.kids) = 1
      BY <1>2, <2>1 DEF FieldsOf
    <3>2. QED
      BY <3>1, FirstPositions, Zenon
  <2>4. NodeError(g, n) = Pass <=>
               /\ IsScalar(g[k(1)]) /\ g[k(1)].unit \in ValidUnits
               /\ rec.unit \in Currencies /\ rec.sound
               /\ IsMoney(g[k(1)].unit) /\ g[k(1)].unit = rec.unit
    BY <1>1, <1>11, PaymentRules
  <2>5. \A v : IsMoney(v) => v \in Currencies /\ v \in ValidUnits
    BY DEF IsMoney, ValidUnits
  <2>6. rec.unit \in Currencies => rec.unit # "forged"
    BY CurrenciesAssumption
  <2>7. ASSUME IsIterable(rec), NodeError(g, n) = Pass
        PROVE  ExactlyTyped(g, n) /\ Built(g, n) /\ rec.unit \in U
    <3>1. MayBeMoney(g[k(1)].unit) /\ MayMatch(g[k(1)].unit, rec.unit)
      BY <2>4, <2>7, HonestUnits
    <3>2. rec.slots = "tuple" /\ IsScalar(g[k(1)]) /\ rec.unit \in Currencies
      BY <1>2, <2>1, <2>4, <2>7
    <3>3. rec.sound
      BY <2>4, <2>7
    <3>4. ExactlyTyped(g, n) /\ Built(g, n)
      BY <2>1, <2>2, <3>1, <3>2, <3>3, Zenon
    <3>5. QED
      BY <1>3, <3>4 DEF U
  <2>8. ASSUME ExactlyTyped(g, n), Built(g, n), rec.unit \in U,
               \A i \in 1..Len(rec.kids) : Honest(g, k(i))
        PROVE  NodeError(g, n) = Pass
    <3>1. /\ IsScalar(g[k(1)]) /\ Honest(g, k(1))
          /\ MayBeMoney(g[k(1)].unit) /\ MayMatch(g[k(1)].unit, rec.unit)
      BY <2>2, <2>3, <2>8, Zenon
    <3>2. g[k(1)].unit # "forged"
      BY <3>1 DEF Honest
    <3>3. rec.unit \in Currencies /\ rec.sound
      BY <2>1, <2>8, Zenon
    <3>4. IsMoney(g[k(1)].unit) /\ g[k(1)].unit = rec.unit
      BY <2>6, <3>1, <3>2, <3>3, HonestUnits
    <3>5. g[k(1)].unit \in ValidUnits
      BY <2>5, <3>4
    <3>6. QED
      BY <2>4, <3>1, <3>3, <3>4, <3>5, Zenon
  <2>9. QED
    BY <2>7, <2>8 DEF RuleAgrees, U
<1>12. CASE rec.type = "Both"
  <2>1. Built(g, n) <=> NodeError(g, n) = Pass
    BY <1>1, <1>12, BothRules DEF Built
  <2>2. QED
    BY <1>3, <1>4, <1>12, <2>1 DEF RuleAgrees, U
<1>13. CASE rec.type = "Scale"
  <2>1. /\ rec.type \in DOMAIN Arity /\ Arity[rec.type] = 2
    BY <1>13 DEF Arity
  <2>2. Built(g, n) <=> /\ rec.slots = "tuple" /\ IsScalar(g[k(1)]) /\ IsContract(g[k(2)])
                        /\ MayBeScalar(g[k(1)].unit)
    BY <1>1, <1>13, ScaleRules DEF Built
  <2>3. rec.slots = "tuple" => 1 \in 1..Len(rec.kids)
    <3>1. rec.slots = "tuple" => Len(rec.kids) = 2
      BY <1>2, <2>1 DEF FieldsOf
    <3>2. QED
      BY <3>1, FirstPositions, Zenon
  <2>4. NodeError(g, n) = Pass <=>
          IsScalar(g[k(1)]) /\ IsContract(g[k(2)]) /\ g[k(1)].unit = "scalar"
    BY <1>13, ScaleRules
  <2>5. /\ g[k(1)].unit = "scalar" => MayBeScalar(g[k(1)].unit)
        /\ g[k(1)].unit # "forged" /\ MayBeScalar(g[k(1)].unit) => g[k(1)].unit = "scalar"
    BY HonestUnits
  <2>6. ASSUME IsIterable(rec), NodeError(g, n) = Pass
        PROVE  ExactlyTyped(g, n) /\ Built(g, n) /\ rec.unit \in U
    BY <1>2, <1>3, <1>4, <1>13, <2>1, <2>2, <2>4, <2>5, <2>6 DEF U
  <2>7. ASSUME ExactlyTyped(g, n), Built(g, n), rec.unit \in U,
               \A i \in 1..Len(rec.kids) : Honest(g, k(i))
        PROVE  NodeError(g, n) = Pass
    <3>1. Honest(g, k(1)) /\ IsScalar(g[k(1)])
      BY <2>2, <2>3, <2>7, Zenon
    <3>2. g[k(1)].unit # "forged"
      BY <3>1 DEF Honest
    <3>3. QED
      BY <2>2, <2>4, <2>5, <2>7, <3>2
  <2>8. QED
    BY <2>6, <2>7 DEF RuleAgrees, U
<1>14. CASE rec.type = "ConditionalContract"
  <2>1. Built(g, n) <=> /\ rec.slots = "tuple" /\ IsBoolean(g[k(1)])
                        /\ IsContract(g[k(2)]) /\ IsContract(g[k(3)])
    BY <1>1, <1>14, ConditionalContractRules DEF Built
  <2>2. QED
    BY <1>2, <1>3, <1>4, <1>14, <2>1, ConditionalContractRules DEF RuleAgrees, Arity, U
<1>15. QED
  BY <1>6, <1>7, <1>8, <1>9, <1>10, <1>11, <1>12, <1>13, <1>14 DEF BooleanTypes, ContractTypes

LEMMA RulesAgree ==
  ASSUME NEW g, NEW n, FieldsOf(g[n]), IsSupported(g[n])
  PROVE  /\ IsIterable(g[n]) /\ NodeError(g, n) = Pass
              => ExactlyTyped(g, n) /\ Constructible(g, n)
         /\ (/\ ExactlyTyped(g, n) /\ Constructible(g, n)
             /\ \A i \in 1..Len(g[n].kids) : ExactlyTyped(g, g[n].kids[i]))
              => NodeError(g, n) = Pass
<1>1. RuleAgrees(g, n)
  BY ScalarRulesAgree, OtherRulesAgree DEF IsSupported, SupportedTypes
<1>2. Constructible(g, n) <=> Built(g, n) /\ g[n].unit \in ConstructedUnits(g, g[n])
  BY DEF Constructible, Built
<1>3. (\A i \in 1..Len(g[n].kids) : ExactlyTyped(g, g[n].kids[i]))
        => \A i \in 1..Len(g[n].kids) : Honest(g, g[n].kids[i])
  BY ExactIsHonest
<1>4. QED
  BY <1>1, <1>2, <1>3 DEF RuleAgrees

-----------------------------------------------------------------------------
(* The kinds of meanings.                                                  *)

LEMMA ConstantMeanings ==
  /\ Stuck.kind = "stuck" /\ Undefined.kind = "undefined"
  /\ \A b : Truth(b).kind = "truth"
  /\ \A s : Flows(s).kind = "flows"
BY DEF Stuck, Undefined, Truth, Flows, Meaning

LEMMA RationalMeaning ==
  ASSUME NEW u, NEW num, NEW den
  PROVE  Rational(u, num, den).kind = "number" /\ Rational(u, num, den).unit = u
BY DEF Rational, Meaning

-----------------------------------------------------------------------------
(* Rational numbers in lowest terms: there is one for each value.          *)

\* In a comparison of fractions a common positive factor can be dropped.
LEMMA Cancel ==
  ASSUME NEW a \in Int, NEW b \in Int, NEW k \in Nat \ {0}
  PROVE  /\ a * k = b * k => a = b
         /\ a * k <= b * k => a <= b
BY SMT

LEMMA CancelEither ==
  ASSUME NEW a \in Int, NEW b \in Int, NEW k \in Int, k # 0, a * k = b * k
  PROVE  a = b
BY SMT

LEMMA Multiples ==
  ASSUME NEW m \in Nat \ {0}, NEW v \in Int
  PROVE  /\ v % m = 0 => v \div m \in Int /\ (v \div m) * m = v
         /\ \A z \in Int : z * m = v => v % m = 0
<1>1. v % m = 0 => v \div m \in Int /\ (v \div m) * m = v
  BY SMT
<1>2. ASSUME NEW z \in Int, z * m = v PROVE v % m = 0
  <2>1. /\ v = m * (v \div m) + (v % m) /\ v \div m \in Int
        /\ v % m \in 0..(m - 1)
    BY SMT
  <2> DEFINE q == v \div m
             r == v % m
  <2>2. (z - q) * m = r
    BY <1>2, <2>1
  <2>3. q \in Int /\ r \in Int /\ 0 <= r /\ r < m
    BY <2>1
  <2> HIDE DEF q, r
  <2>4. z - q = 0
    BY <2>2, <2>3, SMT
  <2>5. r = 0
    BY <2>2, <2>4
  <2>6. QED
    BY <2>5 DEF r
<1>3. QED
  BY <1>1, <1>2

Least(n, m, k) ==
  k \in 1..m /\ (n * k) % m = 0 /\ \A j \in 1..(k - 1) : (n * j) % m # 0

LEMMA LeastExists ==
  ASSUME NEW n \in Int, NEW m \in Nat \ {0}
  PROVE  \E k \in 1..m : Least(n, m, k)
<1> DEFINE T == {k \in 1..m : (n * k) % m = 0}
<1>1. m \in T
  <2>1. n * m \in Int
    OBVIOUS
  <2>2. (n * m) % m = 0
    BY <2>1, Multiples
  <2>3. QED
    BY <2>2
<1>2. T \subseteq Nat
  OBVIOUS
<1> HIDE DEF T
<1>3. PICK k \in T : \A j \in T : k <= j
  BY <1>1, <1>2, FirstOf
<1>4. k \in 1..m /\ (n * k) % m = 0
  BY <1>3 DEF T
<1>5. ASSUME NEW j \in 1..(k - 1) PROVE (n * j) % m # 0
  <2>1. j \in 1..m /\ ~(k <= j)
    BY <1>4
  <2>2. j \notin T
    BY <1>3, <2>1
  <2>3. QED
    BY <2>1, <2>2 DEF T
<1>6. QED
  BY <1>4, <1>5 DEF Least

\* x is n/d in lowest terms.
Lowest(x, n, d) ==
  /\ x.p \in Int /\ x.q \in Nat \ {0} /\ x.p * d = n * x.q
  /\ \A j \in 1..(x.q - 1) : \A z \in Int : z * d # n * j

\* x is the number p/q of the unit u, and holds nothing else.
NumberRecord(x, u) ==
  x = [kind |-> "number", unit |-> u, p |-> x.p, q |-> x.q, flows |-> << >>]

LEMMA RationalFields ==
  ASSUME NEW u, NEW n \in Int, NEW d \in Int, d # 0
  PROVE  NumberRecord(Rational(u, n, d), u) /\ Lowest(Rational(u, n, d), n, d)
<1> DEFINE a == IF d < 0 THEN -n ELSE n
           m == SemAbs(d)
           q == CHOOSE k \in 1..m : /\ (a * k) % m = 0
                                   /\ \A j \in 1..(k - 1) : (a * j) % m # 0
           p == (a * q) \div m
           x == Rational(u, n, d)
<1>1. a \in Int /\ m \in Nat \ {0}
  BY DEF SemAbs
<1>2. (d < 0 /\ a = -n /\ m = -d) \/ (d > 0 /\ a = n /\ m = d)
  BY DEF SemAbs
<1>3. x = [kind |-> "number", unit |-> u, p |-> p, q |-> q, flows |-> << >>]
  <2>1. x = [Meaning("number") EXCEPT !.unit = u, !.p = p, !.q = q]
    BY Zenon DEF Rational
  <2> HIDE DEF x, p, q
  <2>2. QED
    BY <2>1 DEF Meaning
<1> HIDE DEF a, m, x
<1>4. q = CHOOSE k \in 1..m : Least(a, m, k)
  BY DEF Least
<1> HIDE DEF q
<1>5. Least(a, m, q)
  BY <1>1, <1>4, LeastExists
<1>6. q \in Nat \ {0} /\ a * q \in Int /\ (a * q) % m = 0
  BY <1>1, <1>5 DEF Least
<1>7. p \in Int /\ p * m = a * q
  BY <1>1, <1>6, Multiples
<1> HIDE DEF p
<1>8. p * d = n * q
  BY <1>2, <1>6, <1>7
<1>9. ASSUME NEW j \in 1..(q - 1), NEW z \in Int, z * d = n * j PROVE FALSE
  <2>1. j \in Nat
    OBVIOUS
  <2>2. z * m = a * j /\ a * j \in Int
    BY <1>1, <1>2, <1>9, <2>1
  <2>3. (a * j) % m = 0
    BY <1>1, <2>2, Multiples
  <2>4. QED
    BY <1>5, <2>3 DEF Least
<1>10. x.p = p /\ x.q = q
  BY <1>3
<1>11. NumberRecord(x, u)
  BY <1>3, <1>10 DEF NumberRecord
<1>12. Lowest(x, n, d)
  BY <1>6, <1>7, <1>8, <1>9, <1>10 DEF Lowest
<1>13. QED
  BY <1>11, <1>12 DEF x

\* Equal fractions have the same lowest terms.
LEMMA LowestAtMost ==
  ASSUME NEW x, NEW y, NEW a \in Int, NEW b \in Int, b # 0, Lowest(x, a, b),
         NEW c \in Int, NEW d \in Int, d # 0, Lowest(y, c, d), a * d = c * b
  PROVE  x.q <= y.q /\ y.p * b = a * y.q
<1> DEFINE p == y.p
           q == y.q
<1>1. p \in Int /\ q \in Nat \ {0} /\ p * d = c * q
  BY DEF Lowest
<1> HIDE DEF p, q
<1>2. p * b = a * q
  <2>1. (p * b) * d = (a * q) * d
    BY <1>1
  <2>2. p * b \in Int /\ a * q \in Int
    BY <1>1
  <2>3. QED
    BY <2>1, <2>2, CancelEither
<1>3. x.q <= q
  <2>1. x.q \in Nat \ {0} /\ \A j \in 1..(x.q - 1) : \A z \in Int : z * b # a * j
    BY DEF Lowest
  <2>2. q \notin 1..(x.q - 1)
    BY <1>1, <1>2, <2>1
  <2>3. QED
    BY <1>1, <2>1, <2>2
<1>4. QED
  BY <1>2, <1>3 DEF p, q

LEMMA RationalSame ==
  ASSUME NEW u, NEW a \in Int, NEW b \in Int, b # 0,
         NEW c \in Int, NEW d \in Int, d # 0, a * d = c * b
  PROVE  Rational(u, a, b) = Rational(u, c, d)
<1> DEFINE x == Rational(u, a, b)
           y == Rational(u, c, d)
<1>1. /\ NumberRecord(x, u) /\ Lowest(x, a, b)
      /\ NumberRecord(y, u) /\ Lowest(y, c, d)
  BY RationalFields
<1> HIDE DEF x, y
<1>2. x.q <= y.q
  BY <1>1, LowestAtMost
<1>9. y.p * b = a * y.q
  BY <1>1, LowestAtMost
<1>3. y.q <= x.q
  BY <1>1, LowestAtMost
<1>4. /\ x.p \in Int /\ x.q \in Int /\ x.p * b = a * x.q
      /\ y.p \in Int /\ y.q \in Int
  BY <1>1 DEF Lowest
<1>5. x.q = y.q
  BY <1>2, <1>3, <1>4
<1>6. x.p * b = y.p * b
  BY <1>4, <1>5, <1>9
<1>7. x.p = y.p
  BY <1>4, <1>6, CancelEither
<1>8. QED
  BY <1>1, <1>5, <1>7 DEF NumberRecord, x, y

\* A number of the unit u, as numbers are stored.
IsNumberOf(x, u) == \E n \in Int : \E d \in Int : d # 0 /\ x = Rational(u, n, d)

LEMMA ARational ==
  ASSUME NEW u, NEW n \in Int, NEW d \in Int, d # 0
  PROVE  IsNumberOf(Rational(u, n, d), u)
BY DEF IsNumberOf

LEMMA NumberFields ==
  ASSUME NEW u, NEW x, IsNumberOf(x, u)
  PROVE  /\ x.kind = "number" /\ x.unit = u /\ x.p \in Int /\ x.q \in Nat \ {0}
         /\ x = Rational(u, x.p, x.q)
<1>1. PICK n \in Int : \E d \in Int : d # 0 /\ x = Rational(u, n, d)
  BY DEF IsNumberOf
<1>2. PICK d \in Int : d # 0 /\ x = Rational(u, n, d)
  BY <1>1
<1>3. NumberRecord(x, u) /\ Lowest(x, n, d)
  BY <1>2, RationalFields
<1>4. x.kind = "number" /\ x.unit = u
  BY <1>3 DEF NumberRecord
<1>5. x.p \in Int /\ x.q \in Nat \ {0} /\ x.p * d = n * x.q
  BY <1>3 DEF Lowest
<1>6. Rational(u, n, d) = Rational(u, x.p, x.q)
  <2>1. n * x.q = x.p * d /\ x.q \in Int /\ x.q # 0
    BY <1>5
  <2>2. QED
    BY <1>2, <1>5, <2>1, RationalSame
<1>7. QED
  BY <1>2, <1>4, <1>5, <1>6

\* Numbers of the same value and unit are one.
LEMMA SameNumber ==
  ASSUME NEW u, NEW x, IsNumberOf(x, u), NEW y, IsNumberOf(y, u), x.p * y.q = y.p * x.q
  PROVE  x = y
<1>1. /\ x.p \in Int /\ x.q \in Nat \ {0} /\ x = Rational(u, x.p, x.q)
      /\ y.p \in Int /\ y.q \in Nat \ {0} /\ y = Rational(u, y.p, y.q)
  BY NumberFields
<1>2. x.q \in Int /\ x.q # 0 /\ y.q \in Int /\ y.q # 0
  BY <1>1
<1>3. Rational(u, x.p, x.q) = Rational(u, y.p, y.q)
  BY <1>1, <1>2, RationalSame
<1>4. QED
  BY <1>1, <1>3

-----------------------------------------------------------------------------
(* The operations of collections: their operands may change places.        *)

\* The sum of three numbers does not depend on the order of the last two.
LEMMA PlusTwice ==
  ASSUME NEW u, NEW x, IsNumberOf(x, u), NEW y, IsNumberOf(y, u), NEW w, IsNumberOf(w, u)
  PROVE  Plus(Plus(x, y), w)
           = Rational(u, (x.p * y.q + y.p * x.q) * w.q + w.p * (x.q * y.q),
                      (x.q * y.q) * w.q)
<1> DEFINE n == x.p * y.q + y.p * x.q
           d == x.q * y.q
           s == Rational(u, n, d)
<1>1. /\ x.p \in Int /\ x.q \in Nat \ {0} /\ x.unit = u
      /\ y.p \in Int /\ y.q \in Nat \ {0}
      /\ w.p \in Int /\ w.q \in Nat \ {0}
  BY NumberFields
<1>2. n \in Int /\ d \in Nat \ {0}
  <2>1. d \in Nat /\ d # 0
    BY <1>1, SMT
  <2>2. n \in Int
    BY <1>1
  <2>3. QED
    BY <2>1, <2>2
<1>3. Plus(x, y) = s
  BY <1>1 DEF Plus
<1> HIDE DEF n, d, s
<1>4. Lowest(s, n, d) /\ NumberRecord(s, u)
  BY <1>2, RationalFields DEF s
<1>5. /\ s.p \in Int /\ s.q \in Nat \ {0} /\ s.p * d = n * s.q
      /\ s.unit = u
  BY <1>4 DEF Lowest, NumberRecord
<1> DEFINE a == s.p * w.q + w.p * s.q
           b == s.q * w.q
           a2 == n * w.q + w.p * d
           b2 == d * w.q
<1>6. Plus(s, w) = Rational(u, a, b)
  BY <1>5 DEF Plus
<1>7. a \in Int /\ a2 \in Int /\ b \in Int /\ b2 \in Int
  BY <1>1, <1>2, <1>5
<1>8. b # 0 /\ b2 # 0
  BY <1>1, <1>2, <1>5, SMT
<1>9. a * b2 = a2 * b
  <2> DEFINE sp == s.p
             sq == s.q
             wp == w.p
             wq == w.q
  <2>1. sp \in Int /\ sq \in Int /\ wp \in Int /\ wq \in Int /\ sp * d = n * sq
    BY <1>1, <1>5
  <2>2. (sp * wq + wp * sq) * (d * wq) = (n * wq + wp * d) * (sq * wq)
    <3> HIDE DEF sp, sq, wp, wq
    <3>1. (sp * wq + wp * sq) * (d * wq) = (sp * d) * (wq * wq) + (wp * sq) * (d * wq)
      BY <1>2, <2>1
    <3>2. (n * wq + wp * d) * (sq * wq) = (n * sq) * (wq * wq) + (wp * sq) * (d * wq)
      BY <1>2, <2>1
    <3>3. QED
      BY <2>1, <3>1, <3>2
  <2>3. QED
    BY <2>2
<1> HIDE DEF a, b, a2, b2
<1>10. Rational(u, a, b) = Rational(u, a2, b2)
  BY <1>7, <1>8, <1>9, RationalSame
<1>11. QED
  BY <1>3, <1>6, <1>10 DEF a2, b2, n, d

LEMMA PlusLaws ==
  ASSUME NEW u, NEW x, IsNumberOf(x, u), NEW y, IsNumberOf(y, u), NEW w, IsNumberOf(w, u)
  PROVE  /\ IsNumberOf(Plus(x, y), u)
         /\ Plus(x, y) = Plus(y, x)
         /\ Plus(Plus(x, y), w) = Plus(Plus(x, w), y)
<1>1. /\ x.p \in Int /\ x.q \in Nat \ {0} /\ x.unit = u
      /\ y.p \in Int /\ y.q \in Nat \ {0} /\ y.unit = u
      /\ w.p \in Int /\ w.q \in Nat \ {0}
  BY NumberFields
<1>2. IsNumberOf(Plus(x, y), u)
  <2> DEFINE n == x.p * y.q + y.p * x.q
             d == x.q * y.q
  <2>1. n \in Int /\ d \in Int
    BY <1>1
  <2>2. d # 0
    BY <1>1, SMT
  <2>3. Plus(x, y) = Rational(u, n, d)
    BY <1>1 DEF Plus
  <2> HIDE DEF n, d
  <2>4. QED
    BY <2>1, <2>2, <2>3, ARational
<1>3. Plus(x, y) = Plus(y, x)
  <2>1. x.p * y.q + y.p * x.q = y.p * x.q + x.p * y.q /\ x.q * y.q = y.q * x.q
    BY <1>1
  <2>2. QED
    BY <1>1, <2>1 DEF Plus
<1>4. Plus(Plus(x, y), w) = Plus(Plus(x, w), y)
  <2>1. Plus(Plus(x, y), w)
          = Rational(u, (x.p * y.q + y.p * x.q) * w.q + w.p * (x.q * y.q),
                     (x.q * y.q) * w.q)
    BY PlusTwice
  <2>2. Plus(Plus(x, w), y)
          = Rational(u, (x.p * w.q + w.p * x.q) * y.q + y.p * (x.q * w.q),
                     (x.q * w.q) * y.q)
    BY PlusTwice
  <2>3. /\ (x.p * y.q + y.p * x.q) * w.q + w.p * (x.q * y.q)
             = (x.p * w.q + w.p * x.q) * y.q + y.p * (x.q * w.q)
        /\ (x.q * y.q) * w.q = (x.q * w.q) * y.q
    BY <1>1
  <2>4. QED
    BY <2>1, <2>2, <2>3
<1>5. QED
  BY <1>2, <1>3, <1>4

\* Numbers of a unit are in a total order.
AtMost(x, y) == ~LessThan(y, x)

LEMMA NumberOrder ==
  ASSUME NEW u, NEW x, IsNumberOf(x, u), NEW y, IsNumberOf(y, u)
  PROVE  /\ AtMost(x, x) /\ (AtMost(x, y) \/ AtMost(y, x))
         /\ AtMost(x, y) /\ AtMost(y, x) => x = y
<1>1. /\ x.p \in Int /\ x.q \in Nat \ {0} /\ y.p \in Int /\ y.q \in Nat \ {0}
  BY NumberFields
<1>2. /\ x.p * y.q \in Int /\ y.p * x.q \in Int /\ x.p * x.q \in Int
      /\ AtMost(x, y) <=> x.p * y.q <= y.p * x.q
      /\ AtMost(y, x) <=> y.p * x.q <= x.p * y.q
  <2>1. x.p * y.q \in Int /\ y.p * x.q \in Int /\ x.p * x.q \in Int
    BY <1>1
  <2>2. QED
    BY <2>1 DEF AtMost, LessThan
<1>3. AtMost(x, x)
  BY <1>2 DEF AtMost, LessThan
<1>4. ASSUME AtMost(x, y), AtMost(y, x) PROVE x = y
  <2>1. x.p * y.q = y.p * x.q
    BY <1>2, <1>4
  <2>2. QED
    BY <2>1, SameNumber
<1>5. QED
  BY <1>2, <1>3, <1>4

LEMMA NumberOrderTransitive ==
  ASSUME NEW u, NEW x, IsNumberOf(x, u), NEW y, IsNumberOf(y, u), NEW w, IsNumberOf(w, u),
         AtMost(x, y), AtMost(y, w)
  PROVE  AtMost(x, w)
<1> DEFINE xp == x.p
           xq == x.q
           yp == y.p
           yq == y.q
           wp == w.p
           wq == w.q
<1>1. /\ xp \in Int /\ xq \in Nat \ {0} /\ yp \in Int /\ yq \in Nat \ {0}
      /\ wp \in Int /\ wq \in Nat \ {0}
  BY NumberFields
<1>2. ~(yp * xq < xp * yq) /\ ~(wp * yq < yp * wq)
  BY DEF AtMost, LessThan
<1> HIDE DEF xp, xq, yp, yq, wp, wq
<1>3. xp * yq <= yp * xq /\ yp * wq <= wp * yq
  <2>1. yp * xq \in Int /\ xp * yq \in Int /\ wp * yq \in Int /\ yp * wq \in Int
    BY <1>1
  <2>2. QED
    BY <1>2, <2>1
<1>4. (xp * yq) * wq <= (yp * xq) * wq
  BY <1>1, <1>3, SMT
<1>5. (yp * wq) * xq <= (wp * yq) * xq
  BY <1>1, <1>3, SMT
<1>6. (xp * wq) * yq <= (wp * xq) * yq
  BY <1>1, <1>4, <1>5
<1>7. xp * wq <= wp * xq
  <2>1. xp * wq \in Int /\ wp * xq \in Int
    BY <1>1
  <2>2. QED
    BY <1>1, <1>6, <2>1, Cancel
<1>8. ~(wp * xq < xp * wq)
  <2>1. xp * wq \in Int /\ wp * xq \in Int
    BY <1>1
  <2>2. QED
    BY <1>7, <2>1
<1>9. QED
  BY <1>8 DEF AtMost, LessThan, xp, xq, wp, wq

\* The operation that keeps one of two operands, on either side.
Keeps(op, x, y, low) ==
  /\ op \in {x, y}
  /\ IF low THEN AtMost(op, x) /\ AtMost(op, y) ELSE AtMost(x, op) /\ AtMost(y, op)

LEMMA ExtremeKeeps ==
  ASSUME NEW u, NEW x, IsNumberOf(x, u), NEW y, IsNumberOf(y, u)
  PROVE  /\ Keeps(Combine("Maximum", x, y), x, y, FALSE)
         /\ Keeps(Combine("Minimum", x, y), x, y, TRUE)
<1>1. AtMost(x, x) /\ AtMost(y, y) /\ (AtMost(x, y) \/ AtMost(y, x))
  BY NumberOrder
<1>2. Combine("Maximum", x, y) = IF LessThan(x, y) THEN y ELSE x
  BY DEF Combine
<1>3. Combine("Minimum", x, y) = IF LessThan(y, x) THEN y ELSE x
  BY DEF Combine
<1>4. CASE LessThan(x, y)
  <2>1. ~AtMost(y, x) /\ AtMost(x, y)
    BY <1>1, <1>4 DEF AtMost
  <2>2. ~LessThan(y, x)
    BY <2>1 DEF AtMost
  <2>3. QED
    BY <1>1, <1>2, <1>3, <1>4, <2>1, <2>2 DEF Keeps
<1>5. CASE ~LessThan(x, y)
  <2>1. AtMost(y, x)
    BY <1>5 DEF AtMost
  <2>2. Combine("Maximum", x, y) = x
    BY <1>2, <1>5
  <2>3. Keeps(Combine("Maximum", x, y), x, y, FALSE)
    BY <1>1, <2>1, <2>2 DEF Keeps
  <2>4. CASE LessThan(y, x)
    BY <1>1, <1>3, <2>1, <2>3, <2>4 DEF Keeps
  <2>5. CASE ~LessThan(y, x)
    BY <1>1, <1>3, <2>3, <2>5 DEF Keeps, AtMost
  <2>6. QED
    BY <2>4, <2>5
<1>6. QED
  BY <1>4, <1>5

\* Of three operands the same one is kept, whichever is looked at last.
LEMMA ExtremeUnique ==
  ASSUME NEW u, NEW x, IsNumberOf(x, u), NEW y, IsNumberOf(y, u), NEW w, IsNumberOf(w, u),
         NEW low \in BOOLEAN, NEW a, Keeps(a, x, y, low), NEW b, Keeps(b, a, w, low),
         NEW c, Keeps(c, x, w, low), NEW d, Keeps(d, c, y, low)
  PROVE  b = d
<1>1. b \in {x, y, w} /\ d \in {x, y, w} /\ a \in {x, y} /\ c \in {x, w}
  BY DEF Keeps
<1>2. IsNumberOf(a, u) /\ IsNumberOf(b, u) /\ IsNumberOf(c, u) /\ IsNumberOf(d, u)
  BY <1>1
<1>3. CASE low
  <2>1. AtMost(b, x) /\ AtMost(b, y) /\ AtMost(b, w)
    BY <1>2, <1>3, NumberOrderTransitive DEF Keeps
  <2>2. AtMost(d, x) /\ AtMost(d, y) /\ AtMost(d, w)
    BY <1>2, <1>3, NumberOrderTransitive DEF Keeps
  <2>3. AtMost(b, d) /\ AtMost(d, b)
    BY <1>1, <2>1, <2>2
  <2>4. QED
    BY <1>2, <2>3, NumberOrder
<1>4. CASE ~low
  <2>1. AtMost(x, b) /\ AtMost(y, b) /\ AtMost(w, b)
    BY <1>2, <1>4, NumberOrderTransitive DEF Keeps
  <2>2. AtMost(x, d) /\ AtMost(y, d) /\ AtMost(w, d)
    BY <1>2, <1>4, NumberOrderTransitive DEF Keeps
  <2>3. AtMost(b, d) /\ AtMost(d, b)
    BY <1>1, <2>1, <2>2
  <2>4. QED
    BY <1>2, <2>3, NumberOrder
<1>5. QED
  BY <1>3, <1>4

LEMMA ExtremeLaws ==
  ASSUME NEW u, NEW x, IsNumberOf(x, u), NEW y, IsNumberOf(y, u), NEW w, IsNumberOf(w, u),
         NEW type \in {"Maximum", "Minimum"}
  PROVE  /\ IsNumberOf(Combine(type, x, y), u)
         /\ Combine(type, x, y) = Combine(type, y, x)
         /\ Combine(type, Combine(type, x, y), w) = Combine(type, Combine(type, x, w), y)
<1> DEFINE low == type = "Minimum"
           C(v, z) == Combine(type, v, z)
<1>1. ASSUME NEW v, IsNumberOf(v, u), NEW z, IsNumberOf(z, u)
      PROVE  Keeps(C(v, z), v, z, low) /\ IsNumberOf(C(v, z), u)
  <2>1. Keeps(C(v, z), v, z, low)
    BY <1>1, ExtremeKeeps
  <2>2. C(v, z) \in {v, z}
    BY <2>1 DEF Keeps
  <2>3. QED
    BY <1>1, <2>1, <2>2
<1>2. low \in BOOLEAN
  OBVIOUS
<1> HIDE DEF C, low
<1>3. C(x, y) = C(y, x)
  <2>1. Keeps(C(x, y), x, y, low) /\ Keeps(C(y, x), y, x, low)
    BY <1>1
  <2>2. IsNumberOf(C(x, y), u) /\ IsNumberOf(C(y, x), u)
    BY <1>1
  <2>3. AtMost(C(x, y), C(y, x)) /\ AtMost(C(y, x), C(x, y))
    BY <2>1 DEF Keeps
  <2>4. QED
    BY <2>2, <2>3, NumberOrder
<1>4. C(C(x, y), w) = C(C(x, w), y)
  <2>1. Keeps(C(x, y), x, y, low) /\ Keeps(C(x, w), x, w, low)
    BY <1>1
  <2>2. Keeps(C(C(x, y), w), C(x, y), w, low) /\ Keeps(C(C(x, w), y), C(x, w), y, low)
    BY <1>1
  <2>3. QED
    BY <1>2, <2>1, <2>2, ExtremeUnique
<1>5. IsNumberOf(C(x, y), u)
  BY <1>1
<1>6. QED
  BY <1>3, <1>4, <1>5 DEF C

LEMMA TruthLaws ==
  ASSUME NEW x, NEW y, NEW w, NEW type \in {"AllOf", "AnyOf"}
  PROVE  /\ Combine(type, x, y) = Combine(type, y, x)
         /\ Combine(type, Combine(type, x, y), w) = Combine(type, Combine(type, x, w), y)
<1>1. CASE type = "AllOf"
  <2>1. \A a, b : Combine(type, a, b) = Truth(a.p = 1 /\ b.p = 1)
    BY <1>1 DEF Combine
  <2>2. Combine(type, x, y) = Combine(type, y, x)
    BY <2>1 DEF Truth
  <2>3. /\ Combine(type, x, y).p = 1 <=> x.p = 1 /\ y.p = 1
        /\ Combine(type, x, w).p = 1 <=> x.p = 1 /\ w.p = 1
    BY <2>1 DEF Truth, Meaning
  <2>4. QED
    BY <2>1, <2>2, <2>3 DEF Truth
<1>2. CASE type = "AnyOf"
  <2>1. \A a, b : Combine(type, a, b) = Truth(a.p = 1 \/ b.p = 1)
    BY <1>2 DEF Combine
  <2>2. Combine(type, x, y) = Combine(type, y, x)
    BY <2>1 DEF Truth
  <2>3. /\ Combine(type, x, y).p = 1 <=> x.p = 1 \/ y.p = 1
        /\ Combine(type, x, w).p = 1 <=> x.p = 1 \/ w.p = 1
    BY <2>1 DEF Truth, Meaning
  <2>4. QED
    BY <2>1, <2>2, <2>3 DEF Truth
<1>3. QED
  BY <1>1, <1>2

\* What a collection of a type and unit may combine: numbers of one unit, or
\* any truths.
Combinable(type, u, x) ==
  type \in {"Add", "Maximum", "Minimum"} => IsNumberOf(x, u)

\* The five commutative and associative types.
LEMMA CombineLaws ==
  ASSUME NEW type \in MergedTypes, NEW u, NEW x, Combinable(type, u, x),
         NEW y, Combinable(type, u, y), NEW w, Combinable(type, u, w)
  PROVE  /\ Combinable(type, u, Combine(type, x, y))
         /\ Combine(type, x, y) = Combine(type, y, x)
         /\ Combine(type, Combine(type, x, y), w) = Combine(type, Combine(type, x, w), y)
<1>1. CASE type = "Add"
  <2>1. IsNumberOf(x, u) /\ IsNumberOf(y, u) /\ IsNumberOf(w, u)
    BY <1>1 DEF Combinable
  <2>2. \A a, b : Combine(type, a, b) = Plus(a, b)
    BY <1>1 DEF Combine
  <2>3. QED
    BY <2>1, <2>2, PlusLaws DEF Combinable
<1>2. CASE type \in {"Maximum", "Minimum"}
  <2>1. IsNumberOf(x, u) /\ IsNumberOf(y, u) /\ IsNumberOf(w, u)
    BY <1>2 DEF Combinable
  <2>2. QED
    BY <1>2, <2>1, ExtremeLaws DEF Combinable
<1>3. CASE type \in {"AllOf", "AnyOf"}
  BY <1>3, TruthLaws DEF Combinable
<1>4. QED
  BY <1>1, <1>2, <1>3 DEF MergedTypes, CollectionTypes

-----------------------------------------------------------------------------
(* The fold of a collection, from the left.                                *)

\* The fold of a collection exists: it is built from the left.
IsFold(type, s, k, F) ==
  F = [i \in 1..k |-> IF i = 1 THEN s[1] ELSE Combine(type, F[i - 1], s[i])]

LEMMA FoldExists ==
  ASSUME NEW type, NEW s, NEW m \in Nat
  PROVE  \E F : IsFold(type, s, m, F)
<1> DEFINE T == {k \in Nat : ~\E F : IsFold(type, s, k, F)}
<1>1. SUFFICES ASSUME T # {} PROVE FALSE
  OBVIOUS
<1>2. PICK k \in T : \A j \in T : k <= j
  BY <1>1, FirstOf
<1>3. k \in Nat /\ ~\E F : IsFold(type, s, k, F)
  BY <1>2
<1>4. CASE k = 0
  <2> DEFINE F == [i \in 1..0 |-> s[1]]
  <2>1. F = [i \in 1..0 |-> IF i = 1 THEN s[1] ELSE Combine(type, F[i - 1], s[i])]
    OBVIOUS
  <2>2. IsFold(type, s, 0, F)
    BY <2>1 DEF IsFold
  <2>3. QED
    BY <1>3, <1>4, <2>2
<1>5. CASE k # 0
  <2>1. k - 1 \in Nat /\ k - 1 \notin T
    BY <1>2, <1>3, <1>5
  <2>2. PICK F : IsFold(type, s, k - 1, F)
    BY <2>1
  <2> DEFINE G == [i \in 1..k |-> IF i = 1 THEN s[1] ELSE Combine(type, F[i - 1], s[i])]
  <2>3. \A i \in 1..(k - 1) : G[i] = F[i]
    BY <1>3, <2>2 DEF IsFold
  <2>4. \A i \in 1..k : i # 1 => i - 1 \in 1..(k - 1)
    BY <1>3
  <2>5. \A i \in 1..k : G[i] = IF i = 1 THEN s[1] ELSE Combine(type, G[i - 1], s[i])
    BY <2>3, <2>4
  <2>6. G = [i \in 1..k |-> G[i]]
    OBVIOUS
  <2> HIDE DEF G
  <2>7. G = [i \in 1..k |-> IF i = 1 THEN s[1] ELSE Combine(type, G[i - 1], s[i])]
    BY <2>5, <2>6
  <2>8. QED
    BY <1>3, <2>7 DEF IsFold
<1>6. QED
  BY <1>4, <1>5

\* The meaning of a collection of two operands or more.
LEMMA ReduceFold ==
  ASSUME NEW type, NEW s, Len(s) \in Nat
  PROVE  \E F : IsFold(type, s, Len(s), F) /\ Reduce(type, s) = F[Len(s)]
<1> DEFINE F == CHOOSE F : IsFold(type, s, Len(s), F)
<1>1. IsFold(type, s, Len(s), F)
  BY FoldExists
<1>2. Reduce(type, s) = F[Len(s)]
  BY DEF Reduce, IsFold
<1>3. QED
  BY <1>1, <1>2

\* The meaning of the first k operands.
Folded(type, s, k) == (CHOOSE F : IsFold(type, s, k, F))[k]

LEMMA CountsUp ==
  ASSUME NEW T, 0 \in T, \A n \in Nat : n \in T => n + 1 \in T
  PROVE  \A n \in Nat : n \in T
<1> DEFINE Bad == {n \in Nat : n \notin T}
<1>1. SUFFICES ASSUME Bad # {} PROVE FALSE
  OBVIOUS
<1>2. PICK n \in Bad : \A j \in Bad : n <= j
  BY <1>1, FirstOf
<1>3. n \in Nat /\ n \notin T /\ n # 0
  BY <1>2
<1>4. n - 1 \in Nat /\ n - 1 \notin Bad
  BY <1>2, <1>3
<1>5. QED
  BY <1>3, <1>4

\* Folds of one list agree as far as both go.
LEMMA FoldsAgree ==
  ASSUME NEW type, NEW s, NEW j \in Nat, NEW k \in Nat,
         NEW F, IsFold(type, s, j, F), NEW G, IsFold(type, s, k, G)
  PROVE  \A i \in 1..j : i <= k => F[i] = G[i]
<1> DEFINE T == {i \in Nat : i \in 1..j /\ i <= k => F[i] = G[i]}
<1>1. /\ \A i \in 1..j : F[i] = IF i = 1 THEN s[1] ELSE Combine(type, F[i - 1], s[i])
      /\ \A i \in 1..k : G[i] = IF i = 1 THEN s[1] ELSE Combine(type, G[i - 1], s[i])
  BY DEF IsFold
<1>2. 0 \in T
  OBVIOUS
<1>3. ASSUME NEW i \in Nat, i \in T PROVE i + 1 \in T
  <2>1. SUFFICES ASSUME i + 1 \in 1..j, i + 1 <= k PROVE F[i + 1] = G[i + 1]
    OBVIOUS
  <2>2. i + 1 \in 1..k
    BY <2>1
  <2>3. CASE i = 0
    BY <1>1, <2>1, <2>2, <2>3
  <2>4. CASE i # 0
    <3>1. F[i] = G[i] /\ i + 1 # 1 /\ (i + 1) - 1 = i
      BY <1>3, <2>1, <2>4
    <3>2. F[i + 1] = Combine(type, F[i], s[i + 1]) /\ G[i + 1] = Combine(type, G[i], s[i + 1])
      BY <1>1, <2>1, <2>2, <3>1
    <3>3. QED
      BY <3>1, <3>2
  <2>5. QED
    BY <2>3, <2>4
<1> HIDE DEF T
<1>4. \A i \in Nat : i \in T
  BY <1>2, <1>3, CountsUp
<1>5. QED
  BY <1>4 DEF T

LEMMA FoldedSteps ==
  ASSUME NEW type, NEW s
  PROVE  /\ Folded(type, s, 1) = s[1]
         /\ \A k \in Nat \ {0} :
              Folded(type, s, k + 1) = Combine(type, Folded(type, s, k), s[k + 1])
<1> DEFINE F(k) == CHOOSE F : IsFold(type, s, k, F)
<1>1. ASSUME NEW k \in Nat PROVE IsFold(type, s, k, F(k))
  BY FoldExists
<1>2. \A k \in Nat : \A i \in 1..k :
        F(k)[i] = IF i = 1 THEN s[1] ELSE Combine(type, F(k)[i - 1], s[i])
  <2>1. SUFFICES ASSUME NEW k \in Nat, NEW i \in 1..k
                 PROVE  F(k)[i] = IF i = 1 THEN s[1] ELSE Combine(type, F(k)[i - 1], s[i])
    OBVIOUS
  <2> DEFINE G == F(k)
  <2>2. IsFold(type, s, k, G)
    BY <1>1
  <2> HIDE DEF F, G
  <2>3. G[i] = IF i = 1 THEN s[1] ELSE Combine(type, G[i - 1], s[i])
    BY <2>2 DEF IsFold
  <2>4. QED
    BY <2>3 DEF G
<1>3. \A k : Folded(type, s, k) = F(k)[k]
  BY DEF Folded
<1> HIDE DEF F
<1>4. Folded(type, s, 1) = s[1]
  <2>1. 1 \in Nat /\ 1 \in 1..1
    OBVIOUS
  <2>2. QED
    BY <1>2, <1>3, <2>1
<1>5. ASSUME NEW k \in Nat \ {0}
      PROVE  Folded(type, s, k + 1) = Combine(type, Folded(type, s, k), s[k + 1])
  <2>1. k + 1 \in Nat /\ k + 1 \in 1..(k + 1) /\ k + 1 # 1 /\ (k + 1) - 1 = k /\ k \in 1..k
        /\ k <= k + 1
    OBVIOUS
  <2>2. F(k + 1)[k + 1] = Combine(type, F(k + 1)[k], s[k + 1])
    BY <1>2, <2>1
  <2>3. F(k)[k] = F(k + 1)[k]
    BY <1>1, <2>1, FoldsAgree
  <2>4. QED
    BY <1>3, <2>2, <2>3
<1>6. QED
  BY <1>4, <1>5

LEMMA ReduceIsFolded ==
  ASSUME NEW type, NEW s
  PROVE  Reduce(type, s) = Folded(type, s, Len(s))
BY DEF Reduce, Folded, IsFold

\* Only the first k entries matter.
LEMMA FoldedSame ==
  ASSUME NEW type, NEW s, NEW t, NEW k \in Nat \ {0}, \A i \in 1..k : s[i] = t[i]
  PROVE  Folded(type, s, k) = Folded(type, t, k)
<1> DEFINE T == {i \in Nat : i \in 1..k => Folded(type, s, i) = Folded(type, t, i)}
<1>1. 0 \in T
  OBVIOUS
<1>2. ASSUME NEW i \in Nat, i \in T PROVE i + 1 \in T
  <2>1. SUFFICES ASSUME i + 1 \in 1..k
                 PROVE  Folded(type, s, i + 1) = Folded(type, t, i + 1)
    OBVIOUS
  <2>2. CASE i = 0
    <3>1. i + 1 = 1 /\ s[1] = t[1]
      BY <2>1, <2>2
    <3>2. QED
      BY <3>1, FoldedSteps
  <2>3. CASE i # 0
    <3>1. i \in Nat \ {0} /\ Folded(type, s, i) = Folded(type, t, i) /\ s[i + 1] = t[i + 1]
      BY <1>2, <2>1, <2>3
    <3>2. QED
      BY <3>1, FoldedSteps
  <2>4. QED
    BY <2>2, <2>3
<1> HIDE DEF T
<1>3. \A i \in Nat : i \in T
  BY <1>1, <1>2, CountsUp
<1>4. k \in Nat /\ k \in 1..k
  OBVIOUS
<1>5. QED
  BY <1>3, <1>4 DEF T

\* The first n entries of s can be combined.
Operable(type, u, s, n) == \A i \in 1..n : Combinable(type, u, s[i])

LEMMA FoldedCombinable ==
  ASSUME NEW type \in MergedTypes, NEW u, NEW s, NEW k \in Nat \ {0},
         Operable(type, u, s, k)
  PROVE  Combinable(type, u, Folded(type, s, k))
<1> DEFINE T == {i \in Nat : i \in 1..k => Combinable(type, u, Folded(type, s, i))}
<1>1. 0 \in T
  OBVIOUS
<1>2. ASSUME NEW i \in Nat, i \in T PROVE i + 1 \in T
  <2>1. SUFFICES ASSUME i + 1 \in 1..k
                 PROVE  Combinable(type, u, Folded(type, s, i + 1))
    OBVIOUS
  <2>2. Combinable(type, u, s[i + 1])
    BY <2>1 DEF Operable
  <2>3. CASE i = 0
    <3>1. i + 1 = 1
      BY <2>3
    <3>2. QED
      BY <2>2, <3>1, FoldedSteps
  <2>4. CASE i # 0
    <3>1. i \in Nat \ {0} /\ Combinable(type, u, Folded(type, s, i))
      BY <1>2, <2>1, <2>4
    <3>2. Folded(type, s, i + 1) = Combine(type, Folded(type, s, i), s[i + 1])
      BY <3>1, FoldedSteps
    <3>3. QED
      BY <2>2, <3>1, <3>2, CombineLaws
  <2>5. QED
    BY <2>3, <2>4
<1> HIDE DEF T
<1>3. \A i \in Nat : i \in T
  BY <1>1, <1>2, CountsUp
<1>4. k \in Nat /\ k \in 1..k
  OBVIOUS
<1>5. QED
  BY <1>3, <1>4 DEF T

\* s without its j-th entry.
Without(s, j) == [i \in Nat |-> IF i < j THEN s[i] ELSE s[i + 1]]

LEMMA WithoutFacts ==
  ASSUME NEW s, NEW n \in Nat, NEW j \in 1..(n + 1)
  PROVE  /\ \A i \in 1..(j - 1) : Without(s, j)[i] = s[i]
         /\ \A i \in j..n : Without(s, j)[i] = s[i + 1]
         /\ \A i \in 1..n : i \in 1..(j - 1) \/ i \in j..n
<1>1. ASSUME NEW i \in 1..(j - 1) PROVE Without(s, j)[i] = s[i]
  <2>1. i \in Nat /\ i < j
    OBVIOUS
  <2>2. QED
    BY <2>1 DEF Without
<1>2. ASSUME NEW i \in j..n PROVE Without(s, j)[i] = s[i + 1]
  <2>1. i \in Nat /\ ~(i < j)
    OBVIOUS
  <2>2. QED
    BY <2>1 DEF Without
<1>3. QED
  BY <1>1, <1>2

LEMMA WithoutOperable ==
  ASSUME NEW type, NEW u, NEW s, NEW n \in Nat, NEW j \in 1..(n + 1),
         Operable(type, u, s, n + 1)
  PROVE  Operable(type, u, Without(s, j), n)
<1>1. SUFFICES ASSUME NEW i \in 1..n PROVE Combinable(type, u, Without(s, j)[i])
  BY DEF Operable
<1>2. i \in 1..(n + 1) /\ i + 1 \in 1..(n + 1)
  OBVIOUS
<1>3. Combinable(type, u, s[i]) /\ Combinable(type, u, s[i + 1])
  BY <1>2 DEF Operable
<1>4. Without(s, j)[i] = s[i] \/ Without(s, j)[i] = s[i + 1]
  BY WithoutFacts
<1>5. QED
  BY <1>3, <1>4

\* Any operand may be combined last.
Exchanges(type, s, n, j) ==
  Folded(type, s, n + 1) = Combine(type, Folded(type, Without(s, j), n), s[j])

LEMMA ExchangeTwo ==
  ASSUME NEW type \in MergedTypes, NEW u, NEW s, Operable(type, u, s, 2),
         NEW j \in 1..2
  PROVE  Exchanges(type, s, 1, j)
<1>1. Combinable(type, u, s[1]) /\ Combinable(type, u, s[2])
  BY DEF Operable
<1>2. Folded(type, s, 2) = Combine(type, s[1], s[2])
  <2>1. 1 \in Nat \ {0} /\ 1 + 1 = 2
    OBVIOUS
  <2>2. QED
    BY <2>1, FoldedSteps
<1>3. Combine(type, s[1], s[2]) = Combine(type, s[2], s[1])
  BY <1>1, CombineLaws
<1>4. Folded(type, Without(s, j), 1) = Without(s, j)[1]
  BY FoldedSteps
<1>5. CASE j = 1
  <2>1. Without(s, j)[1] = s[2]
    BY <1>5, WithoutFacts DEF Without
  <2>2. QED
    BY <1>2, <1>3, <1>4, <1>5, <2>1 DEF Exchanges
<1>6. CASE j = 2
  <2>1. Without(s, j)[1] = s[1]
    BY <1>6 DEF Without
  <2>2. QED
    BY <1>2, <1>4, <1>6, <2>1 DEF Exchanges
<1>7. QED
  BY <1>5, <1>6

LEMMA ExchangeMore ==
  ASSUME NEW type \in MergedTypes, NEW u, NEW s, NEW n \in Nat \ {0},
         Operable(type, u, s, n + 2), NEW j \in 1..(n + 2),
         j # n + 2 => Exchanges(type, s, n, j)
  PROVE  Exchanges(type, s, n + 1, j)
<1> DEFINE t == Without(s, j)
           last == s[n + 2]
<1>1. n + 1 \in Nat \ {0} /\ (n + 1) + 1 = n + 2
  OBVIOUS
<1>2. Folded(type, s, n + 2) = Combine(type, Folded(type, s, n + 1), last)
  BY <1>1, FoldedSteps
<1>3. CASE j = n + 2
  <2>1. \A i \in 1..(n + 1) : s[i] = t[i]
    BY <1>1, <1>3, WithoutFacts
  <2> HIDE DEF t
  <2>2. Folded(type, s, n + 1) = Folded(type, t, n + 1)
    BY <1>1, <2>1, FoldedSame
  <2>3. QED
    BY <1>1, <1>2, <1>3, <2>2 DEF Exchanges, t
<1>4. CASE j # n + 2
  <2> DEFINE a == Folded(type, t, n)
  <2>1. j \in 1..(n + 1)
    BY <1>4
  <2>2. Folded(type, s, n + 1) = Combine(type, a, s[j])
    BY <1>4 DEF Exchanges
  <2>3. t[n + 1] = last
    <3>1. n + 1 \in j..(n + 1) /\ j \in 1..((n + 1) + 1) /\ n + 1 \in Nat
      BY <2>1
    <3>2. t[n + 1] = s[(n + 1) + 1]
      BY <3>1, WithoutFacts
    <3>3. QED
      BY <1>1, <3>2
  <2>4. Folded(type, t, n + 1) = Combine(type, a, last)
    BY <2>3, FoldedSteps
  <2>5. Combinable(type, u, s[j]) /\ Combinable(type, u, last)
    <3>1. n + 2 \in 1..(n + 2)
      OBVIOUS
    <3>2. QED
      BY <3>1 DEF Operable
  <2>6. Combinable(type, u, a)
    <3>1. Operable(type, u, s, n + 1)
      <4>1. \A i \in 1..(n + 1) : i \in 1..(n + 2)
        OBVIOUS
      <4>2. QED
        BY <4>1 DEF Operable
    <3>2. Operable(type, u, t, n)
      BY <2>1, <3>1, WithoutOperable
    <3> HIDE DEF t
    <3>3. QED
      BY <3>2, FoldedCombinable
  <2> HIDE DEF a, last, t
  <2>7. Combine(type, Combine(type, a, s[j]), last)
          = Combine(type, Combine(type, a, last), s[j])
    BY <2>5, <2>6, CombineLaws
  <2>8. QED
    BY <1>1, <1>2, <2>2, <2>4, <2>7 DEF Exchanges, t
<1>5. QED
  BY <1>3, <1>4

LEMMA Exchange ==
  ASSUME NEW type \in MergedTypes, NEW u, NEW s, NEW k \in Nat \ {0},
         Operable(type, u, s, k + 1), NEW j \in 1..(k + 1)
  PROVE  Exchanges(type, s, k, j)
<1> DEFINE T == {n \in Nat : n # 0 /\ n <= k =>
                               \A i \in 1..(n + 1) : Exchanges(type, s, n, i)}
<1>1. 0 \in T
  OBVIOUS
<1>2. ASSUME NEW n \in Nat, n \in T PROVE n + 1 \in T
  <2>1. SUFFICES ASSUME n + 1 <= k, NEW i \in 1..(n + 2)
                 PROVE  Exchanges(type, s, n + 1, i)
    <3>1. (n + 1) + 1 = n + 2
      OBVIOUS
    <3>2. QED
      BY <3>1
  <2>2. Operable(type, u, s, n + 2)
    <3>1. \A l \in 1..(n + 2) : l \in 1..(k + 1)
      BY <2>1
    <3>2. QED
      BY <3>1 DEF Operable
  <2>3. CASE n = 0
    <3>1. Operable(type, u, s, 2) /\ i \in 1..2 /\ n + 1 = 1
      BY <2>1, <2>2, <2>3
    <3>2. QED
      BY <3>1, ExchangeTwo
  <2>4. CASE n # 0
    <3>1. i # n + 2 => i \in 1..(n + 1)
      BY <2>1
    <3>2. n \in Nat \ {0} /\ n <= k
      BY <2>1, <2>4
    <3>3. i # n + 2 => Exchanges(type, s, n, i)
      BY <1>2, <3>1, <3>2
    <3>4. QED
      BY <2>2, <3>2, <3>3, ExchangeMore
  <2>5. QED
    BY <2>3, <2>4
<1> HIDE DEF T
<1>3. \A n \in Nat : n \in T
  BY <1>1, <1>2, CountsUp
<1>4. k \in Nat /\ k # 0 /\ k <= k
  OBVIOUS
<1>5. \A i \in 1..(k + 1) : Exchanges(type, s, k, i)
  BY <1>3, <1>4 DEF T
<1>6. QED
  BY <1>5

-----------------------------------------------------------------------------
(* The meaning of an accepted contract.                                    *)

\* A number of the unit u, or a division by zero.
NumberOf(x, u) ==
  /\ x.kind \in {"number", "undefined"}
  /\ x.kind = "number" => x.unit = u /\ u \in ValidUnits

KindOf(x, kind) == x.kind \in {kind, "undefined"}

\* x is a meaning that an object of the class and unit of rec may have.
Denotes(rec, x) ==
  /\ IsScalar(rec) => NumberOf(x, rec.unit)
  /\ IsBoolean(rec) => KindOf(x, "truth")
  /\ IsContract(rec) => KindOf(x, "flows")

\* What two numbers of a unit, truths or flows are combined to is another.
LEMMA CombineMeaning ==
  ASSUME NEW x, NEW y
  PROVE  /\ \A type \in {"Add", "Maximum", "Minimum"} :
              x.kind = "number" /\ y.kind = "number" /\ x.unit = y.unit
                => /\ Combine(type, x, y).kind = "number"
                   /\ Combine(type, x, y).unit = x.unit
         /\ \A type \in {"AllOf", "AnyOf"} : Combine(type, x, y).kind = "truth"
         /\ Combine("Both", x, y).kind = "flows"
<1>1. ASSUME x.kind = "number", y.kind = "number", x.unit = y.unit
      PROVE  \A type \in {"Add", "Maximum", "Minimum"} :
               /\ Combine(type, x, y).kind = "number"
               /\ Combine(type, x, y).unit = x.unit
  <2>1. Combine("Add", x, y) = Rational(x.unit, x.p * y.q + y.p * x.q, x.q * y.q)
    BY Zenon DEF Combine, Plus
  <2>2. Combine("Maximum", x, y) \in {x, y}
    BY DEF Combine
  <2>3. Combine("Minimum", x, y) \in {x, y}
    BY DEF Combine
  <2>4. QED
    BY <1>1, <2>1, <2>2, <2>3, RationalMeaning
<1>2. /\ Combine("AllOf", x, y) = Truth(x.p = 1 /\ y.p = 1)
      /\ Combine("AnyOf", x, y) = Truth(x.p = 1 \/ y.p = 1)
      /\ Combine("Both", x, y) = Flows(x.flows \o y.flows)
  BY DEF Combine
<1>3. QED
  BY <1>1, <1>2, ConstantMeanings

LEMMA ReduceNumbers ==
  ASSUME NEW s, Len(s) \in Nat, Len(s) >= 2,
         NEW type \in {"Add", "Maximum", "Minimum"}, NEW u,
         \A i \in 1..Len(s) : s[i].kind = "number" /\ s[i].unit = u
  PROVE  Reduce(type, s).kind = "number" /\ Reduce(type, s).unit = u
<1>1. PICK F : IsFold(type, s, Len(s), F) /\ Reduce(type, s) = F[Len(s)]
  BY ReduceFold
<1>2. \A i \in 1..Len(s) :
        F[i] = IF i = 1 THEN s[1] ELSE Combine(type, F[i - 1], s[i])
  BY <1>1 DEF IsFold
<1> DEFINE T == {i \in 1..Len(s) : ~(F[i].kind = "number" /\ F[i].unit = u)}
<1>3. ASSUME T # {} PROVE FALSE
  <2>1. T \subseteq Nat
    OBVIOUS
  <2> HIDE DEF T
  <2>2. PICK i \in T : \A j \in T : i <= j
    BY <1>3, <2>1, FirstOf
  <2>3. i \in 1..Len(s) /\ ~(F[i].kind = "number" /\ F[i].unit = u)
    BY <2>2 DEF T
  <2>4. i # 1 /\ i - 1 \in 1..Len(s)
    BY <1>2, <2>3
  <2>5. i - 1 \notin T
    BY <2>2, <2>3, <2>4
  <2>6. F[i - 1].kind = "number" /\ F[i - 1].unit = u
    BY <2>4, <2>5 DEF T
  <2>7. s[i].kind = "number" /\ s[i].unit = u /\ F[i] = Combine(type, F[i - 1], s[i])
    BY <1>2, <2>3, <2>4
  <2>8. QED
    BY <2>3, <2>6, <2>7, CombineMeaning
<1>4. Len(s) \in 1..Len(s) /\ Len(s) \notin T
  BY <1>3
<1>5. QED
  BY <1>1, <1>4

LEMMA ReduceLast ==
  ASSUME NEW s, Len(s) \in Nat, Len(s) >= 2, NEW type
  PROVE  \E x, y : Reduce(type, s) = Combine(type, x, y)
<1>1. PICK F : IsFold(type, s, Len(s), F) /\ Reduce(type, s) = F[Len(s)]
  BY ReduceFold
<1>2. Len(s) \in 1..Len(s) /\ Len(s) # 1
  <2>1. \A m \in Nat : m >= 2 => m \in 1..m /\ m # 1
    OBVIOUS
  <2>2. QED
    BY <2>1
<1>3. F[Len(s)] = Combine(type, F[Len(s) - 1], s[Len(s)])
  BY <1>1, <1>2 DEF IsFold
<1>4. QED
  BY <1>1, <1>3

LEMMA ReduceMeaning ==
  ASSUME NEW s, Len(s) \in Nat, Len(s) >= 2
  PROVE  /\ \A type \in {"AllOf", "AnyOf"} : Reduce(type, s).kind = "truth"
         /\ Reduce("Both", s).kind = "flows"
BY ReduceLast, CombineMeaning

\* An object of any class may divide by zero.
LEMMA UndefinedMeans ==
  ASSUME NEW rec
  PROVE  Denotes(rec, Undefined)
BY ConstantMeanings DEF Denotes, NumberOf, KindOf

\* Strict application to arguments that have a meaning.
LEMMA Applied ==
  ASSUME NEW rec, NEW xs, NEW ok, NEW x,
         \A i \in 1..Len(xs) : xs[i].kind # "stuck",
         (\A i \in 1..Len(xs) : xs[i].kind # "undefined") => ok /\ Denotes(rec, x)
  PROVE  Denotes(rec, Apply(xs, ok, x))
BY UndefinedMeans, Zenon DEF Apply

-----------------------------------------------------------------------------
(* The denotation of a closed part of a graph without cycles exists.       *)

\* Objects of accepted types in R have their children in R.
Closed(g, R) == \A n \in R : \A i \in 1..Len(g[n].kids) : g[n].kids[i] \in R

\* ... and L increases from parents to children.
Increasing(g, R, L) ==
  \A n \in R : \A i \in 1..Len(g[n].kids) : L[n] < L[g[n].kids[i]]

Fixed(g, env, R, D) == D = [n \in R |-> Evaluate(g, env, D, n)]

LEMMA EvaluateLocal ==
  ASSUME NEW g, NEW env, NEW n, NEW D, NEW E, 
         \A i \in 1..Len(g[n].kids) : D[g[n].kids[i]] = E[g[n].kids[i]]
  PROVE  Evaluate(g, env, D, n) = Evaluate(g, env, E, n)
<1> DEFINE xs == [i \in 1..Len(g[n].kids) |-> D[g[n].kids[i]]]
           ys == [i \in 1..Len(g[n].kids) |-> E[g[n].kids[i]]]
<1>1. xs = ys
  OBVIOUS
<1>2. QED
  BY <1>1 DEF Evaluate

LEMMA DenotationExists ==
  ASSUME NEW g, NEW env, NEW R, NEW d \in Nat, NEW L \in [R -> 1..d],
         Closed(g, R), Increasing(g, R, L)
  PROVE  \E D : Fixed(g, env, R, D)
<1> DEFINE Above(k, D) ==
             /\ D = [n \in R |-> D[n]]
             /\ \A n \in R : L[n] > d - k => D[n] = Evaluate(g, env, D, n)
           T == {k \in Nat : ~\E D : Above(k, D)}
<1>1. T = {}
  <2>1. SUFFICES ASSUME T # {} PROVE FALSE
    OBVIOUS
  <2>2. PICK k \in T : \A j \in T : k <= j
    BY <2>1, FirstOf
  <2>3. k \in Nat /\ ~\E D : Above(k, D)
    BY <2>2
  <2>4. CASE k = 0
    <3> DEFINE D == [n \in R |-> Stuck]
    <3>1. D = [n \in R |-> D[n]]
      OBVIOUS
    <3>2. \A n \in R : ~(L[n] > d - k)
      BY <2>4
    <3>3. Above(k, D)
      BY <3>1, <3>2
    <3>4. QED
      BY <2>3, <3>3
  <2>5. CASE k # 0
    <3>1. k - 1 \in Nat /\ k - 1 \notin T
      <4>1. k - 1 \in Nat /\ ~(k <= k - 1)
        BY <2>3, <2>5
      <4> HIDE DEF T
      <4>2. QED
        BY <2>2, <4>1
    <3>2. PICK D : Above(k - 1, D)
      BY <3>1
    <3> DEFINE E == [n \in R |-> Evaluate(g, env, D, n)]
    <3>3. ASSUME NEW n \in R, L[n] > d - (k - 1) PROVE E[n] = D[n]
      BY <3>2, <3>3
    <3>4. ASSUME NEW n \in R, L[n] > d - k PROVE E[n] = Evaluate(g, env, E, n)
      <4>1. \A i \in 1..Len(g[n].kids) :
              g[n].kids[i] \in R /\ L[g[n].kids[i]] > d - (k - 1)
        <5>1. SUFFICES ASSUME NEW i \in 1..Len(g[n].kids)
                       PROVE  g[n].kids[i] \in R /\ L[g[n].kids[i]] > d - (k - 1)
          OBVIOUS
        <5>2. g[n].kids[i] \in R /\ L[n] < L[g[n].kids[i]]
          BY DEF Closed, Increasing
        <5>3. L[n] \in Int /\ L[g[n].kids[i]] \in Int
          BY <5>2
        <5>4. QED
          BY <2>3, <3>4, <5>2, <5>3
      <4>2. \A i \in 1..Len(g[n].kids) : D[g[n].kids[i]] = E[g[n].kids[i]]
        BY <3>3, <4>1
      <4>3. E[n] = Evaluate(g, env, D, n)
        OBVIOUS
      <4> HIDE DEF E
      <4>4. QED
        BY <4>2, <4>3, EvaluateLocal
    <3>5. E = [n \in R |-> E[n]]
      OBVIOUS
    <3> HIDE DEF E
    <3>6. Above(k, E)
      BY <3>4, <3>5
    <3>7. QED
      BY <2>3, <3>6
  <2>6. QED
    BY <2>4, <2>5
<1>2. PICK D : Above(d, D)
  BY <1>1
<1>3. \A n \in R : L[n] > d - d
  OBVIOUS
<1>4. \A n \in R : D[n] = Evaluate(g, env, D, n)
  BY <1>2, <1>3
<1>5. Fixed(g, env, R, D)
  BY <1>2, <1>4 DEF Fixed
<1>6. QED
  BY <1>5

LEMMA DenoteFixed ==
  ASSUME NEW g, NEW env, NEW R, NEW d \in Nat, NEW L \in [R -> 1..d],
         Closed(g, R), Increasing(g, R, L)
  PROVE  \A n \in R : DenoteOn(g, env, R)[n] = Evaluate(g, env, DenoteOn(g, env, R), n)
<1> DEFINE D == CHOOSE D : Fixed(g, env, R, D)
<1>1. Fixed(g, env, R, D)
  BY DenotationExists
<1>2. DenoteOn(g, env, R) = D
  BY DEF DenoteOn, Fixed
<1> HIDE DEF D
<1>3. \A n \in R : D[n] = Evaluate(g, env, D, n)
  BY <1>1 DEF Fixed
<1>4. QED
  BY <1>2, <1>3

-----------------------------------------------------------------------------
(* Class by class: what an accepted object makes of the meanings of its    *)
(* children.                                                               *)

LEMMA MeansOne ==
  ASSUME NEW rec, NEW x
  PROVE  /\ rec.type \in ScalarTypes => (Denotes(rec, x) <=> NumberOf(x, rec.unit))
         /\ rec.type \in BooleanTypes => (Denotes(rec, x) <=> KindOf(x, "truth"))
         /\ rec.type \in ContractTypes => (Denotes(rec, x) <=> KindOf(x, "flows"))
BY DEF Denotes, IsScalar, IsBoolean, IsContract, ScalarTypes, BooleanTypes, ContractTypes

LEMMA NumberFacts ==
  ASSUME NEW x, NEW u, NumberOf(x, u)
  PROVE  /\ x.kind # "stuck"
         /\ x.kind # "undefined" => x.kind = "number" /\ x.unit = u /\ IsNumber(x)
BY DEF NumberOf, IsNumber

LEMMA KindFacts ==
  ASSUME NEW x
  PROVE  /\ KindOf(x, "truth") => x.kind # "stuck" /\ (x.kind # "undefined" => x.kind = "truth")
         /\ KindOf(x, "flows") => x.kind # "stuck" /\ (x.kind # "undefined" => x.kind = "flows")
BY DEF KindOf

\* The operands of a node that takes one number, or two.
LEMMA OneNumber ==
  ASSUME NEW rec, NEW xs, Len(xs) = 1, NEW u1, NumberOf(xs[1], u1), NEW ok, NEW x,
         IsNumber(xs[1]) /\ xs[1].unit = u1 => ok /\ Denotes(rec, x)
  PROVE  Denotes(rec, Apply(xs, ok, x))
<1>1. \A i \in 1..Len(xs) : xs[i].kind # "stuck"
  BY NumberFacts
<1>2. (\A i \in 1..Len(xs) : xs[i].kind # "undefined") => ok /\ Denotes(rec, x)
  BY NumberFacts
<1>3. QED
  BY <1>1, <1>2, Applied

LEMMA TwoNumbers ==
  ASSUME NEW rec, NEW xs, Len(xs) = 2, NEW u1, NEW u2,
         NumberOf(xs[1], u1), NumberOf(xs[2], u2), NEW ok, NEW x,
         IsNumber(xs[1]) /\ IsNumber(xs[2]) /\ xs[1].unit = u1 /\ xs[2].unit = u2
           => ok /\ Denotes(rec, x)
  PROVE  Denotes(rec, Apply(xs, ok, x))
<1>1. \A i \in 1..Len(xs) : i = 1 \/ i = 2
  OBVIOUS
<1>2. \A i \in 1..Len(xs) : xs[i].kind # "stuck"
  BY <1>1, NumberFacts
<1>3. (\A i \in 1..Len(xs) : xs[i].kind # "undefined") => ok /\ Denotes(rec, x)
  <2>1. 1 \in 1..Len(xs) /\ 2 \in 1..Len(xs)
    OBVIOUS
  <2>2. QED
    BY <2>1, NumberFacts
<1>4. QED
  BY <1>2, <1>3, Applied


LEMMA ConstantMeans ==
  ASSUME NEW rec, NEW xs, NEW env
  PROVE  /\ rec.type \in {"Number", "Observable"} /\ rec.sound /\ rec.unit \in ValidUnits
              => Denotes(rec, MeaningOf(rec, xs, env))
         /\ rec.type = "BooleanConstant" /\ rec.sound => Denotes(rec, MeaningOf(rec, xs, env))
         /\ rec.type = "Zero" => Denotes(rec, MeaningOf(rec, xs, env))
<1> DEFINE m == MeaningOf(rec, xs, env)
<1>1. ASSUME rec.type \in {"Number", "Observable"}, rec.sound, rec.unit \in ValidUnits
      PROVE  Denotes(rec, m)
  <2>1. \E v : m = Rational(rec.unit, v, 1)
    BY <1>1 DEF MeaningOf, Conditionals
  <2>2. NumberOf(m, rec.unit)
    BY <1>1, <2>1, RationalMeaning DEF NumberOf
  <2> HIDE DEF m
  <2>3. QED
    BY <1>1, <2>2, MeansOne DEF ScalarTypes
<1>2. ASSUME rec.type = "BooleanConstant", rec.sound PROVE Denotes(rec, m)
  <2>1. m = Truth(rec.val = 1)
    BY <1>2 DEF MeaningOf, Conditionals
  <2>2. KindOf(m, "truth")
    BY <2>1, ConstantMeanings DEF KindOf
  <2> HIDE DEF m
  <2>3. QED
    BY <1>2, <2>2, MeansOne DEF BooleanTypes
<1>3. ASSUME rec.type = "Zero" PROVE Denotes(rec, m)
  <2>1. m = Flows(<< >>)
    BY <1>3 DEF MeaningOf, Conditionals
  <2>2. KindOf(m, "flows")
    BY <2>1, ConstantMeanings DEF KindOf
  <2> HIDE DEF m
  <2>3. QED
    BY <1>3, <2>2, MeansOne DEF ContractTypes
<1>4. QED
  BY <1>1, <1>2, <1>3

LEMMA ScalarCollectionMeans ==
  ASSUME NEW rec, NEW xs, NEW env, rec.type \in {"Add", "Maximum", "Minimum"},
         Len(xs) \in Nat, Len(xs) >= 2, rec.unit \in ValidUnits,
         \A i \in 1..Len(xs) : NumberOf(xs[i], rec.unit)
  PROVE  Denotes(rec, MeaningOf(rec, xs, env))
<1> DEFINE ok == Len(xs) >= 2 /\ AllNumbersAlike(xs)
           m == Reduce(rec.type, xs)
<1>1. \A i \in 1..Len(xs) : xs[i].kind # "stuck"
  BY NumberFacts
<1>2. ASSUME \A i \in 1..Len(xs) : xs[i].kind # "undefined"
      PROVE  ok /\ Denotes(rec, m)
  <2>1. \A i \in 1..Len(xs) : xs[i].kind = "number" /\ xs[i].unit = rec.unit
                              /\ IsNumber(xs[i])
    BY <1>2, NumberFacts
  <2>2. 1 \in 1..Len(xs)
    OBVIOUS
  <2>3. ok
    BY <2>1, <2>2 DEF AllNumbersAlike, SameUnit
  <2>4. m.kind = "number" /\ m.unit = rec.unit
    <3> DEFINE type == rec.type
               u == rec.unit
    <3>1. type \in {"Add", "Maximum", "Minimum"}
          /\ \A i \in 1..Len(xs) : xs[i].kind = "number" /\ xs[i].unit = u
      BY <2>1
    <3> HIDE DEF type, u
    <3>2. Reduce(type, xs).kind = "number" /\ Reduce(type, xs).unit = u
      BY <3>1, ReduceNumbers
    <3>3. QED
      BY <3>2 DEF type, u
  <2> HIDE DEF m
  <2>5. NumberOf(m, rec.unit)
    BY <2>4 DEF NumberOf
  <2>6. QED
    BY <2>3, <2>5, MeansOne DEF ScalarTypes
<1>3. MeaningOf(rec, xs, env) = Apply(xs, ok, m)
  BY DEF MeaningOf, Conditionals
<1> HIDE DEF ok, m
<1>4. QED
  BY <1>1, <1>2, <1>3, Applied

LEMMA BooleanCollectionMeans ==
  ASSUME NEW rec, NEW xs, NEW env, rec.type \in {"AllOf", "AnyOf"},
         Len(xs) \in Nat, Len(xs) >= 2,
         \A i \in 1..Len(xs) : KindOf(xs[i], "truth")
  PROVE  Denotes(rec, MeaningOf(rec, xs, env))
<1> DEFINE ok == Len(xs) >= 2 /\ AllKind(xs, "truth")
           m == Reduce(rec.type, xs)
<1>1. \A i \in 1..Len(xs) : xs[i].kind # "stuck"
  BY KindFacts
<1>2. ASSUME \A i \in 1..Len(xs) : xs[i].kind # "undefined"
      PROVE  ok /\ Denotes(rec, m)
  <2>1. ok
    BY <1>2, KindFacts DEF AllKind
  <2>2. m.kind = "truth"
    BY ReduceMeaning
  <2> HIDE DEF m
  <2>3. KindOf(m, "truth")
    BY <2>2 DEF KindOf
  <2>4. QED
    BY <2>1, <2>3, MeansOne DEF BooleanTypes
<1>3. MeaningOf(rec, xs, env) = Apply(xs, ok, m)
  BY DEF MeaningOf, Conditionals
<1> HIDE DEF ok, m
<1>4. QED
  BY <1>1, <1>2, <1>3, Applied

LEMMA BothMeans ==
  ASSUME NEW rec, NEW xs, NEW env, rec.type = "Both", Len(xs) \in Nat, Len(xs) >= 2,
         \A i \in 1..Len(xs) : KindOf(xs[i], "flows")
  PROVE  Denotes(rec, MeaningOf(rec, xs, env))
<1> DEFINE ok == Len(xs) >= 2 /\ AllKind(xs, "flows")
           m == Reduce("Both", xs)
<1>1. \A i \in 1..Len(xs) : xs[i].kind # "stuck"
  BY KindFacts
<1>2. ASSUME \A i \in 1..Len(xs) : xs[i].kind # "undefined"
      PROVE  ok /\ Denotes(rec, m)
  <2>1. ok
    BY <1>2, KindFacts DEF AllKind
  <2>2. m.kind = "flows"
    BY ReduceMeaning
  <2> HIDE DEF m
  <2>3. KindOf(m, "flows")
    BY <2>2 DEF KindOf
  <2>4. QED
    BY <2>1, <2>3, MeansOne DEF ContractTypes
<1>3. MeaningOf(rec, xs, env) = Apply(xs, ok, m)
  BY DEF MeaningOf, Conditionals
<1> HIDE DEF ok, m
<1>4. QED
  BY <1>1, <1>2, <1>3, Applied

LEMMA SubtractMeans ==
  ASSUME NEW rec, NEW xs, NEW env, rec.type = "Subtract", Len(xs) = 2,
         rec.unit \in ValidUnits, NumberOf(xs[1], rec.unit), NumberOf(xs[2], rec.unit)
  PROVE  Denotes(rec, MeaningOf(rec, xs, env))
<1> DEFINE ok == AllNumbersAlike(xs)
           m == Plus(xs[1], Rational(xs[2].unit, -xs[2].p, xs[2].q))
<1>1. ASSUME IsNumber(xs[1]), IsNumber(xs[2]), xs[1].unit = rec.unit, xs[2].unit = rec.unit
      PROVE  ok /\ Denotes(rec, m)
  <2>1. \A i \in 1..Len(xs) : i = 1 \/ i = 2
    OBVIOUS
  <2>2. ok
    BY <1>1, <2>1 DEF AllNumbersAlike, SameUnit
  <2>3. m.kind = "number" /\ m.unit = rec.unit
    BY <1>1, RationalMeaning DEF Plus
  <2> HIDE DEF m
  <2>4. NumberOf(m, rec.unit)
    BY <2>3 DEF NumberOf
  <2>5. QED
    BY <2>2, <2>4, MeansOne DEF ScalarTypes
<1>2. MeaningOf(rec, xs, env) = Apply(xs, ok, m)
  BY DEF MeaningOf, Conditionals
<1> HIDE DEF ok, m
<1>3. QED
  BY <1>1, <1>2, TwoNumbers

LEMMA MultiplyMeans ==
  ASSUME NEW rec, NEW xs, NEW env, rec.type = "Multiply", Len(xs) = 2, NEW u1, NEW u2,
         rec.unit \in ValidUnits, NumberOf(xs[1], u1), NumberOf(xs[2], u2),
         ~(IsMoney(u1) /\ IsMoney(u2)), MultiplyUnit(u1, u2) = rec.unit
  PROVE  Denotes(rec, MeaningOf(rec, xs, env))
<1> DEFINE ok == /\ IsNumber(xs[1]) /\ IsNumber(xs[2])
                 /\ "scalar" \in {xs[1].unit, xs[2].unit}
           m == Times(xs[1], xs[2])
<1>1. ASSUME IsNumber(xs[1]), IsNumber(xs[2]), xs[1].unit = u1, xs[2].unit = u2
      PROVE  ok /\ Denotes(rec, m)
  <2>1. ok
    BY <1>1 DEF IsNumber, IsMoney, ValidUnits
  <2>2. m.kind = "number" /\ m.unit = rec.unit
    BY <1>1, RationalMeaning DEF Times
  <2> HIDE DEF m
  <2>3. NumberOf(m, rec.unit)
    BY <2>2 DEF NumberOf
  <2>4. QED
    BY <2>1, <2>3, MeansOne DEF ScalarTypes
<1>2. MeaningOf(rec, xs, env) = Apply(xs, ok, m)
  BY DEF MeaningOf, Conditionals
<1> HIDE DEF ok, m
<1>3. QED
  BY <1>1, <1>2, TwoNumbers

LEMMA DivideMeans ==
  ASSUME NEW rec, NEW xs, NEW env, rec.type = "Divide", Len(xs) = 2, NEW u2, u2 = "scalar",
         rec.unit \in ValidUnits, NumberOf(xs[1], rec.unit), NumberOf(xs[2], u2)
  PROVE  Denotes(rec, MeaningOf(rec, xs, env))
<1> DEFINE ok == IsNumber(xs[1]) /\ IsNumber(xs[2]) /\ xs[2].unit = "scalar"
           m == IF xs[2].p = 0 THEN Undefined
                ELSE Rational(xs[1].unit, xs[1].p * xs[2].q, xs[1].q * xs[2].p)
<1>1. ASSUME IsNumber(xs[1]), IsNumber(xs[2]), xs[1].unit = rec.unit, xs[2].unit = u2
      PROVE  ok /\ Denotes(rec, m)
  <2>1. ok
    BY <1>1
  <2>2. m = Undefined \/ \E u, v : m = Rational(xs[1].unit, u, v)
    OBVIOUS
  <2> HIDE DEF m
  <2>3. NumberOf(m, rec.unit)
    BY <1>1, <2>2, RationalMeaning, ConstantMeanings DEF NumberOf
  <2>4. QED
    BY <2>1, <2>3, MeansOne DEF ScalarTypes
<1>2. MeaningOf(rec, xs, env) = Apply(xs, ok, m)
  BY DEF MeaningOf, Conditionals
<1> HIDE DEF ok, m
<1>3. QED
  BY <1>1, <1>2, TwoNumbers

LEMMA NegateMeans ==
  ASSUME NEW rec, NEW xs, NEW env, rec.type = "Negate", Len(xs) = 1,
         rec.unit \in ValidUnits, NumberOf(xs[1], rec.unit)
  PROVE  Denotes(rec, MeaningOf(rec, xs, env))
<1> DEFINE ok == IsNumber(xs[1])
           m == Rational(xs[1].unit, -xs[1].p, xs[1].q)
<1>1. ASSUME IsNumber(xs[1]), xs[1].unit = rec.unit PROVE ok /\ Denotes(rec, m)
  <2>1. m.kind = "number" /\ m.unit = rec.unit
    BY <1>1, RationalMeaning
  <2> HIDE DEF m
  <2>2. NumberOf(m, rec.unit)
    BY <2>1 DEF NumberOf
  <2>3. QED
    BY <1>1, <2>2, MeansOne DEF ScalarTypes
<1>2. MeaningOf(rec, xs, env) = Apply(xs, ok, m)
  BY DEF MeaningOf, Conditionals
<1> HIDE DEF ok, m
<1>3. QED
  BY <1>1, <1>2, OneNumber

LEMMA ComparisonMeans ==
  ASSUME NEW rec, NEW xs, NEW env, rec.type = "Comparison", Len(xs) = 2, NEW u,
         rec.sound, NumberOf(xs[1], u), NumberOf(xs[2], u)
  PROVE  Denotes(rec, MeaningOf(rec, xs, env))
<1> DEFINE ok == rec.sound /\ AllNumbersAlike(xs)
           m == Truth(Compares(rec.op, xs[1], xs[2]))
<1>1. ASSUME IsNumber(xs[1]), IsNumber(xs[2]), xs[1].unit = u, xs[2].unit = u
      PROVE  ok /\ Denotes(rec, m)
  <2>1. \A i \in 1..Len(xs) : i = 1 \/ i = 2
    OBVIOUS
  <2>2. ok
    BY <1>1, <2>1 DEF AllNumbersAlike, SameUnit
  <2>3. KindOf(m, "truth")
    BY ConstantMeanings DEF KindOf
  <2> HIDE DEF m
  <2>4. QED
    BY <2>2, <2>3, MeansOne DEF BooleanTypes
<1>2. MeaningOf(rec, xs, env) = Apply(xs, ok, m)
  BY DEF MeaningOf, Conditionals
<1> HIDE DEF ok, m
<1>3. QED
  BY <1>1, <1>2, TwoNumbers

LEMMA NotMeans ==
  ASSUME NEW rec, NEW xs, NEW env, rec.type = "Not", Len(xs) = 1, KindOf(xs[1], "truth")
  PROVE  Denotes(rec, MeaningOf(rec, xs, env))
<1> DEFINE ok == xs[1].kind = "truth"
           m == Truth(xs[1].p = 0)
<1>1. \A i \in 1..Len(xs) : i = 1 /\ xs[i].kind # "stuck"
  BY KindFacts
<1>2. (\A i \in 1..Len(xs) : xs[i].kind # "undefined") => ok
  BY KindFacts
<1>3. KindOf(m, "truth")
  BY ConstantMeanings DEF KindOf
<1>4. MeaningOf(rec, xs, env) = Apply(xs, ok, m)
  BY DEF MeaningOf, Conditionals
<1> HIDE DEF ok, m
<1>5. Denotes(rec, m)
  BY <1>3, MeansOne DEF BooleanTypes
<1>6. QED
  BY <1>1, <1>2, <1>4, <1>5, Applied

LEMMA PaymentMeans ==
  ASSUME NEW rec, NEW xs, NEW env, rec.type = "Payment", Len(xs) = 1, rec.sound,
         IsMoney(rec.unit), NumberOf(xs[1], rec.unit)
  PROVE  Denotes(rec, MeaningOf(rec, xs, env))
<1> DEFINE ok == rec.sound /\ IsNumber(xs[1]) /\ IsMoney(xs[1].unit)
                           /\ xs[1].unit = rec.unit
           m == Flows(<< [at |-> rec.val, amount |-> xs[1]] >>)
<1>1. ASSUME IsNumber(xs[1]), xs[1].unit = rec.unit PROVE ok /\ Denotes(rec, m)
  <2>1. KindOf(m, "flows")
    BY ConstantMeanings DEF KindOf
  <2> HIDE DEF m
  <2>2. QED
    BY <1>1, <2>1, MeansOne DEF ContractTypes
<1>2. MeaningOf(rec, xs, env) = Apply(xs, ok, m)
  BY DEF MeaningOf, Conditionals
<1> HIDE DEF ok, m
<1>3. QED
  BY <1>1, <1>2, OneNumber

LEMMA ScaleMeans ==
  ASSUME NEW rec, NEW xs, NEW env, rec.type = "Scale", Len(xs) = 2, NEW u, u = "scalar",
         NumberOf(xs[1], u), KindOf(xs[2], "flows")
  PROVE  Denotes(rec, MeaningOf(rec, xs, env))
<1> DEFINE ok == IsNumber(xs[1]) /\ xs[1].unit = "scalar" /\ xs[2].kind = "flows"
           m == Flows([i \in 1..Len(xs[2].flows) |->
                         [xs[2].flows[i] EXCEPT !.amount = Times(xs[1], @)]])
<1>1. \A i \in 1..Len(xs) : i = 1 \/ i = 2
  OBVIOUS
<1>2. 1 \in 1..Len(xs) /\ 2 \in 1..Len(xs)
  OBVIOUS
<1>3. \A i \in 1..Len(xs) : xs[i].kind # "stuck"
  BY <1>1, NumberFacts, KindFacts
<1>4. (\A i \in 1..Len(xs) : xs[i].kind # "undefined") => ok
  BY <1>2, NumberFacts, KindFacts
<1>5. KindOf(m, "flows")
  BY ConstantMeanings DEF KindOf
<1>6. MeaningOf(rec, xs, env) = Apply(xs, ok, m)
  BY DEF MeaningOf, Conditionals
<1> HIDE DEF ok, m
<1>7. Denotes(rec, m)
  BY <1>5, MeansOne DEF ContractTypes
<1>8. QED
  BY <1>3, <1>4, <1>6, <1>7, Applied

\* The branch not taken may be anything.
LEMMA ConditionalMeans ==
  ASSUME NEW rec, NEW xs, NEW env, rec.type \in Conditionals, KindOf(xs[1], "truth"),
         Denotes(rec, xs[2]), Denotes(rec, xs[3])
  PROVE  Denotes(rec, MeaningOf(rec, xs, env))
<1>1. xs[1].kind = "truth" \/ xs[1].kind = "undefined"
  BY DEF KindOf
<1>2. CASE xs[1].kind = "truth"
  <2>1. MeaningOf(rec, xs, env) \in {xs[2], xs[3]}
    BY <1>2 DEF MeaningOf, Conditionals
  <2>2. QED
    BY <2>1
<1>3. CASE xs[1].kind = "undefined"
  <2>1. MeaningOf(rec, xs, env) = Undefined
    BY <1>3 DEF MeaningOf, Conditionals
  <2>2. QED
    BY <2>1, UndefinedMeans
<1>4. QED
  BY <1>1, <1>2, <1>3

\* What is known of an accepted object, and of the meanings of its children.
Operands(g, n, xs) ==
  /\ NodeAccepted(g, n) /\ g[n].kids \in Seq(Node) /\ g[n].sound \in BOOLEAN
  /\ g[n].type \in DOMAIN Arity => Len(g[n].kids) = Arity[g[n].type]
  /\ Len(xs) = Len(g[n].kids)
  /\ \A i \in 1..Len(xs) : Denotes(g[g[n].kids[i]], xs[i])

LEMMA OperandFacts ==
  ASSUME NEW g, NEW n, NEW xs, Operands(g, n, xs)
  PROVE  /\ NodeError(g, n) = Pass /\ g[n].sound \in BOOLEAN /\ g[n].kids \in Seq(Node)
         /\ Len(xs) \in Nat /\ Len(xs) = Len(g[n].kids)
         /\ g[n].type \in DOMAIN Arity => Len(xs) = Arity[g[n].type]
         /\ \A i \in 1..Len(xs) :
              /\ IsScalar(g[g[n].kids[i]]) => NumberOf(xs[i], g[g[n].kids[i]].unit)
              /\ IsBoolean(g[g[n].kids[i]]) => KindOf(xs[i], "truth")
              /\ IsContract(g[g[n].kids[i]]) => KindOf(xs[i], "flows")
<1>1. g[n].kids \in Seq(Node) /\ g[n].sound \in BOOLEAN /\ Len(xs) = Len(g[n].kids)
  BY DEF Operands
<1>2. Len(xs) \in Nat
  BY <1>1, LenProperties
<1>3. QED
  BY <1>1, <1>2 DEF Operands, NodeAccepted, Denotes

LEMMA ArityFacts ==
  /\ \A t \in {"Negate", "Not", "Payment"} : t \in DOMAIN Arity /\ Arity[t] = 1
  /\ \A t \in {"Subtract", "Multiply", "Divide", "Comparison", "Scale"} :
       t \in DOMAIN Arity /\ Arity[t] = 2
  /\ \A t \in Conditionals : t \in DOMAIN Arity /\ Arity[t] = 3
BY DEF Arity, Conditionals

LEMMA FixedOperands ==
  ASSUME NEW g, NEW n, NEW xs, Operands(g, n, xs)
  PROVE  /\ g[n].type \in {"Negate", "Not", "Payment"} => Len(xs) = 1
         /\ g[n].type \in {"Subtract", "Multiply", "Divide", "Comparison", "Scale"}
              => Len(xs) = 2
         /\ g[n].type \in Conditionals => Len(xs) = 3
<1> DEFINE type == g[n].type
<1>1. type \in DOMAIN Arity => Len(xs) = Arity[type]
  BY OperandFacts
<1> HIDE DEF type
<1>2. /\ type \in {"Negate", "Not", "Payment"} => Len(xs) = 1
      /\ type \in {"Subtract", "Multiply", "Divide", "Comparison", "Scale"}
           => Len(xs) = 2
      /\ type \in Conditionals => Len(xs) = 3
  BY <1>1, ArityFacts
<1>3. QED
  BY <1>2 DEF type

\* What is known of the i-th operand.
OperandAt(g, n, xs, i) ==
  /\ IsScalar(g[g[n].kids[i]]) => NumberOf(xs[i], g[g[n].kids[i]].unit)
  /\ IsBoolean(g[g[n].kids[i]]) => KindOf(xs[i], "truth")
  /\ IsContract(g[g[n].kids[i]]) => KindOf(xs[i], "flows")

LEMMA FirstOperands ==
  ASSUME NEW g, NEW n, NEW xs, Operands(g, n, xs)
  PROVE  /\ Len(xs) \in {1, 2, 3} => OperandAt(g, n, xs, 1)
         /\ Len(xs) \in {2, 3} => OperandAt(g, n, xs, 2)
         /\ Len(xs) = 3 => OperandAt(g, n, xs, 3)
<1>1. \A i \in 1..Len(xs) : OperandAt(g, n, xs, i)
  BY OperandFacts DEF OperandAt
<1>2. /\ Len(xs) \in {1, 2, 3} => 1 \in 1..Len(xs)
      /\ Len(xs) \in {2, 3} => 2 \in 1..Len(xs)
      /\ Len(xs) = 3 => 3 \in 1..Len(xs)
  OBVIOUS
<1>3. QED
  BY <1>1, <1>2

\* An accepted object whose children have a meaning has one.
LEMMA NodeMeans ==
  ASSUME NEW g, NEW n, NEW xs, NEW env, Operands(g, n, xs)
  PROVE  Denotes(g[n], MeaningOf(g[n], xs, env))
<1> DEFINE rec == g[n]
<1>0. /\ NodeError(g, n) = Pass /\ rec.sound \in BOOLEAN /\ rec.kids \in Seq(Node)
      /\ Len(xs) \in Nat /\ Len(xs) = Len(rec.kids)
      /\ \A i \in 1..Len(xs) : OperandAt(g, n, xs, i)
  BY OperandFacts DEF OperandAt
<1>1. CASE rec.type \in {"Number", "Observable"}
  <2>1. rec.sound /\ rec.unit \in ValidUnits
    BY <1>0, <1>1, LeafRules
  <2> HIDE DEF rec
  <2>2. Denotes(rec, MeaningOf(rec, xs, env))
    BY <1>1, <2>1, ConstantMeans
  <2>3. QED
    BY <2>2 DEF rec
<1>2. CASE rec.type = "BooleanConstant"
  <2>1. rec.sound
    BY <1>0, <1>2, BooleanConstantRules
  <2> HIDE DEF rec
  <2>2. Denotes(rec, MeaningOf(rec, xs, env))
    BY <1>2, <2>1, ConstantMeans
  <2>3. QED
    BY <2>2 DEF rec
<1>3. CASE rec.type = "Zero"
  <2> HIDE DEF rec
  <2>2. Denotes(rec, MeaningOf(rec, xs, env))
    BY <1>3, ConstantMeans
  <2>3. QED
    BY <2>2 DEF rec
<1>4. CASE rec.type \in {"Add", "Maximum", "Minimum"}
  <2>1. /\ Len(rec.kids) >= 2 /\ rec.unit \in ValidUnits
        /\ \A i \in 1..Len(rec.kids) : IsScalar(g[rec.kids[i]]) /\ g[rec.kids[i]].unit = rec.unit
    BY <1>0, <1>4, ScalarCollectionRules
  <2>2. \A i \in 1..Len(xs) : NumberOf(xs[i], rec.unit)
    BY <1>0, <2>1 DEF OperandAt
  <2>3. Len(xs) \in Nat /\ Len(xs) >= 2
    BY <1>0, <2>1
  <2> HIDE DEF rec
  <2>4. Denotes(rec, MeaningOf(rec, xs, env))
    BY <1>4, <2>1, <2>2, <2>3, ScalarCollectionMeans
  <2>5. QED
    BY <2>4 DEF rec
<1>5. CASE rec.type \in {"AllOf", "AnyOf"}
  <2>1. /\ Len(rec.kids) >= 2
        /\ \A i \in 1..Len(rec.kids) : IsBoolean(g[rec.kids[i]])
    BY <1>0, <1>5, BooleanCollectionRules
  <2>2. \A i \in 1..Len(xs) : KindOf(xs[i], "truth")
    BY <1>0, <2>1 DEF OperandAt
  <2>3. Len(xs) \in Nat /\ Len(xs) >= 2
    BY <1>0, <2>1
  <2> HIDE DEF rec
  <2>4. Denotes(rec, MeaningOf(rec, xs, env))
    BY <1>5, <2>1, <2>2, <2>3, BooleanCollectionMeans
  <2>5. QED
    BY <2>4 DEF rec
<1>6. CASE rec.type = "Both"
  <2>1. /\ Len(rec.kids) >= 2
        /\ \A i \in 1..Len(rec.kids) : IsContract(g[rec.kids[i]])
    BY <1>0, <1>6, BothRules
  <2>2. \A i \in 1..Len(xs) : KindOf(xs[i], "flows")
    BY <1>0, <2>1 DEF OperandAt
  <2>3. Len(xs) \in Nat /\ Len(xs) >= 2
    BY <1>0, <2>1
  <2> HIDE DEF rec
  <2>4. Denotes(rec, MeaningOf(rec, xs, env))
    BY <1>6, <2>1, <2>2, <2>3, BothMeans
  <2>5. QED
    BY <2>4 DEF rec
<1>7. CASE rec.type = "Subtract"
  <2>1. /\ rec.unit \in ValidUnits /\ IsScalar(g[rec.kids[1]]) /\ IsScalar(g[rec.kids[2]])
        /\ g[rec.kids[1]].unit = rec.unit /\ g[rec.kids[2]].unit = rec.unit
    BY <1>0, <1>7, SubtractRules
  <2>2. Len(xs) = 2 /\ OperandAt(g, n, xs, 1) /\ OperandAt(g, n, xs, 2)
    BY <1>7, FixedOperands, FirstOperands
  <2>3. NumberOf(xs[1], rec.unit) /\ NumberOf(xs[2], rec.unit)
    BY <2>1, <2>2 DEF OperandAt
  <2> HIDE DEF rec
  <2>4. Denotes(rec, MeaningOf(rec, xs, env))
    BY <1>7, <2>1, <2>2, <2>3, SubtractMeans
  <2>5. QED
    BY <2>4 DEF rec
<1>8. CASE rec.type = "Multiply"
  <2>1. /\ rec.unit \in ValidUnits /\ IsScalar(g[rec.kids[1]]) /\ IsScalar(g[rec.kids[2]])
        /\ ~(IsMoney(g[rec.kids[1]].unit) /\ IsMoney(g[rec.kids[2]].unit))
        /\ MultiplyUnit(g[rec.kids[1]].unit, g[rec.kids[2]].unit) = rec.unit
    BY <1>0, <1>8, MultiplyRules
  <2>2. Len(xs) = 2 /\ OperandAt(g, n, xs, 1) /\ OperandAt(g, n, xs, 2)
    BY <1>8, FixedOperands, FirstOperands
  <2>3. NumberOf(xs[1], g[rec.kids[1]].unit) /\ NumberOf(xs[2], g[rec.kids[2]].unit)
    BY <2>1, <2>2 DEF OperandAt
  <2> HIDE DEF rec
  <2>4. Denotes(rec, MeaningOf(rec, xs, env))
    BY <1>8, <2>1, <2>2, <2>3, MultiplyMeans
  <2>5. QED
    BY <2>4 DEF rec
<1>9. CASE rec.type = "Divide"
  <2>1. /\ rec.unit \in ValidUnits /\ IsScalar(g[rec.kids[1]]) /\ IsScalar(g[rec.kids[2]])
        /\ g[rec.kids[1]].unit = rec.unit /\ g[rec.kids[2]].unit = "scalar"
    BY <1>0, <1>9, DivideRules
  <2>2. Len(xs) = 2 /\ OperandAt(g, n, xs, 1) /\ OperandAt(g, n, xs, 2)
    BY <1>9, FixedOperands, FirstOperands
  <2>3. NumberOf(xs[1], rec.unit) /\ NumberOf(xs[2], "scalar")
    BY <2>1, <2>2 DEF OperandAt
  <2> HIDE DEF rec
  <2>4. Denotes(rec, MeaningOf(rec, xs, env))
    BY <1>9, <2>1, <2>2, <2>3, DivideMeans
  <2>5. QED
    BY <2>4 DEF rec
<1>10. CASE rec.type = "Negate"
  <2>1. rec.unit \in ValidUnits /\ IsScalar(g[rec.kids[1]]) /\ g[rec.kids[1]].unit = rec.unit
    BY <1>0, <1>10, NegateRules
  <2>2. Len(xs) = 1 /\ OperandAt(g, n, xs, 1)
    BY <1>10, FixedOperands, FirstOperands
  <2>3. NumberOf(xs[1], rec.unit)
    BY <2>1, <2>2 DEF OperandAt
  <2> HIDE DEF rec
  <2>4. Denotes(rec, MeaningOf(rec, xs, env))
    BY <1>10, <2>1, <2>2, <2>3, NegateMeans
  <2>5. QED
    BY <2>4 DEF rec
<1>11. CASE rec.type = "ConditionalValue"
  <2>1. /\ IsBoolean(g[rec.kids[1]]) /\ IsScalar(g[rec.kids[2]]) /\ IsScalar(g[rec.kids[3]])
        /\ g[rec.kids[2]].unit = rec.unit /\ g[rec.kids[3]].unit = rec.unit
    BY <1>0, <1>11, ConditionalValueRules
  <2>2. Len(xs) = 3 /\ OperandAt(g, n, xs, 1) /\ OperandAt(g, n, xs, 2) /\ OperandAt(g, n, xs, 3)
    BY <1>11, FixedOperands, FirstOperands DEF Conditionals
  <2>3. /\ KindOf(xs[1], "truth")
        /\ NumberOf(xs[2], rec.unit) /\ NumberOf(xs[3], rec.unit)
    BY <2>1, <2>2 DEF OperandAt
  <2> HIDE DEF rec
  <2>4. Denotes(rec, MeaningOf(rec, xs, env))
    <3>1. rec.type \in Conditionals /\ Denotes(rec, xs[2]) /\ Denotes(rec, xs[3])
      BY <1>11, <2>3, MeansOne DEF ScalarTypes, Conditionals
    <3>2. QED
      BY <2>3, <3>1, ConditionalMeans
  <2>5. QED
    BY <2>4 DEF rec
<1>12. CASE rec.type = "Comparison"
  <2>1. /\ rec.sound /\ IsScalar(g[rec.kids[1]]) /\ IsScalar(g[rec.kids[2]])
        /\ g[rec.kids[1]].unit = g[rec.kids[2]].unit
    BY <1>0, <1>12, ComparisonRules
  <2>2. Len(xs) = 2 /\ OperandAt(g, n, xs, 1) /\ OperandAt(g, n, xs, 2)
    BY <1>12, FixedOperands, FirstOperands
  <2>3. NumberOf(xs[1], g[rec.kids[1]].unit) /\ NumberOf(xs[2], g[rec.kids[1]].unit)
    BY <2>1, <2>2 DEF OperandAt
  <2> HIDE DEF rec
  <2>4. Denotes(rec, MeaningOf(rec, xs, env))
    BY <1>12, <2>1, <2>2, <2>3, ComparisonMeans
  <2>5. QED
    BY <2>4 DEF rec
<1>13. CASE rec.type = "Not"
  <2>1. IsBoolean(g[rec.kids[1]])
    BY <1>0, <1>13, NotRules
  <2>2. Len(xs) = 1 /\ OperandAt(g, n, xs, 1)
    BY <1>13, FixedOperands, FirstOperands
  <2>3. KindOf(xs[1], "truth")
    BY <2>1, <2>2 DEF OperandAt
  <2> HIDE DEF rec
  <2>4. Denotes(rec, MeaningOf(rec, xs, env))
    BY <1>13, <2>1, <2>2, <2>3, NotMeans
  <2>5. QED
    BY <2>4 DEF rec
<1>14. CASE rec.type = "Payment"
  <2>1. /\ rec.sound /\ IsScalar(g[rec.kids[1]])
        /\ IsMoney(rec.unit) /\ g[rec.kids[1]].unit = rec.unit
    BY <1>0, <1>14, PaymentRules
  <2>2. Len(xs) = 1 /\ OperandAt(g, n, xs, 1)
    BY <1>14, FixedOperands, FirstOperands
  <2>3. NumberOf(xs[1], rec.unit)
    BY <2>1, <2>2 DEF OperandAt
  <2> HIDE DEF rec
  <2>4. Denotes(rec, MeaningOf(rec, xs, env))
    BY <1>14, <2>1, <2>2, <2>3, PaymentMeans
  <2>5. QED
    BY <2>4 DEF rec
<1>15. CASE rec.type = "Scale"
  <2>1. /\ IsScalar(g[rec.kids[1]]) /\ g[rec.kids[1]].unit = "scalar"
        /\ IsContract(g[rec.kids[2]])
    BY <1>0, <1>15, ScaleRules
  <2>2. Len(xs) = 2 /\ OperandAt(g, n, xs, 1) /\ OperandAt(g, n, xs, 2)
    BY <1>15, FixedOperands, FirstOperands
  <2>3. NumberOf(xs[1], "scalar") /\ KindOf(xs[2], "flows")
    BY <2>1, <2>2 DEF OperandAt
  <2> HIDE DEF rec
  <2>4. Denotes(rec, MeaningOf(rec, xs, env))
    BY <1>15, <2>1, <2>2, <2>3, ScaleMeans
  <2>5. QED
    BY <2>4 DEF rec
<1>16. CASE rec.type = "ConditionalContract"
  <2>1. IsBoolean(g[rec.kids[1]]) /\ IsContract(g[rec.kids[2]]) /\ IsContract(g[rec.kids[3]])
    BY <1>0, <1>16, ConditionalContractRules
  <2>2. Len(xs) = 3 /\ OperandAt(g, n, xs, 1) /\ OperandAt(g, n, xs, 2) /\ OperandAt(g, n, xs, 3)
    BY <1>16, FixedOperands, FirstOperands DEF Conditionals
  <2>3. /\ KindOf(xs[1], "truth")
        /\ KindOf(xs[2], "flows") /\ KindOf(xs[3], "flows")
    BY <2>1, <2>2 DEF OperandAt
  <2> HIDE DEF rec
  <2>4. Denotes(rec, MeaningOf(rec, xs, env))
    <3>1. rec.type \in Conditionals /\ Denotes(rec, xs[2]) /\ Denotes(rec, xs[3])
      BY <1>16, <2>3, MeansOne DEF ContractTypes, Conditionals
    <3>2. QED
      BY <2>3, <3>1, ConditionalMeans
  <2>5. QED
    BY <2>4 DEF rec
<1>17. rec.type \in SupportedTypes
  BY DEF Operands, NodeAccepted, IsSupported
<1>18. QED
  BY <1>1, <1>2, <1>3, <1>4, <1>5, <1>6, <1>7, <1>8, <1>9, <1>10, <1>11, <1>12, <1>13, <1>14, <1>15, <1>16, <1>17
     DEF SupportedTypes, ScalarTypes, BooleanTypes, ContractTypes

-----------------------------------------------------------------------------
(* Every object of a closed part without cycles has a meaning.             *)

\* What validate_contract has found out about an object it returns metrics on.
AcceptedRecord(g, n) ==
  /\ NodeAccepted(g, n) /\ g[n].kids \in Seq(Node) /\ g[n].sound \in BOOLEAN
  /\ g[n].type \in DOMAIN Arity => Len(g[n].kids) = Arity[g[n].type]

LEMMA MeaningfulIff ==
  ASSUME NEW rec, IsSupported(rec), NEW x, Denotes(rec, x)
  PROVE  x.kind # "stuck" /\ (x.kind = "number" => rec.unit = x.unit)
<1>1. IsScalar(rec) \/ IsBoolean(rec) \/ IsContract(rec)
  BY DEF IsSupported, SupportedTypes, IsScalar, IsBoolean, IsContract
<1>2. QED
  BY <1>1 DEF Denotes, NumberOf, KindOf

LEMMA GraphMeans ==
  ASSUME NEW g, NEW env, NEW R, NEW d \in Nat, NEW L \in [R -> 1..d],
         Closed(g, R), Increasing(g, R, L),
         \A n \in R : AcceptedRecord(g, n)
  PROVE  \A n \in R : MeaningfulAt(g, env, R, n)
<1> DEFINE D == DenoteOn(g, env, R)
           Bad == {n \in R : ~Denotes(g[n], D[n])}
<1>1. \A n \in R : D[n] = Evaluate(g, env, D, n)
  BY DenoteFixed
<1> HIDE DEF D
<1>2. ASSUME NEW n \in R, \A i \in 1..Len(g[n].kids) : g[n].kids[i] \notin Bad
      PROVE  Denotes(g[n], D[n])
  <2> DEFINE xs == [i \in 1..Len(g[n].kids) |-> D[g[n].kids[i]]]
  <2>1. D[n] = MeaningOf(g[n], xs, env)
    BY <1>1 DEF Evaluate
  <2>2. AcceptedRecord(g, n) /\ Len(g[n].kids) \in Nat
    BY LenProperties DEF AcceptedRecord
  <2>3. Len(xs) = Len(g[n].kids)
    BY <2>2
  <2>4. \A i \in 1..Len(g[n].kids) : Denotes(g[g[n].kids[i]], D[g[n].kids[i]])
    BY <1>2 DEF Closed
  <2>5. \A i \in 1..Len(xs) : Denotes(g[g[n].kids[i]], xs[i])
    BY <2>3, <2>4
  <2> HIDE DEF xs
  <2>6. Operands(g, n, xs)
    BY <2>2, <2>3, <2>5 DEF Operands, AcceptedRecord
  <2>7. QED
    BY <2>1, <2>6, NodeMeans
<1>3. ASSUME Bad # {} PROVE FALSE
  <2> DEFINE T == {d - L[n] : n \in Bad}
  <2>1. T \subseteq Nat /\ T # {}
    BY <1>3
  <2>2. PICK k \in T : \A j \in T : k <= j
    <3> HIDE DEF T
    <3>1. QED
      BY <2>1, FirstOf
  <2>3. PICK n \in Bad : k = d - L[n]
    BY <2>2
  <2>4. \A m \in Bad : L[m] <= L[n]
    <3>1. ASSUME NEW m \in Bad PROVE L[m] <= L[n]
      <4>1. d - L[n] <= d - L[m]
        BY <2>2, <2>3
      <4>2. L[n] \in Int /\ L[m] \in Int
        BY <2>3
      <4>3. QED
        BY <4>1, <4>2
    <3>2. QED
      BY <3>1
  <2>5. ASSUME NEW i \in 1..Len(g[n].kids) PROVE g[n].kids[i] \notin Bad
    <3>1. n \in R /\ g[n].kids[i] \in R /\ L[n] < L[g[n].kids[i]]
      BY <2>3 DEF Closed, Increasing
    <3>2. L[n] \in Int /\ L[g[n].kids[i]] \in Int
      BY <3>1
    <3>3. ~(L[g[n].kids[i]] <= L[n])
      BY <3>1, <3>2
    <3>4. QED
      BY <2>4, <3>3
  <2>6. QED
    BY <1>2, <2>3, <2>5
<1>4. \A n \in R : Denotes(g[n], D[n]) /\ IsSupported(g[n])
  BY <1>3 DEF AcceptedRecord, NodeAccepted
<1>5. \A n \in R : D[n].kind # "stuck" /\ (D[n].kind = "number" => g[n].unit = D[n].unit)
  BY <1>4, MeaningfulIff
<1>6. QED
  BY <1>5 DEF D, MeaningfulAt
=============================================================================
