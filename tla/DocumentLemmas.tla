--------------------------- MODULE DocumentLemmas ---------------------------
(***************************************************************************)
(* What the proofs about canonicalization and payoff compilation share:    *)
(* the stack of an iterative traversal, the table filled from a digest     *)
(* oracle, the sequences of ids that a payload refers to, what the nodes   *)
(* of a document mean, and that merging operands and computing with        *)
(* literals agree with it.                                                 *)
(***************************************************************************)
EXTENDS DocumentSemantics, DigestOracle, DecimalLemmas, ContractLemmas,
        FiniteSetTheorems

-----------------------------------------------------------------------------
(* The two things an iterative post-order traversal does to its stack: it  *)
(* pops the last frame, or it puts a marker in its place and one frame per *)
(* child above it.                                                         *)

Popped(s) == SubSeq(s, 1, Len(s) - 1)

\* The frame is replaced by f, and the frames in above are put on top.
Pushed(s, f, above) == Append(Popped(s), f) \o above

\* A stack of frames in S with something to pop.
NonEmpty(s, S) == s \in Seq(S) /\ s # << >>

\* Popping leaves every other frame of the stack where it was.
LEMMA PopFacts ==
  ASSUME NEW S, NEW s, NonEmpty(s, S)
  PROVE  /\ Len(s) \in Nat \ {0}
         /\ s[Len(s)] \in S
         /\ Popped(s) \in Seq(S)
         /\ Len(Popped(s)) = Len(s) - 1
         /\ \A i \in 1..(Len(s) - 1) : Popped(s)[i] = s[i]
<1>0. s \in Seq(S) /\ s # << >>
  BY DEF NonEmpty
<1>1. Len(s) \in Nat \ {0}
  BY <1>0, EmptySeq
<1>2. s[Len(s)] \in S
  BY <1>0, <1>1, ElementOfSeq
<1>3. \A i \in 1..(Len(s) - 1) : s[i] \in S
  BY <1>0, <1>1, ElementOfSeq
<1>4. Len(s) - 1 \in Int /\ 1 \in Int
  BY <1>1
<1>5. /\ SubSeq(s, 1, Len(s) - 1) \in Seq(S)
      /\ Len(SubSeq(s, 1, Len(s) - 1))
           = IF 1 <= Len(s) - 1 THEN (Len(s) - 1) - 1 + 1 ELSE 0
      /\ \A i \in 1..((Len(s) - 1) - 1 + 1) :
           SubSeq(s, 1, Len(s) - 1)[i] = s[1 + i - 1]
  BY ONLY <1>3, <1>4, SubSeqProperties
<1>6. Len(SubSeq(s, 1, Len(s) - 1)) = Len(s) - 1
  <2> DEFINE r == SubSeq(s, 1, Len(s) - 1)
  <2>1. Len(r) = IF 1 <= Len(s) - 1 THEN (Len(s) - 1) - 1 + 1 ELSE 0
    BY <1>5
  <2> HIDE DEF r
  <2>2. PICK n \in Nat \ {0} : n = Len(s)
    BY <1>1
  <2>3. PICK m : m = Len(r)
    OBVIOUS
  <2>4. m = n - 1
    BY <2>1, <2>2, <2>3
  <2>5. QED
    BY <2>2, <2>3, <2>4 DEF r
<1>7. ASSUME NEW i \in 1..(Len(s) - 1)
      PROVE  SubSeq(s, 1, Len(s) - 1)[i] = s[i]
  <2>1. i \in 1..((Len(s) - 1) - 1 + 1) /\ 1 + i - 1 = i
    BY <1>1
  <2>2. SubSeq(s, 1, Len(s) - 1)[i] = s[1 + i - 1]
    BY <2>1, <1>5
  <2>3. QED
    BY <2>1, <2>2
<1>8. QED
  BY <1>1, <1>2, <1>5, <1>6, <1>7 DEF Popped

IsPushed(t, s, f, above) ==
  /\ Len(t) = Len(s) + Len(above)
  /\ \A i \in 1..(Len(s) - 1) : t[i] = s[i]
  /\ t[Len(s)] = f
  /\ \A k \in 1..Len(above) : t[Len(s) + k] = above[k]

\* Below the last frame nothing moves; f takes its place; the new frames
\* follow in their order.
LEMMA PushFacts ==
  ASSUME NEW S, NEW s, NonEmpty(s, S), NEW f \in S, NEW above \in Seq(S)
  PROVE  /\ Pushed(s, f, above) \in Seq(S)
         /\ IsPushed(Pushed(s, f, above), s, f, above)
<1> DEFINE low == Popped(s)
           base == Append(low, f)
           t == Pushed(s, f, above)
<1>0. Len(above) \in Nat
  BY LenProperties
<1>1. /\ Len(s) \in Nat \ {0}
      /\ low \in Seq(S) /\ Len(low) = Len(s) - 1
      /\ \A i \in 1..(Len(s) - 1) : low[i] = s[i]
  BY PopFacts
<1>2. t = base \o above
  BY DEF Pushed
<1> HIDE DEF low, t
<1>3. /\ base \in Seq(S) /\ Len(base) = Len(s)
      /\ base[Len(s)] = f
      /\ \A i \in 1..(Len(s) - 1) : base[i] = s[i]
  <2>1. /\ base \in Seq(S) /\ Len(base) = Len(low) + 1
        /\ \A i \in 1..Len(low) : base[i] = low[i]
        /\ base[Len(low) + 1] = f
    BY <1>1, AppendProperties
  <2>2. QED
    BY <2>1, <1>1
<1> HIDE DEF base
<1>4. /\ t \in Seq(S)
      /\ Len(t) = Len(base) + Len(above)
      /\ \A i \in 1..(Len(base) + Len(above)) :
           t[i] = IF i <= Len(base) THEN base[i] ELSE above[i - Len(base)]
  <2>1. base \in Seq(S) /\ above \in Seq(S)
    BY <1>3
  <2>2. QED
    BY ONLY <2>1, <1>2, ConcatProperties
<1>5. ASSUME NEW i \in 1..(Len(s) - 1) PROVE t[i] = s[i]
  <2>1. i \in 1..(Len(base) + Len(above)) /\ i <= Len(base)
    BY <1>0, <1>1, <1>3
  <2>2. t[i] = base[i]
    BY <1>4, <2>1
  <2>3. QED
    BY <2>2, <1>3
<1>6. t[Len(s)] = f
  <2>1. Len(s) \in 1..(Len(base) + Len(above))
    BY <1>0, <1>1, <1>3
  <2>2. t[Len(s)] = base[Len(s)]
    BY <1>1, <1>3, <1>4, <2>1
  <2>3. QED
    BY <2>2, <1>3
<1>7. ASSUME NEW k \in 1..Len(above) PROVE t[Len(s) + k] = above[k]
  <2> DEFINE i == Len(s) + k
  <2>1. i \in 1..(Len(base) + Len(above)) /\ ~(i <= Len(base)) /\ i - Len(base) = k
    BY <1>0, <1>1, <1>3
  <2> HIDE DEF i
  <2>2. t[i] = above[i - Len(base)]
    BY <1>4, <2>1
  <2>3. t[i] = above[k]
    BY <2>1, <2>2
  <2>4. QED
    BY <2>3 DEF i
<1>8. QED
  BY <1>0, <1>3, <1>4, <1>5, <1>6, <1>7 DEF t, IsPushed

-----------------------------------------------------------------------------
(* The digest oracle: a table filled from it stays content-addressed as    *)
(* long as an id that is taken by another payload is refused.              *)

LEMMA AnswersKept ==
  ASSUME NEW answered, NEW x \in DOMAIN answered, NEW id \in Answers(answered, x)
  PROVE  id = answered[x]
BY DEF Answers

\* Asking the oracle changes no earlier answer.
LEMMA AskingKeepsTable ==
  ASSUME NEW table, NEW answered, ContentAddressed(table, answered),
         NEW x, NEW id \in Answers(answered, x)
  PROVE  ContentAddressed(table, Extended(answered, x, id))
<1>1. x \in DOMAIN answered => id = answered[x]
  BY AnswersKept
<1>2. QED
  BY <1>1 DEF ContentAddressed, Extended

\* Entering x under its digest, unless the digest is taken.
LEMMA EnteringKeepsTable ==
  ASSUME NEW table, NEW answered, ContentAddressed(table, answered),
         NEW x, NEW id \in Answers(answered, x),
         id \in DOMAIN table => table[id] = x
  PROVE  ContentAddressed(Extended(table, id, x), Extended(answered, x, id))
<1>1. x \in DOMAIN answered => id = answered[x]
  BY AnswersKept
<1>2. QED
  BY <1>1 DEF ContentAddressed, Extended

DigestsTyped(answered) == \A x \in DOMAIN answered : answered[x] \in Ids

\* Every answer is a digest.
LEMMA AnswersTyped ==
  ASSUME NEW answered, DigestsTyped(answered), NEW x, NEW id \in Answers(answered, x)
  PROVE  id \in Ids /\ id \in Nat /\ DigestsTyped(Extended(answered, x, id))
<1> DEFINE used == {answered[y] : y \in DOMAIN answered}
<1>1. used \subseteq Ids
  BY DEF DigestsTyped
<1>2. id \in Ids
  <2>1. CASE x \in DOMAIN answered
    BY <2>1, AnswersKept DEF DigestsTyped
  <2>2. CASE x \notin DOMAIN answered /\ Oracle = "any"
    BY <1>1, <2>2 DEF Answers
  <2>3. CASE x \notin DOMAIN answered /\ Oracle = "one order"
    BY <2>3 DEF Answers
  <2>4. QED
    BY <2>1, <2>2, <2>3, OracleAssumption
<1>3. id \in Nat
  BY <1>2, OracleAssumption
<1>4. QED
  BY <1>2, <1>3 DEF DigestsTyped, Extended

\* No two questions have one answer.
NoClash(answered) ==
  \A x, y \in DOMAIN answered : answered[x] = answered[y] => x = y

LEMMA GreaterIsOther == \A m, k \in Nat : m > k => m # k
OBVIOUS

\* In one order the oracle does not collide, and so nothing in a table does.
LEMMA OneOrder ==
  ASSUME Oracle = "one order", NEW answered, DigestsTyped(answered), NoClash(answered),
         NEW x, NEW id \in Answers(answered, x)
  PROVE  NoClash(Extended(answered, x, id))
<1> DEFINE E == Extended(answered, x, id)
<1>1. CASE x \in DOMAIN answered
  <2>1. id = answered[x]
    BY <1>1 DEF Answers
  <2>2. DOMAIN E = DOMAIN answered /\ \A y \in DOMAIN E : E[y] = answered[y]
    BY <1>1, <2>1 DEF Extended
  <2> HIDE DEF E
  <2>3. NoClash(E)
    BY <2>2 DEF NoClash
  <2>4. QED
    BY <2>3 DEF E
<1>2. CASE x \notin DOMAIN answered
  <2>1. id \in Ids /\ \A y \in DOMAIN answered : id > answered[y] /\ answered[y] \in Ids
    BY <1>2 DEF Answers, DigestsTyped
  <2>2. id \in Nat /\ \A y \in DOMAIN answered : answered[y] \in Nat
    BY <2>1, OracleAssumption
  <2>3. ASSUME NEW y \in DOMAIN answered PROVE id # answered[y]
    <3>1. id > answered[y] /\ answered[y] \in Nat
      BY <2>1, <2>2
    <3>2. QED
      BY <2>2, <3>1, GreaterIsOther, Zenon
  <2>4. QED
    BY <2>3 DEF NoClash, Extended
<1>3. QED
  BY <1>1, <1>2

LEMMA TableHasIt ==
  ASSUME Oracle = "one order", NEW answered, DigestsTyped(answered), NoClash(answered),
         NEW table, ContentAddressed(table, answered),
         NEW x, NEW id \in Answers(answered, x), id \in DOMAIN table
  PROVE  table[id] = x
<1> DEFINE E == Extended(answered, x, id)
<1>1. NoClash(E)
  BY OneOrder
<1>2. table[id] \in DOMAIN answered /\ answered[table[id]] = id
  BY DEF ContentAddressed
<1>3. /\ x \in DOMAIN E /\ E[x] = id
      /\ table[id] \in DOMAIN E /\ (table[id] # x => E[table[id]] = id)
  BY <1>2 DEF Extended
<1> HIDE DEF E
<1>4. QED
  BY <1>1, <1>3 DEF NoClash

-----------------------------------------------------------------------------
(* Sorting: the ranks of a sequence of numbers are a permutation.          *)

Upto(s, i) == {j \in 1..Len(s) : s[j] < s[i] \/ (s[j] = s[i] /\ j <= i)}

LEMMA UptoFacts ==
  ASSUME NEW s \in Seq(Nat), NEW i \in 1..Len(s)
  PROVE  /\ Rank(s, i) \in 1..Len(s)
         /\ IsFiniteSet(Upto(s, i))
         /\ Rank(s, i) = Cardinality(Upto(s, i))
<1>1. Len(s) \in Nat /\ s[i] \in Nat
  BY LenProperties, ElementOfSeq
<1>2. Rank(s, i) = Cardinality(Upto(s, i))
  BY DEF Rank, Upto
<1>3. IsFiniteSet(1..Len(s)) /\ Cardinality(1..Len(s)) = Len(s)
  <2>1. 1 \in Int /\ Len(s) \in Int
    BY <1>1
  <2>2. /\ IsFiniteSet(1..Len(s))
        /\ Cardinality(1..Len(s)) = IF 1 > Len(s) THEN 0 ELSE Len(s) - 1 + 1
    BY <2>1, FS_Interval
  <2>3. QED
    BY <1>1, <2>2
<1>4. IsFiniteSet(Upto(s, i)) /\ Cardinality(Upto(s, i)) <= Len(s)
  <2>1. Upto(s, i) \in SUBSET (1..Len(s))
    BY DEF Upto
  <2>2. QED
    BY <1>3, <2>1, FS_Subset
<1>5. Cardinality(Upto(s, i)) \in Nat /\ Cardinality(Upto(s, i)) # 0
  <2>1. i \in Upto(s, i)
    BY <1>1 DEF Upto
  <2>2. QED
    BY <1>4, <2>1, FS_CardinalityType, FS_EmptySet
<1>6. QED
  BY <1>1, <1>2, <1>4, <1>5

\* An entry that comes later in the sorted sequence has a higher rank.
LEMMA RankIncreases ==
  ASSUME NEW s \in Seq(Nat), NEW i \in 1..Len(s), NEW k \in 1..Len(s),
         s[i] < s[k] \/ (s[i] = s[k] /\ i < k)
  PROVE  Rank(s, i) < Rank(s, k)
<1>1. Len(s) \in Nat /\ \A j \in 1..Len(s) : s[j] \in Nat
  BY LenProperties, ElementOfSeq
<1>2. Upto(s, i) \in SUBSET Upto(s, k)
  BY <1>1 DEF Upto
<1>3. k \in Upto(s, k) /\ k \notin Upto(s, i)
  BY <1>1 DEF Upto
<1>4. IsFiniteSet(Upto(s, k))
  BY UptoFacts
<1>5. /\ Cardinality(Upto(s, i)) <= Cardinality(Upto(s, k))
      /\ Cardinality(Upto(s, k)) # Cardinality(Upto(s, i))
  BY <1>2, <1>3, <1>4, FS_Subset
<1>6. QED
  BY <1>5, UptoFacts

LEMMA RanksCover ==
  ASSUME NEW s \in Seq(Nat), NEW r \in 1..Len(s)
  PROVE  \E i \in 1..Len(s) : Rank(s, i) = r
<1> DEFINE D == 1..Len(s)
           f == [i \in D |-> Rank(s, i)]
<1>1. Len(s) \in Nat /\ \A j \in D : s[j] \in Nat
  BY LenProperties, ElementOfSeq
<1>2. f \in [D -> D]
  BY UptoFacts
<1>3. ASSUME NEW i \in D, NEW k \in D, f[i] = f[k] PROVE i = k
  <2>1. Rank(s, i) = Rank(s, k) /\ Rank(s, i) \in Nat
    BY <1>3, UptoFacts
  <2>2. ~(s[i] < s[k] \/ (s[i] = s[k] /\ i < k))
    BY <2>1, RankIncreases
  <2>3. ~(s[k] < s[i] \/ (s[k] = s[i] /\ k < i))
    BY <2>1, RankIncreases
  <2>4. s[i] \in Nat /\ s[k] \in Nat /\ i \in Nat /\ k \in Nat
    BY <1>1
  <2>5. QED
    BY <2>2, <2>3, <2>4
<1> HIDE DEF f
<1>4. f \in Injection(D, D)
  BY <1>2, <1>3 DEF Injection, IsInjective
<1>5. IsFiniteSet(D)
  BY <1>1, FS_Interval
<1>6. f \in Surjection(D, D)
  BY <1>4, <1>5, FS_Injection
<1>7. PICK i \in D : f[i] = r
  BY <1>6 DEF Surjection
<1>8. Rank(s, i) = r
  BY <1>7 DEF f
<1>9. QED
  BY <1>8

LEMMA WiderSeq ==
  ASSUME NEW S, NEW T, S \subseteq T, NEW s \in Seq(S)
  PROVE  s \in Seq(T)
<1>1. Len(s) \in Nat /\ s \in [1..Len(s) -> S]
  BY LenProperties
<1>2. s \in [1..Len(s) -> T]
  BY <1>1
<1>3. QED
  BY <1>1, <1>2, SeqDef

LEMMA NarrowerSeq ==
  ASSUME NEW S, NEW T, NEW s \in Seq(S), \A i \in 1..Len(s) : s[i] \in T
  PROVE  s \in Seq(T)
<1>1. Len(s) \in Nat /\ s \in [1..Len(s) -> S]
  BY LenProperties
<1>2. s \in [1..Len(s) -> T]
  BY <1>1
<1>3. QED
  BY <1>1, <1>2, SeqDef

\* Sorting neither loses nor invents an id.
LEMMA SortedFacts ==
  ASSUME NEW T \in SUBSET Nat, NEW s \in Seq(T)
  PROVE  /\ SortedIds(s) \in Seq(T)
         /\ Len(SortedIds(s)) = Len(s)
         /\ Seq2Set(SortedIds(s)) = Seq2Set(s)
         /\ \A i \in 1..(Len(s) - 1) : SortedIds(s)[i] <= SortedIds(s)[i + 1]
<1>1. /\ Len(s) \in Nat /\ s \in [1..Len(s) -> T] /\ s \in Seq(Nat)
      /\ \A i \in 1..Len(s) : s[i] \in T
  <2>1. Len(s) \in Nat /\ s \in [1..Len(s) -> T]
    BY LenProperties
  <2>2. s \in Seq(Nat)
    BY WiderSeq
  <2>3. QED
    BY <2>1, <2>2
<1> DEFINE t == SortedIds(s)
<1>2. ASSUME NEW r \in 1..Len(s)
      PROVE  PositionOf(s, r) \in 1..Len(s) /\ Rank(s, PositionOf(s, r)) = r
  BY <1>1, RanksCover DEF PositionOf
<1>3. t = [r \in 1..Len(s) |-> s[PositionOf(s, r)]]
  BY DEF SortedIds
<1> HIDE DEF t
<1>4. t \in [1..Len(s) -> T]
  BY <1>1, <1>2, <1>3
<1>5. t \in Seq(T)
  BY <1>1, <1>4, SeqDef
<1>6. Len(t) = Len(s)
  BY <1>1, <1>4, <1>5, LenProperties
<1>7. Seq2Set(t) \subseteq Seq2Set(s)
  <2>1. \A r \in 1..Len(s) : t[r] = s[PositionOf(s, r)] /\ PositionOf(s, r) \in 1..Len(s)
    BY <1>2, <1>3
  <2>2. QED
    BY <1>6, <2>1 DEF Seq2Set
<1>8. ASSUME NEW i \in 1..Len(s) PROVE s[i] \in Seq2Set(t)
  <2> DEFINE r == Rank(s, i)
  <2>1. r \in 1..Len(s)
    BY <1>1, UptoFacts
  <2>2. PositionOf(s, r) \in 1..Len(s) /\ Rank(s, PositionOf(s, r)) = r
    BY <1>2, <2>1
  <2>3. s[PositionOf(s, r)] = s[i]
    <3>1. /\ ~(s[PositionOf(s, r)] < s[i] \/ (s[PositionOf(s, r)] = s[i] /\ PositionOf(s, r) < i))
          /\ ~(s[i] < s[PositionOf(s, r)] \/ (s[i] = s[PositionOf(s, r)] /\ i < PositionOf(s, r)))
      <4>1. /\ Rank(s, PositionOf(s, r)) = Rank(s, i) /\ Rank(s, i) \in Nat
        BY <2>1, <2>2
      <4>2. QED
        BY <1>1, <2>2, <4>1, RankIncreases
    <3>2. s[PositionOf(s, r)] \in Nat /\ s[i] \in Nat
      BY <1>1, <2>2
    <3>3. QED
      BY <3>1, <3>2
  <2>4. t[r] = s[i]
    BY <1>3, <2>1, <2>3
  <2>5. QED
    BY <1>6, <2>1, <2>4 DEF Seq2Set
<1>9. ASSUME NEW i \in 1..(Len(s) - 1) PROVE t[i] <= t[i + 1]
  <2> DEFINE p == PositionOf(s, i)
             q == PositionOf(s, i + 1)
  <2>1. i \in 1..Len(s) /\ i + 1 \in 1..Len(s) /\ i \in Nat
    BY <1>1
  <2>2. p \in 1..Len(s) /\ q \in 1..Len(s) /\ Rank(s, p) = i /\ Rank(s, q) = i + 1
    BY <1>2, <2>1
  <2>3. t[i] = s[p] /\ t[i + 1] = s[q] /\ s[p] \in Nat /\ s[q] \in Nat
    BY <1>1, <1>3, <2>1, <2>2
  <2> HIDE DEF p, q
  <2>4. ~(s[q] < s[p])
    <3>1. SUFFICES ASSUME s[q] < s[p] PROVE FALSE
      OBVIOUS
    <3>2. Rank(s, q) < Rank(s, p)
      BY <1>1, <2>2, <3>1, RankIncreases
    <3>3. QED
      BY <2>1, <2>2, <3>2
  <2>5. QED
    BY <2>3, <2>4
<1>10. QED
  BY <1>5, <1>6, <1>7, <1>8, <1>9 DEF t, Seq2Set

-----------------------------------------------------------------------------
(* Sorting forgets the order and nothing else: two lists with the same     *)
(* sorted list are rearrangements of each other, and one rearrangement of  *)
(* a list is ascending.                                                    *)

\* The first n entries of s are ascending numbers.
Ascending(s, n) ==
  /\ s \in [1..n -> Nat]
  /\ \A i \in 1..(n - 1) : s[i] <= s[i + 1]

\* m permutes 1..n, and takes the entries of a to those of b.
Rearranges(m, n, a, b) ==
  /\ m \in [1..n -> 1..n]
  /\ \A i, j \in 1..n : m[i] = m[j] => i = j
  /\ \A i \in 1..n : a[i] = b[m[i]]

LEMMA AscendingFar ==
  ASSUME NEW n \in Nat, NEW s, Ascending(s, n), NEW i \in 1..n, NEW j \in i..n
  PROVE  s[i] <= s[j]
<1> DEFINE T == {k \in Nat : s[i] <= s[i + k]}
<1>1. \A k \in 1..n : s[k] \in Nat
  BY DEF Ascending
<1>2. 0 \in T
  <2>1. s[i + 0] = s[i] /\ s[i] \in Nat
    BY <1>1
  <2>2. QED
    BY <2>1
<1>3. ASSUME NEW k \in 0..((n - i) - 1), k \in T PROVE k + 1 \in T
  <2>1. i + k \in 1..(n - 1) /\ (i + k) + 1 = i + (k + 1) /\ k + 1 \in Nat
    OBVIOUS
  <2>2. s[i + k] <= s[i + (k + 1)]
    BY <2>1 DEF Ascending
  <2>3. s[i] <= s[i + k]
    BY <1>3
  <2>4. s[i] \in Nat /\ s[i + k] \in Nat /\ s[i + (k + 1)] \in Nat
    BY <1>1, <2>1
  <2>5. s[i] <= s[i + (k + 1)]
    BY <2>2, <2>3, <2>4
  <2>6. QED
    BY <2>1, <2>5
<1> HIDE DEF T
<1>4. 0..(n - i) \subseteq T
  <2>1. n - i \in Nat
    OBVIOUS
  <2>2. QED
    BY <1>2, <1>3, <2>1, Climb
<1>5. j - i \in 0..(n - i) /\ i + (j - i) = j
  OBVIOUS
<1>6. j - i \in T
  BY <1>4, <1>5
<1>7. QED
  BY <1>5, <1>6 DEF T

\* Fewer places than numbers: entry k of b cannot exceed the first k of a.
LEMMA NotBelow ==
  ASSUME NEW n \in Nat, NEW a, NEW b, Ascending(a, n), Ascending(b, n),
         NEW m, Rearranges(m, n, a, b), NEW k \in 1..n
  PROVE  b[k] <= a[k]
<1> DEFINE f == [i \in 1..k |-> m[i]]
<1>1. \A i \in 1..n : a[i] \in Nat /\ b[i] \in Nat /\ m[i] \in 1..n
  BY DEF Ascending, Rearranges
<1>2. SUFFICES ASSUME a[k] < b[k] PROVE FALSE
  BY <1>1
<1>3. ASSUME NEW i \in 1..k PROVE m[i] \in 1..(k - 1)
  <2>1. i \in 1..n /\ k \in i..n /\ m[i] \in 1..n
    BY <1>1
  <2>2. b[m[i]] <= a[k]
    <3>1. a[i] <= a[k]
      BY <2>1, AscendingFar
    <3>2. QED
      BY <2>1, <3>1 DEF Rearranges
  <2>3. ~(m[i] >= k)
    <3>1. SUFFICES ASSUME m[i] >= k PROVE FALSE
      OBVIOUS
    <3>2. m[i] \in k..n
      BY <2>1, <3>1
    <3>3. b[k] <= b[m[i]]
      BY <3>2, AscendingFar
    <3>4. b[k] \in Nat /\ a[k] \in Nat /\ b[m[i]] \in Nat
      BY <1>1, <2>1
    <3>5. QED
      BY <1>2, <2>2, <3>3, <3>4
  <2>4. QED
    BY <2>1, <2>3
<1> DEFINE S == 1..k
           P == 1..(k - 1)
<1>4. f \in [S -> P]
  BY <1>3
<1>5. IsFiniteSet(S) /\ IsFiniteSet(P) /\ Cardinality(P) < Cardinality(S)
  <2>1. 1 \in Int /\ k \in Int /\ k - 1 \in Int
    OBVIOUS
  <2>2. /\ IsFiniteSet(S) /\ Cardinality(S) = IF 1 > k THEN 0 ELSE k - 1 + 1
        /\ IsFiniteSet(P)
        /\ Cardinality(P) = IF 1 > k - 1 THEN 0 ELSE (k - 1) - 1 + 1
    BY <2>1, FS_Interval
  <2>3. Cardinality(S) = k /\ Cardinality(P) = k - 1
    BY <2>2
  <2>4. QED
    BY <2>2, <2>3
<1>6. S \subseteq 1..n
  OBVIOUS
<1>7. \A x \in S : f[x] = m[x]
  OBVIOUS
<1> HIDE DEF f, S, P
<1>8. PICK x, y \in S : x # y /\ f[x] = f[y]
  BY <1>4, <1>5, FS_PigeonHole
<1>9. QED
  BY <1>6, <1>7, <1>8 DEF Rearranges

\* A permutation can be undone.
LEMMA Undone ==
  ASSUME NEW n \in Nat, NEW a, NEW b, NEW m, Rearranges(m, n, a, b)
  PROVE  \E w : Rearranges(w, n, b, a)
<1> DEFINE D == 1..n
           w == [i \in D |-> CHOOSE j \in D : m[j] = i]
<1>1. IsFiniteSet(D)
  BY FS_Interval
<1>2. m \in Injection(D, D)
  BY DEF Injection, IsInjective, Rearranges
<1>3. m \in Surjection(D, D)
  BY <1>1, <1>2, FS_Injection
<1>4. \A i \in D : \E j \in D : m[j] = i
  BY <1>3 DEF Surjection
<1>5. \A i \in D : w[i] \in D /\ m[w[i]] = i
  BY <1>4
<1>6. w \in [D -> D]
  BY <1>5
<1> HIDE DEF w
<1>7. \A i, j \in 1..n : w[i] = w[j] => i = j
  BY <1>5
<1>8. \A i \in 1..n : b[i] = a[w[i]]
  BY <1>5 DEF Rearranges
<1>9. Rearranges(w, n, b, a)
  BY <1>6, <1>7, <1>8 DEF Rearranges
<1>10. QED
  BY <1>9

\* Two ascending sequences of the same numbers are the same.
LEMMA AscendingIsUnique ==
  ASSUME NEW n \in Nat, NEW a, NEW b, Ascending(a, n), Ascending(b, n),
         NEW m, Rearranges(m, n, a, b)
  PROVE  a = b
<1>1. \A k \in 1..n : b[k] <= a[k]
  BY NotBelow
<1>2. PICK w : Rearranges(w, n, b, a)
  BY Undone
<1>3. \A k \in 1..n : a[k] <= b[k]
  BY <1>2, NotBelow
<1>4. /\ \A k \in 1..n : a[k] \in Nat /\ b[k] \in Nat
      /\ a \in [1..n -> Nat] /\ b \in [1..n -> Nat]
  BY DEF Ascending
<1>5. \A k \in 1..n : a[k] = b[k]
  BY <1>1, <1>3, <1>4
<1>6. QED
  BY <1>4, <1>5

\* Where the entry i of s is in the sorted sequence.
LEMMA SortedPlace ==
  ASSUME NEW s \in Seq(Nat), NEW i \in 1..Len(s)
  PROVE  Rank(s, i) \in 1..Len(s) /\ SortedIds(s)[Rank(s, i)] = s[i]
<1> DEFINE r == Rank(s, i)
           p == PositionOf(s, r)
<1>1. r \in 1..Len(s)
  BY UptoFacts
<1>2. p \in 1..Len(s) /\ Rank(s, p) = r
  BY <1>1, RanksCover DEF PositionOf
<1>3. SortedIds(s)[r] = s[p]
  BY <1>1 DEF SortedIds
<1> HIDE DEF p
<1>4. /\ ~(s[p] < s[i] \/ (s[p] = s[i] /\ p < i))
      /\ ~(s[i] < s[p] \/ (s[i] = s[p] /\ i < p))
  <2>1. Rank(s, p) = Rank(s, i) /\ Rank(s, i) \in Nat
    BY <1>1, <1>2
  <2>2. QED
    BY <1>2, <2>1, RankIncreases
<1>5. s[p] \in Nat /\ s[i] \in Nat
  BY <1>2, ElementOfSeq
<1>6. s[p] = s[i]
  BY <1>4, <1>5
<1>7. QED
  BY <1>1, <1>3, <1>6

LEMMA RankTwice ==
  ASSUME NEW s \in Seq(Nat), NEW i \in 1..Len(s), NEW j \in 1..Len(s),
         Rank(s, i) = Rank(s, j)
  PROVE  i = j
<1>1. /\ ~(s[i] < s[j] \/ (s[i] = s[j] /\ i < j))
      /\ ~(s[j] < s[i] \/ (s[j] = s[i] /\ j < i))
  <2>1. Rank(s, i) \in Nat
    BY UptoFacts
  <2>2. QED
    BY <2>1, RankIncreases
<1>2. s[i] \in Nat /\ s[j] \in Nat /\ i \in Nat /\ j \in Nat
  BY ElementOfSeq
<1>3. QED
  BY <1>1, <1>2

\* Sequences that sort to the same one are rearrangements of each other.
LEMMA SortedSame ==
  ASSUME NEW s \in Seq(Nat), NEW t \in Seq(Nat), SortedIds(s) = SortedIds(t)
  PROVE  Len(s) = Len(t) /\ \E m : Rearranges(m, Len(s), s, t)
<1> DEFINE n == Len(s)
           m == [i \in 1..n |-> PositionOf(t, Rank(s, i))]
<1>1. Len(s) = Len(t)
  <2>1. Len(SortedIds(s)) = Len(s) /\ Len(SortedIds(t)) = Len(t)
    BY SortedFacts
  <2>2. QED
    BY <2>1
<1>2. ASSUME NEW i \in 1..n
      PROVE  /\ m[i] \in 1..n /\ Rank(t, m[i]) = Rank(s, i) /\ s[i] = t[m[i]]
  <2>1. Rank(s, i) \in 1..n /\ SortedIds(s)[Rank(s, i)] = s[i]
    BY SortedPlace
  <2>2. m[i] \in 1..Len(t) /\ Rank(t, m[i]) = Rank(s, i)
    <3>1. Rank(s, i) \in 1..Len(t)
      BY <1>1, <2>1
    <3>2. QED
      BY <3>1, RanksCover DEF PositionOf
  <2>3. SortedIds(t)[Rank(t, m[i])] = t[m[i]]
    BY <2>2, SortedPlace
  <2>4. QED
    BY <1>1, <2>1, <2>2, <2>3
<1>3. m \in [1..n -> 1..n]
  BY <1>2
<1> HIDE DEF m
<1>4. ASSUME NEW i \in 1..n, NEW j \in 1..n, m[i] = m[j] PROVE i = j
  <2>1. Rank(s, i) = Rank(s, j)
    BY <1>2, <1>4
  <2>2. QED
    BY <2>1, RankTwice
<1>5. Rearranges(m, n, s, t)
  BY <1>2, <1>3, <1>4 DEF Rearranges
<1>6. QED
  BY <1>1, <1>5

\* Sorting gives a list in another order.
LEMMA SortedRearranges ==
  ASSUME NEW s \in Seq(Nat), NEW n \in Nat, Len(s) = n
  PROVE  \E m : Rearranges(m, n, SortedIds(s), s)
<1> DEFINE m == [r \in 1..n |-> PositionOf(s, r)]
           t == SortedIds(s)
<1>1. ASSUME NEW r \in 1..n
      PROVE  m[r] \in 1..n /\ Rank(s, m[r]) = r /\ t[r] = s[m[r]]
  <2>1. \E i \in 1..Len(s) : Rank(s, i) = r
    BY RanksCover
  <2>2. PositionOf(s, r) \in 1..n /\ Rank(s, PositionOf(s, r)) = r
    BY <2>1 DEF PositionOf
  <2>3. t[r] = s[PositionOf(s, r)]
    BY DEF SortedIds
  <2>4. QED
    BY <2>2, <2>3
<1>2. m \in [1..n -> 1..n]
  BY <1>1
<1> HIDE DEF m, t
<1>3. \A i, j \in 1..n : m[i] = m[j] => i = j
  BY <1>1
<1>4. Rearranges(m, n, t, s)
  BY <1>1, <1>2, <1>3 DEF Rearranges
<1>5. QED
  BY <1>4 DEF t

-----------------------------------------------------------------------------
(* Operand lists and what is computed from them.                           *)

\* The payloads of a list of ids, one by one.
LEMMA PayloadsFacts ==
  ASSUME NEW table, NEW ids \in Seq(DOMAIN table)
  PROVE  /\ Len(ids) \in Nat
         /\ PayloadsOf(ids, table) = [i \in 1..Len(ids) |-> table[ids[i]]]
         /\ Len(PayloadsOf(ids, table)) = Len(ids)
         /\ \A i \in 1..Len(ids) : /\ ids[i] \in DOMAIN table
                                   /\ PayloadsOf(ids, table)[i] = table[ids[i]]
<1>1. Len(ids) \in Nat /\ \A i \in 1..Len(ids) : ids[i] \in DOMAIN table
  BY LenProperties, ElementOfSeq
<1>2. PayloadsOf(ids, table) = [i \in 1..Len(ids) |-> table[ids[i]]]
  BY DEF PayloadsOf
<1>3. Len(PayloadsOf(ids, table)) = Len(ids)
  <2> DEFINE s == PayloadsOf(ids, table)
             S == {s[i] : i \in 1..Len(ids)}
  <2>1. s \in [1..Len(ids) -> S]
    BY <1>2
  <2> HIDE DEF s, S
  <2>2. s \in Seq(S)
    BY <1>1, <2>1, SeqDef
  <2>3. Len(s) = Len(ids)
    BY <1>1, <2>1, <2>2, LenProperties
  <2>4. QED
    BY <2>3 DEF s
<1>4. QED
  BY <1>1, <1>2, <1>3

NonEmptySeqs(S) == Seq(S) \ {<< >>}

\* Two operand lists joined are an operand list.
LEMMA Joined ==
  ASSUME NEW S, NEW a \in NonEmptySeqs(S), NEW b \in NonEmptySeqs(S)
  PROVE  /\ a \o b \in NonEmptySeqs(S) /\ Len(a) \in Nat \ {0}
         /\ Len(a \o b) > Len(a) /\ Len(a \o b) = Len(a) + Len(b)
<1>1. a \in Seq(S) /\ b \in Seq(S) /\ a # << >> /\ b # << >>
  BY DEF NonEmptySeqs
<1>2. a \o b \in Seq(S) /\ Len(a \o b) = Len(a) + Len(b)
  BY <1>1, ConcatProperties
<1>3. Len(a) \in Nat \ {0} /\ Len(b) \in Nat \ {0}
  BY <1>1, EmptySeq, LenProperties
<1>4. Len(a \o b) # 0
  BY <1>2, <1>3
<1>5. QED
  BY <1>2, <1>3, <1>4, EmptySeq DEF NonEmptySeqs

\* FlattenSeq joins the sequences one after the other.
LEMMA FlattenRuns ==
  ASSUME NEW S, NEW ss, ss \in NonEmptySeqs(NonEmptySeqs(S))
  PROVE  \E f : /\ FlattenSeq(ss) = f[Len(ss)]
               /\ \A i \in 1..Len(ss) :
                    f[i] = IF i = 1 THEN ss[i] ELSE f[i-1] \o ss[i]
<1> DEFINE n == Len(ss)
           A == NonEmptySeqs(S)
           Eq(f) == f = [i \in 1..n |-> IF i = 1 THEN ss[i] ELSE f[i-1] \o ss[i]]
<1>1. ss \in Seq(A) /\ n \in Nat \ {0} /\ \A i \in 1..n : ss[i] \in A
  <2>1. ss \in Seq(A) /\ ss # << >>
    BY DEF NonEmptySeqs
  <2>2. QED
    BY <2>1, EmptySeq, LenProperties, ElementOfSeq
<1>2. FlattenSeq(ss) = (CHOOSE f : Eq(f))[n]
  BY <1>1 DEF FlattenSeq
<1> HIDE DEF n
<1>3. ASSUME NEW a \in A, NEW b \in A
      PROVE  a \o b \in A
  BY Joined
<1> HIDE DEF A
<1>4. \E f : Eq(f)
  <2> DEFINE F == [p \in A \X Nat |-> IF p[2] \in 1..n /\ p[2] # 1 THEN p[1] \o ss[p[2]] ELSE ss[1]]
  <2>1. F \in [A \X Nat -> A]
    BY <1>1, <1>3
  <2>2. \A a \in A : \A i \in Nat : i \in 1..n => F[<<a, i>>] = IF i = 1 THEN ss[1] ELSE a \o ss[i]
    BY DEF F
  <2> HIDE DEF F
  <2>3. ss[1] \in A
    BY <1>1
  <2>4. PICK g \in [0..n -> A] : Follows(g, n, ss[1], F)
    BY <1>1, <2>1, <2>3, Iterated
  <2> DEFINE f == [i \in 1..n |-> g[i]]
  <2>5. ASSUME NEW i \in 1..n
        PROVE  f[i] = IF i = 1 THEN ss[i] ELSE f[i-1] \o ss[i]
    <3>1. i - 1 \in 0..n /\ g[i-1] \in A /\ i \in Nat /\ i - 1 \in 0..(n - 1) /\ (i - 1) + 1 = i
      BY <1>1
    <3>2. g[i] = F[<<g[i-1], i>>]
      BY <2>4, <3>1 DEF Follows
    <3>3. f[i] = IF i = 1 THEN ss[1] ELSE g[i-1] \o ss[i]
      BY <2>2, <3>1, <3>2
    <3>4. i # 1 => i - 1 \in 1..n
      BY <1>1
    <3>5. QED
      BY <3>3, <3>4
  <2>6. Eq(f)
    BY <2>5
  <2>7. QED
    BY <2>6
<1>5. PICK f : Eq(f) /\ f = CHOOSE h : Eq(h)
  BY <1>4
<1>6. \A i \in 1..n : f[i] = IF i = 1 THEN ss[i] ELSE f[i-1] \o ss[i]
  BY <1>5
<1> HIDE DEF Eq
<1>7. FlattenSeq(ss) = f[n]
  BY <1>2, <1>5
<1>8. QED
  BY <1>6, <1>7 DEF n

\* Merging nested operand lists gives an operand list.
LEMMA FlattenTyped ==
  ASSUME NEW S, NEW ss, ss \in NonEmptySeqs(NonEmptySeqs(S))
  PROVE  FlattenSeq(ss) \in NonEmptySeqs(S) /\ Len(FlattenSeq(ss)) >= Len(ss)
<1> DEFINE n == Len(ss)
           A == NonEmptySeqs(S)
<1>1. ss \in Seq(A) /\ n \in Nat \ {0} /\ \A i \in 1..n : ss[i] \in A
  <2>1. ss \in Seq(A) /\ ss # << >>
    BY DEF NonEmptySeqs
  <2>2. QED
    BY <2>1, EmptySeq, LenProperties, ElementOfSeq
<1>2. PICK f : /\ FlattenSeq(ss) = f[n]
               /\ \A i \in 1..n : f[i] = IF i = 1 THEN ss[i] ELSE f[i-1] \o ss[i]
  BY FlattenRuns
<1> HIDE DEF n
<1>3. ASSUME NEW a \in A, NEW b \in A
      PROVE  a \o b \in A /\ Len(a) \in Nat \ {0} /\ Len(a \o b) > Len(a)
  BY Joined
<1> HIDE DEF A
<1>6. \A i \in 1..n : f[i] = IF i = 1 THEN ss[i] ELSE f[i-1] \o ss[i]
  BY <1>2
<1> DEFINE T == {i \in 0..n : i = 0 \/ (f[i] \in A /\ Len(f[i]) >= i)}
<1>7. 0 \in T
  BY <1>1
<1>8. ASSUME NEW i \in 0..(n - 1), i \in T PROVE i + 1 \in T
  <2>1. i + 1 \in 1..n /\ (i + 1) - 1 = i /\ i + 1 \in 0..n
    BY <1>1
  <2>2. f[i + 1] = IF i + 1 = 1 THEN ss[i + 1] ELSE f[i] \o ss[i + 1]
    BY <1>6, <2>1
  <2>3. ss[i + 1] \in A
    BY <1>1, <2>1
  <2>4. f[i + 1] \in A /\ Len(f[i + 1]) >= i + 1
    <3>1. CASE i = 0
      <4>1. f[i + 1] = ss[i + 1] /\ Len(ss[i + 1]) \in Nat \ {0}
        BY <1>3, <2>2, <2>3, <3>1
      <4>2. QED
        BY <2>3, <3>1, <4>1
    <3>2. CASE i # 0
      <4>1. f[i] \in A /\ Len(f[i]) >= i /\ i + 1 # 1
        BY <1>8, <3>2
      <4>0. i \in Nat
        BY <1>1
      <4>2. f[i + 1] = f[i] \o ss[i + 1]
        BY <2>2, <4>1
      <4>3. /\ f[i] \o ss[i + 1] \in A /\ Len(f[i]) \in Nat
            /\ Len(f[i] \o ss[i + 1]) > Len(f[i])
        BY <1>3, <2>3, <4>1
      <4>5. Len(f[i + 1]) \in Nat
        BY <1>3, <2>3, <4>2, <4>3
      <4>4. \A x, y \in Nat : x >= i /\ y > x => y >= i + 1
        BY <4>0
      <4>6. Len(f[i + 1]) > Len(f[i])
        BY <4>2, <4>3
      <4>7. Len(f[i + 1]) >= i + 1
        BY <4>1, <4>3, <4>4, <4>5, <4>6
      <4>8. QED
        BY <4>2, <4>3, <4>7
    <3>3. QED
      BY <3>1, <3>2
  <2>5. QED
    BY <2>1, <2>4
<1> HIDE DEF T
<1>9. n \in T
  <2>1. 0..n \subseteq T
    BY <1>1, <1>7, <1>8, Climb
  <2>2. QED
    BY <1>1, <2>1
<1>10. f[n] \in A /\ Len(f[n]) >= n
  BY <1>1, <1>9 DEF T
<1>11. QED
  BY <1>2, <1>10 DEF A, n

\* kids are payloads whose numbers are decimals.
Numbered(kids) ==
  Len(kids) \in Nat /\ \A i \in 1..Len(kids) : kids[i].num \in Decimals

\* The partial sums of literals.
Sums(kids, n, f) ==
  /\ f[0] = DecZero
  /\ \A i \in 0..(n - 1) : f[i + 1] = ExactAdd(f[i], kids[i + 1].num)

LEMMA SumSteps ==
  ASSUME NEW kids, Numbered(kids)
  PROVE  \E f : SumOf(kids) = f[Len(kids)] /\ Sums(kids, Len(kids), f)
<1> DEFINE n == Len(kids)
           Eq(f) == f = [i \in 0..n |-> IF i = 0 THEN DecZero
                                        ELSE ExactAdd(f[i - 1], kids[i].num)]
<1>1. n \in Nat /\ \A i \in 1..n : kids[i].num \in Decimals
  BY DEF Numbered
<1>2. SumOf(kids) = (CHOOSE f : Eq(f))[n]
  BY DEF SumOf
<1> HIDE DEF n
<1>3. \E f : Eq(f)
  <2> DEFINE F == [p \in Decimals \X Nat |->
                     IF p[2] \in 1..n THEN ExactAdd(p[1], kids[p[2]].num) ELSE DecZero]
  <2>1. F \in [Decimals \X Nat -> Decimals]
    BY <1>1, AddFacts, ZeroFacts
  <2>2. \A a \in Decimals : \A i \in Nat : i \in 1..n => F[<<a, i>>] = ExactAdd(a, kids[i].num)
    BY DEF F
  <2> HIDE DEF F
  <2>3. PICK g \in [0..n -> Decimals] : Follows(g, n, DecZero, F)
    BY <1>1, <2>1, ZeroFacts, Iterated
  <2>4. ASSUME NEW i \in 0..n
        PROVE  g[i] = IF i = 0 THEN DecZero ELSE ExactAdd(g[i - 1], kids[i].num)
    <3>1. CASE i = 0
      BY <2>3, <3>1 DEF Follows
    <3>2. CASE i # 0
      <4>1. i \in 1..n /\ i \in Nat /\ i - 1 \in 0..n /\ i - 1 \in 0..(n - 1) /\ (i - 1) + 1 = i
        BY <1>1, <3>2
      <4>2. g[i] = F[<<g[i - 1], i>>] /\ g[i - 1] \in Decimals
        BY <2>3, <4>1 DEF Follows
      <4>3. QED
        BY <2>2, <3>2, <4>1, <4>2
    <3>3. QED
      BY <3>1, <3>2
  <2>5. Eq(g)
    BY <2>4
  <2>6. QED
    BY <2>5
<1>4. PICK f : Eq(f) /\ f = CHOOSE h : Eq(h)
  BY <1>3
<1>5. \A i \in 0..n : f[i] = IF i = 0 THEN DecZero ELSE ExactAdd(f[i - 1], kids[i].num)
  BY <1>4
<1> HIDE DEF Eq
<1>6. ASSUME NEW i \in 0..(n - 1) PROVE f[i + 1] = ExactAdd(f[i], kids[i + 1].num)
  <2>1. i + 1 \in 0..n /\ (i + 1) - 1 = i /\ i + 1 # 0
    BY <1>1
  <2>2. QED
    BY <1>5, <2>1
<1>7. f[0] = DecZero
  BY <1>1, <1>5
<1>8. Sums(kids, n, f)
  BY <1>6, <1>7 DEF Sums
<1>9. QED
  BY <1>2, <1>4, <1>8 DEF n

LEMMA SumTyped ==
  ASSUME NEW kids, Numbered(kids)
  PROVE  SumOf(kids) \in Decimals
<1> DEFINE n == Len(kids)
<1>1. n \in Nat /\ \A i \in 1..n : kids[i].num \in Decimals
  BY DEF Numbered
<1>2. PICK f : SumOf(kids) = f[n] /\ Sums(kids, n, f)
  BY SumSteps
<1> HIDE DEF n
<1> DEFINE T == {i \in 0..n : f[i] \in Decimals}
<1>3. 0 \in T
  BY <1>1, <1>2, ZeroFacts DEF Sums
<1>4. ASSUME NEW i \in 0..(n - 1), i \in T PROVE i + 1 \in T
  <2>1. i + 1 \in 1..n /\ i + 1 \in 0..n
    BY <1>1
  <2>2. f[i + 1] = ExactAdd(f[i], kids[i + 1].num)
    BY <1>2 DEF Sums
  <2>3. QED
    BY <1>1, <1>4, <2>1, <2>2, AddFacts
<1> HIDE DEF T
<1>5. n \in T
  <2>1. 0..n \subseteq T
    BY <1>1, <1>3, <1>4, Climb
  <2>2. QED
    BY <1>1, <2>1
<1>6. QED
  BY <1>2, <1>5 DEF T

-----------------------------------------------------------------------------
(* The classes and units of the nodes of a document.  The unit of a node   *)
(* is computed from those of its operands; where references go down, there *)
(* is one way to do so.                                                    *)

TypedIn(p, table, units) ==
  /\ p = Payload(p.type, p.kids, p.unit, p.val, p.num, p.op)
  /\ OperandsFit(p, PayloadsOf(p.kids, table))
  /\ UnitsFit(p, UnitsAt(units, p.kids))

UnitAt(p, units) == DerivedUnit(p, UnitsAt(units, p.kids))

\* The units of an acyclic table of payloads are what UnitsOf finds.
LEMMA UnitsAreUnique ==
  ASSUME NEW nodes, IsAcyclic(nodes),
         \A id \in DOMAIN nodes : nodes[id].kids \in Seq(DOMAIN nodes),
         NEW u, u = [id \in DOMAIN nodes |-> u[id]],
         \A id \in DOMAIN nodes : u[id] = UnitAt(nodes[id], u)
  PROVE  UnitsOf(nodes) = u
<1> DEFINE Eq(f) == f = [id \in DOMAIN nodes |->
                           DerivedUnit(nodes[id], UnitsAt(f, nodes[id].kids))]
<1>1. UnitsOf(nodes) = CHOOSE f : Eq(f)
  BY DEF UnitsOf
<1>2. Eq(u)
  BY DEF UnitAt
<1>3. ASSUME NEW f, Eq(f) PROVE f = u
  <2> DEFINE S == {id \in DOMAIN nodes : f[id] # u[id]}
  <2>1. f = [id \in DOMAIN nodes |-> f[id]]
        /\ \A id \in DOMAIN nodes :
             f[id] = DerivedUnit(nodes[id], UnitsAt(f, nodes[id].kids))
    BY <1>3
  <2> HIDE DEF Eq
  <2>2. ASSUME S # {} PROVE FALSE
    <3>1. PICK id \in S : Seq2Set(nodes[id].kids) \cap S = {}
      BY <2>2 DEF IsAcyclic
    <3>2. id \in DOMAIN nodes /\ f[id] # u[id]
      BY <3>1
    <3> DEFINE kids == nodes[id].kids
    <3>3. \A i \in 1..Len(kids) : kids[i] \in DOMAIN nodes /\ kids[i] \in Seq2Set(kids)
      BY <3>2, ElementOfSeq DEF Seq2Set
    <3>4. \A i \in 1..Len(kids) : f[kids[i]] = u[kids[i]]
      BY <3>1, <3>3
    <3>5. UnitsAt(f, kids) = UnitsAt(u, kids)
      BY <3>4 DEF UnitsAt
    <3>6. QED
      BY <2>1, <3>2, <3>5 DEF UnitAt
  <2>3. QED
    BY <2>1, <2>2
<1> HIDE DEF Eq
<1>4. QED
  BY <1>1, <1>2, <1>3

IsDown(nodes, S) == \A x \in S : Seq2Set(nodes[x].kids) \subseteq S
SolvesOn(nodes, S, u) == \A x \in S : u[x] = UnitAt(nodes[x], u)

\* Units that agree on the operands give the same unit.
LEMMA UnitAtSame ==
  ASSUME NEW p, NEW S, Seq2Set(p.kids) \subseteq S,
         NEW u, NEW v, \A x \in S : u[x] = v[x]
  PROVE  UnitsAt(u, p.kids) = UnitsAt(v, p.kids) /\ UnitAt(p, u) = UnitAt(p, v)
<1> DEFINE ids == p.kids
<1>1. \A i \in 1..Len(ids) : u[ids[i]] = v[ids[i]]
  BY DEF Seq2Set
<1> HIDE DEF ids
<1>2. UnitsAt(u, ids) = UnitsAt(v, ids)
  BY <1>1 DEF UnitsAt
<1>3. QED
  BY <1>2 DEF UnitAt, ids

LEMMA UnitsExist ==
  ASSUME NEW nodes, IsAcyclic(nodes), IsFiniteSet(DOMAIN nodes),
         \A id \in DOMAIN nodes : Seq2Set(nodes[id].kids) \subseteq DOMAIN nodes
  PROVE  \E u : SolvesOn(nodes, DOMAIN nodes, u)
<1> DEFINE D == DOMAIN nodes
           N == Cardinality(D)
           Sized(k) == \E S \in SUBSET D : /\ Cardinality(S) = k /\ IsDown(nodes, S)
                                          /\ \E u : SolvesOn(nodes, S, u)
           T == {k \in Nat : Sized(k)}
<1>1. N \in Nat
  BY FS_CardinalityType
<1>2. 0 \in T
  <2>1. {} \in SUBSET D /\ Cardinality({}) = 0
    BY FS_EmptySet
  <2>2. IsDown(nodes, {}) /\ SolvesOn(nodes, {}, << >>)
    BY DEF IsDown, SolvesOn
  <2>3. QED
    BY <2>1, <2>2
<1>3. ASSUME NEW k \in 0..(N - 1), k \in T PROVE k + 1 \in T
  <2>1. PICK S \in SUBSET D : /\ Cardinality(S) = k /\ IsDown(nodes, S)
                              /\ \E u : SolvesOn(nodes, S, u)
    BY <1>3
  <2>2. PICK u : SolvesOn(nodes, S, u)
    BY <2>1
  <2>3. D \ S # {}
    <3>1. S # D
      BY <1>1, <2>1
    <3>2. QED
      BY <3>1
  <2>4. PICK x \in D \ S : Seq2Set(nodes[x].kids) \cap (D \ S) = {}
    BY <2>3 DEF IsAcyclic
  <2>5. Seq2Set(nodes[x].kids) \subseteq S
    BY <2>4
  <2> DEFINE S2 == S \cup {x}
             v == [y \in S2 |-> IF y = x THEN UnitAt(nodes[x], u) ELSE u[y]]
  <2>6. S2 \in SUBSET D /\ Cardinality(S2) = k + 1
    <3>1. IsFiniteSet(S) /\ x \notin S
      BY FS_Subset
    <3>2. QED
      BY <2>1, <3>1, FS_AddElement
  <2>7. \A y \in S2 : Seq2Set(nodes[y].kids) \subseteq S
    BY <2>1, <2>5 DEF IsDown
  <2>8. \A y \in S : v[y] = u[y]
    OBVIOUS
  <2>9. v[x] = UnitAt(nodes[x], u)
    OBVIOUS
  <2> HIDE DEF v
  <2>10. ASSUME NEW y \in S2 PROVE UnitAt(nodes[y], v) = UnitAt(nodes[y], u)
    <3> DEFINE p == nodes[y]
    <3>1. Seq2Set(p.kids) \subseteq S
      BY <2>7
    <3> HIDE DEF p
    <3>2. UnitAt(p, v) = UnitAt(p, u)
      BY <2>8, <3>1, UnitAtSame
    <3>3. QED
      BY <3>2 DEF p
  <2>11. SolvesOn(nodes, S2, v)
    BY <2>2, <2>8, <2>9, <2>10 DEF SolvesOn
  <2>12. IsDown(nodes, S2)
    BY <2>7 DEF IsDown
  <2> HIDE DEF S2
  <2>13. k + 1 \in Nat /\ Sized(k + 1)
    BY <1>1, <2>6, <2>11, <2>12
  <2>14. QED
    BY <2>13
<1>4. N \in T
  <2> HIDE DEF T
  <2>1. 0..N \subseteq T
    BY <1>1, <1>2, <1>3, Climb
  <2>2. QED
    BY <1>1, <2>1
<1>5. PICK S \in SUBSET D : Cardinality(S) = N /\ \E u : SolvesOn(nodes, S, u)
  BY <1>4
<1>6. S = D
  BY <1>5, FS_Subset
<1>7. QED
  BY <1>5, <1>6

\* UnitsOf computes the unit of every node from those of its operands.
LEMMA UnitsComputed ==
  ASSUME NEW nodes, IsAcyclic(nodes), IsFiniteSet(DOMAIN nodes),
         \A id \in DOMAIN nodes : nodes[id].kids \in Seq(DOMAIN nodes)
  PROVE  SolvesOn(nodes, DOMAIN nodes, UnitsOf(nodes))
<1> DEFINE D == DOMAIN nodes
<1>1. \A id \in D : Seq2Set(nodes[id].kids) \subseteq D
  BY ElementOfSeq DEF Seq2Set
<1>2. PICK u : SolvesOn(nodes, D, u)
  BY <1>1, UnitsExist
<1> DEFINE v == [id \in D |-> u[id]]
<1>3. \A id \in D : v[id] = u[id]
  OBVIOUS
<1>4. v = [id \in DOMAIN nodes |-> v[id]]
  OBVIOUS
<1> HIDE DEF v
<1>5. \A id \in D : UnitAt(nodes[id], v) = UnitAt(nodes[id], u)
  BY <1>1, <1>3, UnitAtSame
<1>6. \A id \in D : v[id] = UnitAt(nodes[id], v)
  BY <1>2, <1>3, <1>5 DEF SolvesOn
<1>7. UnitsOf(nodes) = v
  BY <1>4, <1>6, UnitsAreUnique
<1>8. QED
  BY <1>6, <1>7 DEF SolvesOn


-----------------------------------------------------------------------------
(* Sums: a sum of natural numbers is the size of a disjoint union.         *)

\* A disjoint union in which x has h[x] cells: its size is the sum of h over S.
Cells(h, S) == UNION {{x} \X (1..h[x]) : x \in S}

Sized(h, S) == IsFiniteSet(S) /\ \A x \in S : h[x] \in Nat

LEMMA CellOf ==
  ASSUME NEW h, NEW S, NEW c
  PROVE  c \in Cells(h, S) <=> \E x \in S : \E i \in 1..h[x] : c = <<x, i>>
BY DEF Cells

LEMMA CellsFinite ==
  ASSUME NEW h, NEW S, Sized(h, S)
  PROVE  IsFiniteSet(Cells(h, S)) /\ Cardinality(Cells(h, S)) \in Nat
<1> DEFINE F(x) == {x} \X (1..h[x])
           Fs == {F(x) : x \in S}
           g == [x \in S |-> F(x)]
<1>1. IsFiniteSet(Fs)
  <2>1. g \in Surjection(S, Fs)
    BY DEF Surjection
  <2>2. QED
    BY <2>1, FS_Surjection DEF Sized
<1>2. ASSUME NEW x \in S PROVE IsFiniteSet(F(x))
  <2> DEFINE I == 1..h[x]
             A == {x}
  <2>1. IsFiniteSet(I)
    BY FS_Interval DEF Sized
  <2>2. IsFiniteSet(A)
    BY FS_Singleton
  <2> HIDE DEF I, A
  <2>3. IsFiniteSet(A \X I)
    BY <2>1, <2>2, FS_Product
  <2>4. QED
    BY <2>3 DEF I, A
<1> HIDE DEF F
<1>3. \A A \in Fs : IsFiniteSet(A)
  BY <1>2
<1> HIDE DEF Fs
<1>4. IsFiniteSet(UNION Fs)
  BY <1>1, <1>3, FS_UNION
<1>5. IsFiniteSet(Cells(h, S))
  BY <1>4 DEF Fs, F, Cells
<1>6. QED
  BY <1>5, FS_CardinalityType

\* One element has as many cells as it says.
LEMMA CellsOfOne ==
  ASSUME NEW h, NEW x, h[x] \in Nat
  PROVE  /\ IsFiniteSet({x} \X (1..h[x]))
         /\ Cardinality({x} \X (1..h[x])) = h[x]
<1> DEFINE I == 1..h[x]
           A == {x}
<1>1. IsFiniteSet(I) /\ Cardinality(I) = h[x]
  BY FS_Interval
<1>2. IsFiniteSet(A) /\ Cardinality(A) = 1
  BY FS_Singleton
<1> HIDE DEF I, A
<1>3. IsFiniteSet(A \X I) /\ Cardinality(A \X I) = 1 * h[x]
  BY <1>1, <1>2, FS_Product
<1>4. 1 * h[x] = h[x]
  OBVIOUS
<1>5. QED
  BY <1>3, <1>4 DEF I, A

\* A sum, one summand at a time.
LEMMA CellsPeeled ==
  ASSUME NEW h, NEW S, Sized(h, S), NEW x \in S
  PROVE  /\ Sized(h, S \ {x})
         /\ Cardinality(Cells(h, S)) = h[x] + Cardinality(Cells(h, S \ {x}))
<1> DEFINE A == {x} \X (1..h[x])
           B == Cells(h, S \ {x})
<1>1. Sized(h, S \ {x})
  BY FS_RemoveElement DEF Sized
<1>2. IsFiniteSet(A) /\ Cardinality(A) = h[x] /\ h[x] \in Nat
  BY CellsOfOne DEF Sized
<1>3. IsFiniteSet(B) /\ Cardinality(B) \in Nat
  BY <1>1, CellsFinite
<1>4. Cells(h, S) = A \cup B
  BY DEF Cells
<1>5. A \cap B = {}
  BY DEF Cells
<1> HIDE DEF A, B
<1>6. Cardinality(A \cup B) = Cardinality(A) + Cardinality(B) - Cardinality(A \cap B)
  BY <1>2, <1>3, FS_Union
<1>7. Cardinality(A \cap B) = 0
  BY <1>5, FS_EmptySet
<1>8. QED
  BY <1>1, <1>2, <1>3, <1>4, <1>6, <1>7 DEF B

LEMMA CellsOfNone ==
  ASSUME NEW h PROVE Cardinality(Cells(h, {})) = 0
<1>1. Cells(h, {}) = {}
  BY DEF Cells
<1>2. QED
  BY <1>1, FS_EmptySet

\* Adding up one by one, in whatever order pick takes them, gives the sum.
LEMMA SumsUp ==
  ASSUME NEW h, NEW S, Sized(h, S), NEW pick, NEW f, f[{}] = 0,
         \A s \in SUBSET S : s # {} =>
           /\ pick[s] \in s
           /\ f[s \ {pick[s]}] \in Nat => f[s] = h[pick[s]] + f[s \ {pick[s]}]
  PROVE  f[S] = Cardinality(Cells(h, S))
<1> DEFINE T == {k \in Nat : \A s \in SUBSET S :
                   Cardinality(s) = k => f[s] = Cardinality(Cells(h, s))}
<1>1. \A s \in SUBSET S : Sized(h, s) /\ Cardinality(s) \in Nat
  BY FS_Subset, FS_CardinalityType DEF Sized
<1>2. 0 \in T
  <2>1. ASSUME NEW s \in SUBSET S, Cardinality(s) = 0
        PROVE  f[s] = Cardinality(Cells(h, s))
    <3>1. s = {}
      BY <1>1, <2>1, FS_EmptySet DEF Sized
    <3>2. QED
      BY <3>1, CellsOfNone
  <2>2. QED
    BY <2>1
<1>3. ASSUME NEW k \in Nat, k \in T PROVE k + 1 \in T
  <2>1. ASSUME NEW s \in SUBSET S, Cardinality(s) = k + 1
        PROVE  f[s] = Cardinality(Cells(h, s))
    <3> DEFINE x == pick[s]
               r == s \ {x}
    <3>1. Sized(h, s) /\ IsFiniteSet(s)
      BY <1>1 DEF Sized
    <3>2. s # {}
      <4>1. Cardinality({}) = 0 /\ k + 1 # 0
        BY <1>3, FS_EmptySet
      <4>2. QED
        BY <2>1, <4>1
    <3>3. x \in s /\ (f[r] \in Nat => f[s] = h[x] + f[r])
      BY <3>2
    <3> HIDE DEF x
    <3>4. r \in SUBSET S /\ Cardinality(r) = k
      <4>1. Cardinality(r) = Cardinality(s) - 1
        BY <3>1, <3>3, FS_RemoveElement
      <4>2. (k + 1) - 1 = k
        BY <1>3
      <4>3. QED
        BY <2>1, <4>1, <4>2
    <3>5. f[r] = Cardinality(Cells(h, r))
      BY <1>3, <3>4
    <3>6. Cardinality(Cells(h, r)) \in Nat
      BY <1>1, <3>4, CellsFinite
    <3>7. Cardinality(Cells(h, s)) = h[x] + Cardinality(Cells(h, r))
      BY <3>1, <3>3, CellsPeeled
    <3>8. QED
      BY <3>3, <3>5, <3>6, <3>7
  <2>2. QED
    BY <2>1
<1> HIDE DEF T
<1>4. Nat \subseteq T
  BY <1>2, <1>3, ClimbAll
<1>5. Cardinality(S) \in T
  BY <1>1, <1>4
<1>6. QED
  BY <1>5 DEF T

\* MapThenSumSet adds up.
LEMMA SumOverSet ==
  ASSUME NEW h, NEW S, Sized(h, S)
  PROVE  MapThenSumSet(LAMBDA n : h[n], S) = Cardinality(Cells(h, S))
<1> DEFINE Eq(f) == f = [s \in SUBSET S |->
                           IF s = {} THEN 0
                           ELSE h[CHOOSE x \in s : TRUE] + f[s \ {CHOOSE x \in s : TRUE}]]
           g == [s \in SUBSET S |-> Cardinality(Cells(h, s))]
           pick == [s \in SUBSET S |-> CHOOSE x \in s : TRUE]
<1>1. MapThenSumSet(LAMBDA n : h[n], S) = (CHOOSE f : Eq(f))[S]
  BY DEF MapThenSumSet, MapThenFoldSet
<1>2. \A s \in SUBSET S : Sized(h, s)
  BY FS_Subset DEF Sized
<1>3. \A s \in SUBSET S : s # {} => pick[s] \in s /\ pick[s] = CHOOSE x \in s : TRUE
  OBVIOUS
<1> HIDE DEF pick
<1>4. Eq(g)
  <2>1. ASSUME NEW s \in SUBSET S
        PROVE  g[s] = IF s = {} THEN 0
                      ELSE h[CHOOSE x \in s : TRUE] + g[s \ {CHOOSE x \in s : TRUE}]
    <3>1. CASE s = {}
      BY <3>1, CellsOfNone
    <3>2. CASE s # {}
      <4> DEFINE x == CHOOSE y \in s : TRUE
      <4>1. x \in s
        BY <3>2
      <4> HIDE DEF x
      <4>2. Cardinality(Cells(h, s)) = h[x] + Cardinality(Cells(h, s \ {x}))
        BY <1>2, <4>1, CellsPeeled
      <4>3. g[s] = h[x] + g[s \ {x}]
        BY <4>2
      <4>4. QED
        BY <3>2, <4>3 DEF x
    <3>3. QED
      BY <3>1, <3>2
  <2> HIDE DEF g
  <2>2. g = [s \in SUBSET S |-> g[s]]
    BY DEF g
  <2>3. QED
    BY <2>1, <2>2
<1>5. PICK f : Eq(f) /\ f = CHOOSE e : Eq(e)
  BY <1>4
<1>6. f[{}] = 0
  BY <1>5
<1>7. \A s \in SUBSET S : s # {} =>
        pick[s] \in s /\ f[s] = h[pick[s]] + f[s \ {pick[s]}]
  BY <1>3, <1>5
<1> HIDE DEF Eq
<1>8. f[S] = Cardinality(Cells(h, S))
  BY <1>6, <1>7, SumsUp
<1>9. QED
  BY <1>1, <1>5, <1>8

LEMMA GreatestOf ==
  ASSUME NEW n \in Nat, NEW s \in SUBSET (1..n), s # {}
  PROVE  Max(s) \in s
<1> DEFINE T == {n - x : x \in s}
<1>1. T \subseteq Nat /\ T # {}
  <2>1. ASSUME NEW x \in s PROVE n - x \in Nat
    <3>1. x \in 1..n
      BY <2>1
    <3>2. QED
      BY <3>1
  <2>2. QED
    BY <2>1
<1>2. PICK y \in T : \A z \in T : y <= z
  BY <1>1, LeastOf
<1>3. PICK x \in s : y = n - x
  BY <1>2
<1>4. \A z \in s : x >= z
  <2>1. ASSUME NEW z \in s PROVE x >= z
    <3>1. n - x <= n - z
      BY <1>2, <1>3
    <3>2. QED
      BY <3>1
  <2>2. QED
    BY <2>1
<1>5. QED
  BY <1>3, <1>4 DEF Max

\* The function h over a sequence.
Along(h, s) == [i \in DOMAIN s |-> h[s[i]]]

\* FoldLeft adds up.
LEMMA SumAlongSeq ==
  ASSUME NEW h, NEW s, Len(s) \in Nat, DOMAIN s = 1..Len(s),
         \A i \in 1..Len(s) : h[s[i]] \in Nat
  PROVE  FoldLeft(LAMBDA sum, k : sum + h[k], 0, s)
           = Cardinality(Cells(Along(h, s), DOMAIN s))
<1> DEFINE D == DOMAIN s
           w == Along(h, s)
           Eq(f) == f = [t \in SUBSET D |->
                           IF t = {} THEN 0 ELSE f[t \ {Max(t)}] + h[s[Max(t)]]]
           g == [t \in SUBSET D |-> Cardinality(Cells(w, t))]
           pick == [t \in SUBSET D |-> Max(t)]
<1>1. FoldLeft(LAMBDA sum, k : sum + h[k], 0, s) = (CHOOSE f : Eq(f))[D]
  BY DEF FoldLeft, MapThenFoldSet
<1>2. \A i \in D : w[i] = h[s[i]] /\ w[i] \in Nat
  BY DEF Along
<1>3. Sized(w, D)
  <2>1. IsFiniteSet(1..Len(s))
    BY FS_Interval
  <2> HIDE DEF w
  <2>2. QED
    BY <1>2, <2>1 DEF Sized
<1> HIDE DEF w
<1>4. \A t \in SUBSET D : Sized(w, t)
  BY <1>3, FS_Subset DEF Sized
<1>5. \A t \in SUBSET D : t # {} => pick[t] \in t /\ pick[t] = Max(t)
  BY GreatestOf
<1> HIDE DEF pick, D
<1>6. Eq(g)
  <2>1. ASSUME NEW t \in SUBSET D
        PROVE  g[t] = IF t = {} THEN 0 ELSE g[t \ {Max(t)}] + h[s[Max(t)]]
    <3>1. CASE t = {}
      BY <3>1, CellsOfNone
    <3>2. CASE t # {}
      <4> DEFINE x == Max(t)
      <4>1. x \in t /\ w[x] = h[s[x]] /\ w[x] \in Nat
        BY <1>2, <1>5, <3>2
      <4> HIDE DEF x
      <4>0. Sized(w, t) /\ Sized(w, t \ {x})
        BY <1>4
      <4>2. Cardinality(Cells(w, t)) = w[x] + Cardinality(Cells(w, t \ {x}))
        BY <4>0, <4>1, CellsPeeled
      <4>3. Cardinality(Cells(w, t \ {x})) \in Nat
        BY <4>0, CellsFinite
      <4>4. g[t] = g[t \ {x}] + h[s[x]]
        BY <4>1, <4>2, <4>3
      <4>5. QED
        BY <3>2, <4>4 DEF x
    <3>3. QED
      BY <3>1, <3>2
  <2> HIDE DEF g
  <2>2. g = [t \in SUBSET D |-> g[t]]
    BY DEF g
  <2>3. QED
    BY <2>1, <2>2
<1>7. PICK f : Eq(f) /\ f = CHOOSE e : Eq(e)
  BY <1>6
<1>8. f[{}] = 0
  BY <1>7
<1>9. ASSUME NEW t \in SUBSET D, t # {}
      PROVE  /\ pick[t] \in t
             /\ f[t \ {pick[t]}] \in Nat => f[t] = w[pick[t]] + f[t \ {pick[t]}]
  <2>1. pick[t] \in t /\ pick[t] = Max(t)
    BY <1>5, <1>9
  <2>2. f[t] = f[t \ {Max(t)}] + h[s[Max(t)]]
    BY <1>7, <1>9
  <2> HIDE DEF Eq
  <2>3. f[t] = f[t \ {pick[t]}] + w[pick[t]] /\ w[pick[t]] \in Nat
    BY <1>2, <2>1, <2>2
  <2>4. QED
    BY <2>1, <2>3
<1> HIDE DEF Eq
<1>10. f[D] = Cardinality(Cells(w, D))
  BY <1>3, <1>8, <1>9, SumsUp
<1>11. QED
  BY <1>1, <1>7, <1>10 DEF w, D

\* One summand is at most the sum, two at most the sum.
LEMMA CellsOfSome ==
  ASSUME NEW h, NEW S, Sized(h, S), NEW x \in S
  PROVE  h[x] <= Cardinality(Cells(h, S))
<1>1. h[x] \in Nat /\ Sized(h, S \ {x})
  BY CellsPeeled DEF Sized
<1>2. Cardinality(Cells(h, S)) = h[x] + Cardinality(Cells(h, S \ {x}))
  BY CellsPeeled
<1>3. Cardinality(Cells(h, S \ {x})) \in Nat
  BY <1>1, CellsFinite
<1>4. QED
  BY <1>1, <1>2, <1>3

\* A sum of positive numbers is at least as large as there are numbers.
LEMMA CellsCount ==
  ASSUME NEW h, NEW n \in Nat, \A i \in 1..n : h[i] \in Nat /\ h[i] >= 1
  PROVE  n <= Cardinality(Cells(h, 1..n))
<1> DEFINE S == 1..n
           f == [i \in S |-> <<i, 1>>]
<1>1. Sized(h, S)
  BY FS_Interval DEF Sized
<1>2. ASSUME NEW i \in S PROVE <<i, 1>> \in Cells(h, S)
  <2>1. 1 \in 1..h[i]
    OBVIOUS
  <2>2. QED
    BY <2>1, CellOf
<1>3. f \in Injection(S, Cells(h, S))
  BY <1>2 DEF Injection, IsInjective
<1>4. Cardinality(S) <= Cardinality(Cells(h, S))
  BY <1>1, <1>3, CellsFinite, FS_Injection
<1>5. Cardinality(S) = n
  BY FS_Interval
<1>6. QED
  BY <1>4, <1>5

\* Joined sequences are as long as the sequences together.
LEMMA FlattenLength ==
  ASSUME NEW S, NEW ss, ss \in NonEmptySeqs(NonEmptySeqs(S)),
         NEW h, Sized(h, 1..Len(ss)), \A i \in 1..Len(ss) : Len(ss[i]) <= h[i]
  PROVE  Len(FlattenSeq(ss)) <= Cardinality(Cells(h, 1..Len(ss)))
<1> DEFINE n == Len(ss)
           A == NonEmptySeqs(S)
           C(i) == Cardinality(Cells(h, 1..i))
<1>1. n \in Nat \ {0} /\ \A i \in 1..n : ss[i] \in A
  <2>1. ss \in Seq(A) /\ ss # << >>
    BY DEF NonEmptySeqs
  <2>2. QED
    BY <2>1, EmptySeq, LenProperties, ElementOfSeq
<1>2. PICK f : /\ FlattenSeq(ss) = f[n]
               /\ \A i \in 1..n : f[i] = IF i = 1 THEN ss[i] ELSE f[i-1] \o ss[i]
  BY FlattenRuns
<1>3. Sized(h, 1..n) /\ \A i \in 1..n : h[i] \in Nat /\ Len(ss[i]) <= h[i]
  BY DEF Sized
<1> HIDE DEF n
<1>4. ASSUME NEW i \in 1..n
      PROVE  C(i) \in Nat /\ C(i - 1) \in Nat /\ C(i) = h[i] + C(i - 1)
  <2> DEFINE I == 1..i
             J == 1..(i - 1)
  <2>1. i \in Nat /\ i \in I /\ I \ {i} = J /\ I \subseteq 1..n
    BY <1>1
  <2>2. Sized(h, I)
    BY <1>3, <2>1, FS_Interval DEF Sized
  <2> HIDE DEF I, J
  <2>3. Sized(h, J) /\ Cardinality(Cells(h, I)) = h[i] + Cardinality(Cells(h, J))
    <3>1. /\ Sized(h, I \ {i})
          /\ Cardinality(Cells(h, I)) = h[i] + Cardinality(Cells(h, I \ {i}))
      BY <2>1, <2>2, CellsPeeled
    <3>2. QED
      BY <2>1, <3>1
  <2>4. Cardinality(Cells(h, I)) \in Nat /\ Cardinality(Cells(h, J)) \in Nat
    BY <2>2, <2>3, CellsFinite
  <2>5. QED
    BY <2>3, <2>4 DEF I, J
<1> HIDE DEF C
<1> DEFINE T == {i \in 0..n : i = 0 \/ (f[i] \in A /\ Len(f[i]) <= C(i))}
<1>5. 0 \in T
  BY <1>1
<1>6. ASSUME NEW i \in 0..(n - 1), i \in T PROVE i + 1 \in T
  <2> DEFINE j == i + 1
  <2>1. j \in 1..n /\ j - 1 = i /\ j \in 0..n
    BY <1>1
  <2> HIDE DEF j
  <2>2. f[j] = IF j = 1 THEN ss[j] ELSE f[i] \o ss[j]
    BY <1>2, <2>1
  <2>3. ss[j] \in A /\ h[j] \in Nat /\ Len(ss[j]) <= h[j] /\ Len(ss[j]) \in Nat
    <3>1. ss[j] \in A /\ h[j] \in Nat /\ Len(ss[j]) <= h[j]
      BY <1>1, <1>3, <2>1
    <3>2. Len(ss[j]) \in Nat
      BY <3>1, Joined
    <3>3. QED
      BY <3>1, <3>2
  <2>4. C(j) \in Nat /\ C(i) \in Nat /\ C(j) = h[j] + C(i)
    BY <1>4, <2>1
  <2>5. f[j] \in A /\ Len(f[j]) <= C(j)
    <3>1. CASE i = 0
      <4>1. j = 1
        BY <2>1, <3>1
      <4>2. QED
        BY <2>2, <2>3, <2>4, <4>1
    <3>2. CASE i # 0
      <4>1. f[i] \in A /\ Len(f[i]) <= C(i) /\ j # 1
        BY <1>6, <2>1, <3>2
      <4>2. f[j] = f[i] \o ss[j]
        BY <2>2, <4>1
      <4>3. /\ f[i] \o ss[j] \in A /\ Len(f[i]) \in Nat
            /\ Len(f[i] \o ss[j]) = Len(f[i]) + Len(ss[j])
        BY <2>3, <4>1, Joined
      <4>4. Len(f[j]) <= C(j)
        <5>1. Len(f[j]) = Len(f[i]) + Len(ss[j])
          BY <4>2, <4>3
        <5>2. \A a, b, c, d \in Nat : a <= c /\ b <= d => a + b <= d + c
          OBVIOUS
        <5>3. Len(f[i]) + Len(ss[j]) <= h[j] + C(i)
          BY <2>3, <2>4, <4>1, <4>3, <5>2
        <5>4. QED
          BY <2>4, <5>1, <5>3
      <4>5. QED
        BY <4>2, <4>3, <4>4
    <3>3. QED
      BY <3>1, <3>2
  <2>6. QED
    BY <2>1, <2>5 DEF j
<1> HIDE DEF T
<1>7. n \in T
  <2>1. 0..n \subseteq T
    BY <1>1, <1>5, <1>6, Climb
  <2>2. QED
    BY <1>1, <2>1
<1>8. Len(f[n]) <= C(n)
  BY <1>1, <1>7 DEF T
<1>9. QED
  BY <1>2, <1>8 DEF C, n

-----------------------------------------------------------------------------
(* Sorting the operands of a commutative type again keeps its meaning.     *)

\* A rearrangement without the last entry and the one it goes to.
LEMMA RearrangesLess ==
  ASSUME NEW n \in Nat, NEW m, NEW s, NEW t, Rearranges(m, n + 1, s, t)
  PROVE  /\ m[n + 1] \in 1..(n + 1) /\ s[n + 1] = t[m[n + 1]]
         /\ \E w : Rearranges(w, n, s, Without(t, m[n + 1]))
<1> DEFINE j == m[n + 1]
           w == [i \in 1..n |-> IF m[i] < j THEN m[i] ELSE m[i] - 1]
<1>1. n + 1 \in 1..(n + 1) /\ \A i \in 1..n : i \in 1..(n + 1) /\ i # n + 1
  OBVIOUS
<1>2. /\ \A i \in 1..(n + 1) : m[i] \in 1..(n + 1) /\ s[i] = t[m[i]]
      /\ \A i, k \in 1..(n + 1) : m[i] = m[k] => i = k
  BY DEF Rearranges
<1>3. j \in 1..(n + 1) /\ s[n + 1] = t[j]
  BY <1>1, <1>2
<1>4. \A i \in 1..n : m[i] \in 1..(n + 1) /\ m[i] # j /\ s[i] = t[m[i]]
  BY <1>1, <1>2
<1> HIDE DEF j
<1>5. \A i \in 1..n : w[i] \in 1..n /\ (m[i] < j => w[i] = m[i] /\ w[i] < j)
                      /\ (~(m[i] < j) => w[i] = m[i] - 1 /\ ~(w[i] < j))
  BY <1>3, <1>4
<1>6. w \in [1..n -> 1..n]
  BY <1>5
<1> HIDE DEF w
<1>7. ASSUME NEW i \in 1..n, NEW k \in 1..n, w[i] = w[k] PROVE i = k
  <2>1. m[i] \in Int /\ m[k] \in Int
    BY <1>4
  <2>2. m[i] = m[k]
    BY <1>5, <1>7, <2>1
  <2>3. QED
    BY <1>1, <1>2, <2>2
<1>8. ASSUME NEW i \in 1..n PROVE s[i] = Without(t, j)[w[i]]
  <2>1. s[i] = t[m[i]] /\ m[i] \in 1..(n + 1) /\ w[i] \in 1..n
    BY <1>4, <1>5
  <2>2. CASE m[i] < j
    <3>1. w[i] = m[i] /\ w[i] \in 1..(j - 1)
      BY <1>3, <1>5, <2>1, <2>2
    <3>2. Without(t, j)[w[i]] = t[w[i]]
      BY <1>3, <3>1, WithoutFacts
    <3>3. QED
      BY <2>1, <3>1, <3>2
  <2>3. CASE ~(m[i] < j)
    <3>1. w[i] = m[i] - 1 /\ w[i] \in j..n
      BY <1>3, <1>5, <2>1, <2>3
    <3>2. Without(t, j)[w[i]] = t[w[i] + 1]
      BY <1>3, <3>1, WithoutFacts
    <3>3. w[i] + 1 = m[i]
      BY <2>1, <3>1
    <3>4. QED
      BY <2>1, <3>2, <3>3
  <2>4. QED
    BY <2>2, <2>3
<1>9. Rearranges(w, n, s, Without(t, j))
  BY <1>6, <1>7, <1>8 DEF Rearranges
<1>10. QED
  BY <1>3, <1>9 DEF j

\* The order of the operands does not matter.
LEMMA FoldedRearranged ==
  ASSUME NEW type \in MergedTypes, NEW u, NEW k \in Nat \ {0}, NEW m, NEW s, NEW t,
         Operable(type, u, t, k), Rearranges(m, k, s, t)
  PROVE  Folded(type, s, k) = Folded(type, t, k)
<1> DEFINE T == {n \in Nat : n # 0 =>
                   \A w, a, b : Operable(type, u, b, n) /\ Rearranges(w, n, a, b)
                                  => Folded(type, a, n) = Folded(type, b, n)}
<1>1. 0 \in T
  OBVIOUS
<1>2. ASSUME NEW n \in Nat, n \in T PROVE n + 1 \in T
  <2>1. SUFFICES ASSUME NEW w, NEW a, NEW b, Operable(type, u, b, n + 1),
                        Rearranges(w, n + 1, a, b)
                 PROVE  Folded(type, a, n + 1) = Folded(type, b, n + 1)
    OBVIOUS
  <2> DEFINE j == w[n + 1]
             c == Without(b, j)
  <2>2. j \in 1..(n + 1) /\ a[n + 1] = b[j]
    BY <2>1, RearrangesLess
  <2>3. \E v : Rearranges(v, n, a, c)
    BY <2>1, RearrangesLess
  <2> HIDE DEF j
  <2>4. CASE n = 0
    <3>1. j = 1 /\ n + 1 = 1
      BY <2>2, <2>4
    <3>2. QED
      BY <2>2, <3>1, FoldedSteps
  <2>5. CASE n # 0
    <3>1. n \in Nat \ {0}
      BY <2>5
    <3>2. Operable(type, u, c, n)
      BY <2>1, <2>2, WithoutOperable
    <3>3. Exchanges(type, b, n, j)
      BY <2>1, <2>2, <3>1, Exchange
    <3> HIDE DEF c
    <3>4. PICK v : Rearranges(v, n, a, c)
      BY <2>3
    <3>5. Folded(type, a, n) = Folded(type, c, n)
      BY <1>2, <3>1, <3>2, <3>4
    <3>6. Folded(type, a, n + 1) = Combine(type, Folded(type, a, n), a[n + 1])
      BY <3>1, FoldedSteps
    <3>7. QED
      BY <2>2, <3>3, <3>5, <3>6 DEF Exchanges, c
  <2>6. QED
    BY <2>4, <2>5
<1> HIDE DEF T
<1>3. k \in T
  BY <1>1, <1>2, CountsUp
<1>4. QED
  BY <1>3 DEF T

-----------------------------------------------------------------------------
(* Operands in another order have the same meaning together.               *)

\* A number that is a meaning is in lowest terms.
NormalMeaning(x) == x.kind = "number" => IsNumberOf(x, x.unit)

\* ys are the n entries of xs in another order.
Shuffled(xs, ys, n) ==
  /\ Len(xs) = n /\ Len(ys) = n
  /\ \E m : Rearranges(m, n, ys, xs)

LEMMA ShuffledBack ==
  ASSUME NEW n \in Nat, NEW xs, NEW ys, Shuffled(xs, ys, n)
  PROVE  Shuffled(ys, xs, n)
BY Undone DEF Shuffled

HasKind(s, kind) == \E i \in 1..Len(s) : s[i].kind = kind

\* A kind that is among ys is among xs.
LEMMA ShuffledKinds ==
  ASSUME NEW n \in Nat, NEW xs, NEW ys, Shuffled(xs, ys, n)
  PROVE  \A kind : HasKind(ys, kind) => HasKind(xs, kind)
<1>1. PICK m : Rearranges(m, n, ys, xs)
  BY DEF Shuffled
<1>2. Len(xs) = n /\ Len(ys) = n
  BY DEF Shuffled
<1>3. \A i \in 1..n : m[i] \in 1..n /\ ys[i] = xs[m[i]]
  BY <1>1 DEF Rearranges
<1>4. QED
  BY <1>2, <1>3 DEF HasKind

\* What xs have in common, ys do too.
LEMMA ShuffledKeeps ==
  ASSUME NEW n \in Nat, NEW xs, NEW ys, Shuffled(xs, ys, n)
  PROVE  /\ \A kind : AllKind(xs, kind) => AllKind(ys, kind)
         /\ AllNumbersAlike(xs) => AllNumbersAlike(ys)
<1>1. PICK m : Rearranges(m, n, ys, xs)
  BY DEF Shuffled
<1>2. Len(xs) = n /\ Len(ys) = n
  BY DEF Shuffled
<1>3. \A i \in 1..n : m[i] \in 1..n /\ ys[i] = xs[m[i]]
  BY <1>1 DEF Rearranges
<1>4. \A kind : AllKind(xs, kind) => AllKind(ys, kind)
  BY <1>2, <1>3 DEF AllKind
<1>5. ASSUME AllNumbersAlike(xs) PROVE AllNumbersAlike(ys)
  <2>1. \A i \in 1..n : IsNumber(xs[i]) /\ xs[i].unit = xs[1].unit
    BY <1>2, <1>5 DEF AllNumbersAlike, SameUnit
  <2>2. \A i \in 1..n : IsNumber(ys[i]) /\ ys[i].unit = xs[1].unit
    BY <1>3, <2>1
  <2>3. \A i \in 1..n : 1 \in 1..n
    OBVIOUS
  <2>4. \A i \in 1..n : ys[i].unit = ys[1].unit
    BY <2>2, <2>3
  <2>5. QED
    BY <1>2, <2>2, <2>4 DEF AllNumbersAlike, SameUnit
<1>6. QED
  BY <1>4, <1>5

\* Numbers alike, or truths, can be combined.
LEMMA OperandsCombine ==
  ASSUME NEW type \in MergedTypes, NEW xs, NEW n \in Nat, Len(xs) = n, n >= 2,
         \A i \in 1..n : NormalMeaning(xs[i]),
         type \in {"Add", "Maximum", "Minimum"} => AllNumbersAlike(xs)
  PROVE  Operable(type, xs[1].unit, xs, n)
<1>1. SUFFICES ASSUME NEW i \in 1..n, type \in {"Add", "Maximum", "Minimum"}
               PROVE  IsNumberOf(xs[i], xs[1].unit)
  BY DEF Operable, Combinable
<1>2. xs[i].kind = "number" /\ xs[i].unit = xs[1].unit
  BY <1>1 DEF AllNumbersAlike, IsNumber, SameUnit
<1>3. IsNumberOf(xs[i], xs[i].unit)
  BY <1>2 DEF NormalMeaning
<1>4. QED
  BY <1>2, <1>3

\* A collection means the same in any order of its operands.
LEMMA ReduceShuffled ==
  ASSUME NEW type \in MergedTypes, NEW n \in Nat, n >= 2, NEW xs, NEW ys,
         Shuffled(xs, ys, n), \A i \in 1..n : NormalMeaning(xs[i]),
         type \in {"Add", "Maximum", "Minimum"} => AllNumbersAlike(xs)
  PROVE  Reduce(type, xs) = Reduce(type, ys)
<1>1. Len(xs) = n /\ Len(ys) = n /\ n \in Nat \ {0}
  BY DEF Shuffled
<1>2. PICK m : Rearranges(m, n, ys, xs)
  BY DEF Shuffled
<1>3. Operable(type, xs[1].unit, xs, n)
  BY <1>1, OperandsCombine
<1>4. Folded(type, ys, n) = Folded(type, xs, n)
  BY <1>1, <1>2, <1>3, FoldedRearranged
<1>5. QED
  BY <1>1, <1>4, ReduceIsFolded

\* A merged type means the same of the same operands in another order.
LEMMA CollectionShuffled ==
  ASSUME NEW p, p.type \in MergedTypes, NEW n \in Nat, NEW xs, NEW ys, NEW env,
         Shuffled(xs, ys, n), \A i \in 1..n : NormalMeaning(xs[i])
  PROVE  MeaningOf(p, xs, env) = MeaningOf(p, ys, env)
<1> DEFINE numbers == p.type \in {"Add", "Maximum", "Minimum"}
           Fits(s) == Len(s) >= 2
                      /\ IF numbers THEN AllNumbersAlike(s) ELSE AllKind(s, "truth")
<1>1. ASSUME NEW s
      PROVE  MeaningOf(p, s, env)
               = IF HasKind(s, "stuck") THEN Stuck
                 ELSE IF HasKind(s, "undefined") THEN Undefined
                 ELSE IF Fits(s) THEN Reduce(p.type, s) ELSE Stuck
  <2>1. CASE numbers
    <3>1. MeaningOf(p, s, env)
            = Apply(s, Len(s) >= 2 /\ AllNumbersAlike(s), Reduce(p.type, s))
      BY <2>1 DEF MeaningOf, Conditionals
    <3>2. QED
      BY <2>1, <3>1, Zenon DEF Apply, HasKind
  <2>2. CASE ~numbers
    <3>1. p.type \in {"AllOf", "AnyOf"}
      BY <2>2 DEF MergedTypes, CollectionTypes
    <3>2. MeaningOf(p, s, env)
            = Apply(s, Len(s) >= 2 /\ AllKind(s, "truth"), Reduce(p.type, s))
      BY <3>1 DEF MeaningOf, Conditionals
    <3>3. QED
      BY <2>2, <3>2, Zenon DEF Apply, HasKind
  <2>3. QED
    BY <2>1, <2>2
<1>2. Shuffled(ys, xs, n) /\ Len(xs) = n /\ Len(ys) = n
  BY ShuffledBack DEF Shuffled
<1>3. \A kind : HasKind(xs, kind) <=> HasKind(ys, kind)
  <2>1. \A kind : HasKind(ys, kind) => HasKind(xs, kind)
    BY ShuffledKinds
  <2>2. \A kind : HasKind(xs, kind) => HasKind(ys, kind)
    BY <1>2, ShuffledKinds
  <2>3. QED
    BY <2>1, <2>2, Zenon
<1>4. /\ \A kind : AllKind(xs, kind) <=> AllKind(ys, kind)
      /\ AllNumbersAlike(xs) <=> AllNumbersAlike(ys)
  BY <1>2, ShuffledKeeps
<1>5. Fits(xs) <=> Fits(ys)
  BY <1>2, <1>4
<1>6. ASSUME Fits(xs) PROVE Reduce(p.type, xs) = Reduce(p.type, ys)
  BY <1>2, <1>6, ReduceShuffled
<1> HIDE DEF Fits
<1>7. QED
  BY <1>1, <1>3, <1>5, <1>6, Zenon

\* A product means the same in either order of its factors.
LEMMA TimesCommutes ==
  ASSUME NEW x, x.p \in Int, x.q \in Int, NEW y, y.p \in Int, y.q \in Int
  PROVE  Times(x, y) = Times(y, x)
<1>1. x.p * y.p = y.p * x.p /\ x.q * y.q = y.q * x.q
  OBVIOUS
<1>2. MultiplyUnit(x.unit, y.unit) = MultiplyUnit(y.unit, x.unit)
  BY DEF MultiplyUnit
<1>3. QED
  BY <1>1, <1>2 DEF Times

LEMMA ProductShuffled ==
  ASSUME NEW p, p.type = "Multiply", NEW xs, NEW ys, NEW env,
         Shuffled(xs, ys, 2), \A i \in 1..2 : NormalMeaning(xs[i])
  PROVE  MeaningOf(p, xs, env) = MeaningOf(p, ys, env)
<1> DEFINE Fits(s) == /\ IsNumber(s[1]) /\ IsNumber(s[2])
                      /\ "scalar" \in {s[1].unit, s[2].unit}
<1>1. ASSUME NEW s
      PROVE  MeaningOf(p, s, env)
               = IF HasKind(s, "stuck") THEN Stuck
                 ELSE IF HasKind(s, "undefined") THEN Undefined
                 ELSE IF Fits(s) THEN Times(s[1], s[2]) ELSE Stuck
  <2>1. MeaningOf(p, s, env) = Apply(s, Fits(s), Times(s[1], s[2]))
    BY DEF MeaningOf, Conditionals
  <2>2. QED
    BY <2>1, Zenon DEF Apply, HasKind
<1>2. Shuffled(ys, xs, 2) /\ Len(xs) = 2 /\ Len(ys) = 2
  <2>1. 2 \in Nat
    OBVIOUS
  <2>2. QED
    BY <2>1, ShuffledBack DEF Shuffled
<1>3. \A kind : HasKind(xs, kind) <=> HasKind(ys, kind)
  <2>1. 2 \in Nat
    OBVIOUS
  <2>2. \A kind : HasKind(ys, kind) => HasKind(xs, kind)
    BY <2>1, ShuffledKinds
  <2>3. \A kind : HasKind(xs, kind) => HasKind(ys, kind)
    BY <1>2, <2>1, ShuffledKinds
  <2>4. QED
    BY <2>2, <2>3, Zenon
<1>4. (ys[1] = xs[1] /\ ys[2] = xs[2]) \/ (ys[1] = xs[2] /\ ys[2] = xs[1])
  <2>1. PICK m : Rearranges(m, 2, ys, xs)
    BY DEF Shuffled
  <2>2. 1 \in 1..2 /\ 2 \in 1..2 /\ \A i \in 1..2 : i = 1 \/ i = 2
    OBVIOUS
  <2>3. m[1] \in 1..2 /\ m[2] \in 1..2 /\ m[1] # m[2] /\ ys[1] = xs[m[1]] /\ ys[2] = xs[m[2]]
    BY <2>1, <2>2 DEF Rearranges
  <2>4. QED
    BY <2>2, <2>3
<1>5. Fits(xs) <=> Fits(ys)
  BY <1>4
<1>6. ASSUME Fits(xs) PROVE Times(xs[1], xs[2]) = Times(ys[1], ys[2])
  <2>1. IsNumberOf(xs[1], xs[1].unit) /\ IsNumberOf(xs[2], xs[2].unit)
    BY <1>6 DEF NormalMeaning, IsNumber
  <2>2. /\ xs[1].p \in Int /\ xs[1].q \in Int
        /\ xs[2].p \in Int /\ xs[2].q \in Int
    BY <2>1, NumberFields
  <2>3. Times(xs[1], xs[2]) = Times(xs[2], xs[1])
    BY <2>2, TimesCommutes
  <2>4. QED
    BY <1>4, <2>3
<1> HIDE DEF Fits
<1>7. QED
  BY <1>1, <1>3, <1>5, <1>6, Zenon

-----------------------------------------------------------------------------
(* The meaning of a node of a document is in lowest terms.                 *)

LEMMA RationalIsNormal ==
  ASSUME NEW u, NEW n \in Int, NEW d \in Int, d # 0
  PROVE  NormalMeaning(Rational(u, n, d))
<1> DEFINE x == Rational(u, n, d)
<1>1. IsNumberOf(x, u)
  BY ARational
<1> HIDE DEF x
<1>2. x.unit = u
  BY <1>1, NumberFields
<1>3. QED
  BY <1>1, <1>2 DEF NormalMeaning, x

LEMMA OtherIsNormal ==
  /\ NormalMeaning(Stuck) /\ NormalMeaning(Undefined)
  /\ \A b : NormalMeaning(Truth(b))
  /\ \A s : NormalMeaning(Flows(s))
BY ConstantMeanings DEF NormalMeaning

\* A literal is a fraction over a power of ten.
LEMMA LiteralIsNormal ==
  ASSUME NEW u, NEW a \in Decimals
  PROVE  NormalMeaning(LiteralMeaning(u, a))
<1> DEFINE e == LowerExp(a, DecZero)
           n == InUnitsOf(a, e)
           d == TenTo[-e]
<1>1. DecZero \in Decimals /\ DecZero.exp = 0
  BY DEF DecZero, Dec, Decimals
<1>2. e \in Int /\ e <= a.exp /\ e <= 0
  BY <1>1, LowerExpFacts
<1> HIDE DEF e
<1>3. n \in Int
  BY <1>2, UnitsFacts
<1>4. d \in Int /\ d # 0
  <2>1. -e \in Nat
    BY <1>2
  <2>2. d \in Nat \ {0}
    BY <2>1, TenToDef
  <2>3. QED
    BY <2>2
<1>5. LiteralMeaning(u, a) = Rational(u, n, d)
  BY DEF LiteralMeaning, e
<1> HIDE DEF n, d
<1>6. QED
  BY <1>3, <1>4, <1>5, RationalIsNormal

\* An operation that leaves its operands no meaning, or what it computes.
LEMMA AppliedIsNormal ==
  ASSUME NEW xs, NEW ok, NEW m, ok => NormalMeaning(m)
  PROVE  NormalMeaning(Apply(xs, ok, m))
BY OtherIsNormal, Zenon DEF Apply

\* The numbers that two operands alike are.
LEMMA NumberParts ==
  ASSUME NEW x, IsNumber(x), NormalMeaning(x)
  PROVE  /\ x.p \in Int /\ x.q \in Int /\ x.q # 0
         /\ IsNumberOf(x, x.unit)
<1>1. IsNumberOf(x, x.unit)
  BY DEF IsNumber, NormalMeaning
<1>2. x.p \in Int /\ x.q \in Nat \ {0}
  BY <1>1, NumberFields
<1>3. QED
  BY <1>1, <1>2

LEMMA ProductNotZero ==
  ASSUME NEW a \in Int, a # 0, NEW b \in Int, b # 0
  PROVE  a * b \in Int /\ a * b # 0
BY SMT

\* So is what a collection, or an operation on numbers, computes.
LEMMA CollectionIsNormal ==
  ASSUME NEW p, p.type \in MergedTypes, NEW n \in Nat, NEW xs, Len(xs) = n, NEW env,
         \A i \in 1..n : NormalMeaning(xs[i])
  PROVE  NormalMeaning(MeaningOf(p, xs, env))
<1> DEFINE numbers == p.type \in {"Add", "Maximum", "Minimum"}
           m == Reduce(p.type, xs)
<1>1. CASE numbers
  <2> DEFINE ok == Len(xs) >= 2 /\ AllNumbersAlike(xs)
  <2>1. MeaningOf(p, xs, env) = Apply(xs, ok, m)
    BY <1>1 DEF MeaningOf, Conditionals
  <2>2. ASSUME ok PROVE NormalMeaning(m)
    <3> DEFINE u == xs[1].unit
               type == p.type
    <3>1. type \in MergedTypes /\ type \in {"Add", "Maximum", "Minimum"}
          /\ n \in Nat \ {0} /\ n >= 2
      BY <1>1, <2>2
    <3>2. Operable(type, u, xs, n)
      BY <2>2, <3>1, OperandsCombine
    <3>3. m = Folded(type, xs, n)
      BY ReduceIsFolded
    <3> HIDE DEF type, u, m
    <3>4. Combinable(type, u, m)
      BY <3>1, <3>2, <3>3, FoldedCombinable
    <3>5. IsNumberOf(m, u)
      BY <3>1, <3>4 DEF Combinable
    <3>6. m.unit = u
      BY <3>5, NumberFields
    <3>7. QED
      BY <3>5, <3>6 DEF NormalMeaning
  <2> HIDE DEF ok, m
  <2>3. QED
    BY <2>1, <2>2, AppliedIsNormal
<1>2. CASE ~numbers
  <2> DEFINE ok == Len(xs) >= 2 /\ AllKind(xs, "truth")
  <2>1. p.type \in {"AllOf", "AnyOf"}
    BY <1>2 DEF MergedTypes, CollectionTypes
  <2>2. MeaningOf(p, xs, env) = Apply(xs, ok, m)
    BY <2>1 DEF MeaningOf, Conditionals
  <2>3. ASSUME ok PROVE NormalMeaning(m)
    <3>1. \E x, y : m = Combine(p.type, x, y)
      <4>1. m = Folded(p.type, xs, n) /\ n \in Nat /\ n >= 2
        BY <2>3, ReduceIsFolded
      <4>2. n - 1 \in Nat \ {0} /\ (n - 1) + 1 = n
        BY <4>1
      <4>3. Folded(p.type, xs, n) = Combine(p.type, Folded(p.type, xs, n - 1), xs[n])
        BY <4>2, FoldedSteps
      <4>4. QED
        BY <4>1, <4>3
    <3>2. \E b : m = Truth(b)
      BY <2>1, <3>1 DEF Combine
    <3> HIDE DEF m
    <3>3. QED
      BY <3>2, OtherIsNormal
  <2> HIDE DEF ok, m
  <2>4. QED
    BY <2>2, <2>3, AppliedIsNormal
<1>3. QED
  BY <1>1, <1>2

LEMMA ArithmeticIsNormal ==
  ASSUME NEW p, p.type \in {"Subtract", "Multiply", "Divide"}, NEW xs, Len(xs) = 2,
         NEW env, NormalMeaning(xs[1]), NormalMeaning(xs[2])
  PROVE  NormalMeaning(MeaningOf(p, xs, env))
<1> DEFINE x == xs[1]
           y == xs[2]
<1>1. ASSUME IsNumber(x), IsNumber(y)
      PROVE  /\ x.p \in Int /\ x.q \in Int /\ x.q # 0 /\ IsNumberOf(x, x.unit)
             /\ y.p \in Int /\ y.q \in Int /\ y.q # 0 /\ IsNumberOf(y, y.unit)
  BY <1>1, NumberParts
<1>2. CASE p.type = "Subtract"
  <2> DEFINE z == Rational(y.unit, -y.p, y.q)
             m == Plus(x, z)
             ok == AllNumbersAlike(xs)
  <2>1. MeaningOf(p, xs, env) = Apply(xs, ok, m)
    BY <1>2 DEF MeaningOf, Conditionals
  <2>2. ASSUME ok PROVE NormalMeaning(m)
    <3>1. IsNumber(x) /\ IsNumber(y) /\ y.unit = x.unit
      <4>1. 1 \in 1..Len(xs) /\ 2 \in 1..Len(xs)
        OBVIOUS
      <4>2. QED
        BY <2>2, <4>1 DEF AllNumbersAlike, SameUnit
    <3> DEFINE n == x.p * z.q + z.p * x.q
               d == x.q * z.q
    <3>2. z.p \in Int /\ z.q \in Nat \ {0}
      <4>1. -y.p \in Int /\ y.q \in Int /\ y.q # 0
        BY <1>1, <3>1
      <4>2. IsNumberOf(z, y.unit)
        BY <4>1, ARational
      <4> HIDE DEF z
      <4>3. QED
        BY <4>2, NumberFields
    <3> HIDE DEF z
    <3>3. n \in Int
      BY <1>1, <3>1, <3>2
    <3>4. d \in Int /\ d # 0
      BY <1>1, <3>1, <3>2, ProductNotZero
    <3>5. m = Rational(x.unit, n, d)
      BY DEF Plus
    <3> HIDE DEF n, d
    <3>6. QED
      BY <3>3, <3>4, <3>5, RationalIsNormal
  <2> HIDE DEF ok, m
  <2>3. QED
    BY <2>1, <2>2, AppliedIsNormal
<1>3. CASE p.type = "Multiply"
  <2> DEFINE m == Times(x, y)
             ok == IsNumber(x) /\ IsNumber(y) /\ "scalar" \in {x.unit, y.unit}
  <2>1. MeaningOf(p, xs, env) = Apply(xs, ok, m)
    BY <1>3 DEF MeaningOf, Conditionals
  <2>2. ASSUME ok PROVE NormalMeaning(m)
    <3> DEFINE n == x.p * y.p
               d == x.q * y.q
    <3>1. n \in Int
      BY <1>1, <2>2
    <3>2. d \in Int /\ d # 0
      BY <1>1, <2>2, ProductNotZero
    <3>3. m = Rational(MultiplyUnit(x.unit, y.unit), n, d)
      BY DEF Times
    <3> HIDE DEF n, d, m
    <3>4. QED
      BY <3>1, <3>2, <3>3, RationalIsNormal
  <2> HIDE DEF ok, m
  <2>3. QED
    BY <2>1, <2>2, AppliedIsNormal
<1>4. CASE p.type = "Divide"
  <2> DEFINE q == Rational(x.unit, x.p * y.q, x.q * y.p)
             m == IF y.p = 0 THEN Undefined ELSE q
             ok == IsNumber(x) /\ IsNumber(y) /\ y.unit = "scalar"
  <2>1. MeaningOf(p, xs, env) = Apply(xs, ok, m)
    BY <1>4 DEF MeaningOf, Conditionals
  <2>2. ASSUME ok PROVE NormalMeaning(m)
    <3>1. CASE y.p = 0
      BY <3>1, OtherIsNormal
    <3>2. CASE y.p # 0
      <4> DEFINE n == x.p * y.q
                 d == x.q * y.p
      <4>1. n \in Int
        BY <1>1, <2>2
      <4>2. d \in Int /\ d # 0
        BY <1>1, <2>2, <3>2, ProductNotZero
      <4>3. m = Rational(x.unit, n, d)
        BY <3>2
      <4> HIDE DEF n, d, m
      <4>4. QED
        BY <4>1, <4>2, <4>3, RationalIsNormal
    <3>3. QED
      BY <3>1, <3>2
  <2> HIDE DEF ok, m
  <2>3. QED
    BY <2>1, <2>2, AppliedIsNormal
<1>5. QED
  BY <1>2, <1>3, <1>4

LEMMA NegateIsNormal ==
  ASSUME NEW p, p.type = "Negate", NEW xs, Len(xs) = 1, NEW env, NormalMeaning(xs[1])
  PROVE  NormalMeaning(MeaningOf(p, xs, env))
<1> DEFINE x == xs[1]
           ok == IsNumber(x)
           m == Rational(x.unit, -x.p, x.q)
<1>1. MeaningOf(p, xs, env) = Apply(xs, ok, m)
  BY DEF MeaningOf, Conditionals
<1>2. ASSUME ok PROVE NormalMeaning(m)
  <2>1. x.p \in Int /\ x.q \in Int /\ x.q # 0
    BY <1>2, NumberParts
  <2>2. -x.p \in Int
    BY <2>1
  <2>3. QED
    BY <2>1, <2>2, RationalIsNormal
<1> HIDE DEF ok, m
<1>3. QED
  BY <1>1, <1>2, AppliedIsNormal

\* What is not a number is normal, and nothing else comes of these types.
LEMMA TruthOrFlowsIsNormal ==
  ASSUME NEW p, NEW xs, NEW env,
         p.type \in {"BooleanConstant", "Comparison", "Not", "Zero", "Payment", "Scale"}
  PROVE  NormalMeaning(MeaningOf(p, xs, env))
<1>1. CASE p.type = "BooleanConstant"
  <2>1. MeaningOf(p, xs, env) = IF p.sound THEN Truth(p.val = 1) ELSE Stuck
    BY <1>1 DEF MeaningOf, Conditionals
  <2>2. NormalMeaning(Truth(p.val = 1)) /\ NormalMeaning(Stuck)
    BY OtherIsNormal, Zenon
  <2>3. QED
    BY <2>1, <2>2
<1>2. CASE p.type = "Comparison"
  <2> DEFINE ok == p.sound /\ AllNumbersAlike(xs)
             holds == Compares(p.op, xs[1], xs[2])
             m == Truth(holds)
  <2>1. MeaningOf(p, xs, env) = Apply(xs, ok, m)
    BY <1>2 DEF MeaningOf, Conditionals
  <2> HIDE DEF ok, holds
  <2>2. NormalMeaning(m)
    BY OtherIsNormal, Zenon
  <2> HIDE DEF m
  <2>3. QED
    BY <2>1, <2>2, AppliedIsNormal
<1>3. CASE p.type = "Not"
  <2> DEFINE ok == xs[1].kind = "truth"
             holds == xs[1].p = 0
             m == Truth(holds)
  <2>1. MeaningOf(p, xs, env) = Apply(xs, ok, m)
    BY <1>3 DEF MeaningOf, Conditionals
  <2> HIDE DEF ok, holds
  <2>2. NormalMeaning(m)
    BY OtherIsNormal, Zenon
  <2> HIDE DEF m
  <2>3. QED
    BY <2>1, <2>2, AppliedIsNormal
<1>4. CASE p.type = "Zero"
  <2>1. MeaningOf(p, xs, env) = Flows(<< >>)
    BY <1>4 DEF MeaningOf, Conditionals
  <2>2. QED
    BY <2>1, OtherIsNormal
<1>5. CASE p.type = "Payment"
  <2> DEFINE ok == p.sound /\ IsNumber(xs[1]) /\ IsMoney(xs[1].unit)
                           /\ xs[1].unit = p.unit
             s == << [at |-> p.val, amount |-> xs[1]] >>
             m == Flows(s)
  <2>1. MeaningOf(p, xs, env) = Apply(xs, ok, m)
    BY <1>5 DEF MeaningOf, Conditionals
  <2> HIDE DEF ok, s
  <2>2. NormalMeaning(m)
    BY OtherIsNormal
  <2> HIDE DEF m
  <2>3. QED
    BY <2>1, <2>2, AppliedIsNormal
<1>6. CASE p.type = "Scale"
  <2> DEFINE ok == IsNumber(xs[1]) /\ xs[1].unit = "scalar" /\ xs[2].kind = "flows"
             s == [i \in 1..Len(xs[2].flows) |->
                     [xs[2].flows[i] EXCEPT !.amount = Times(xs[1], @)]]
             m == Flows(s)
  <2>1. MeaningOf(p, xs, env) = Apply(xs, ok, m)
    BY <1>6 DEF MeaningOf, Conditionals
  <2> HIDE DEF ok, s
  <2>2. NormalMeaning(m)
    BY OtherIsNormal
  <2> HIDE DEF m
  <2>3. QED
    BY <2>1, <2>2, AppliedIsNormal
<1>7. QED
  BY <1>1, <1>2, <1>3, <1>4, <1>5, <1>6

LEMMA CombinationIsNormal ==
  ASSUME NEW p, p.type = "Both", NEW n \in Nat, NEW xs, Len(xs) = n, NEW env
  PROVE  NormalMeaning(MeaningOf(p, xs, env))
<1> DEFINE m == Reduce("Both", xs)
           ok == Len(xs) >= 2 /\ AllKind(xs, "flows")
<1>1. MeaningOf(p, xs, env) = Apply(xs, ok, m)
  BY DEF MeaningOf, Conditionals
<1>2. ASSUME ok PROVE NormalMeaning(m)
  <2>1. m = Folded("Both", xs, n) /\ n - 1 \in Nat \ {0} /\ (n - 1) + 1 = n
    BY <1>2, ReduceIsFolded
  <2>2. m = Combine("Both", Folded("Both", xs, n - 1), xs[n])
    BY <2>1, FoldedSteps
  <2>3. \E s : m = Flows(s)
    BY <2>2 DEF Combine
  <2> HIDE DEF m
  <2>4. QED
    BY <2>3, OtherIsNormal
<1> HIDE DEF ok, m
<1>3. QED
  BY <1>1, <1>2, AppliedIsNormal

LEMMA ChoiceIsNormal ==
  ASSUME NEW p, p.type \in Conditionals, NEW xs, Len(xs) = 3, NEW env,
         NormalMeaning(xs[2]), NormalMeaning(xs[3])
  PROVE  NormalMeaning(MeaningOf(p, xs, env))
<1>1. MeaningOf(p, xs, env) = CASE xs[1].kind = "truth" -> xs[IF xs[1].p = 1 THEN 2 ELSE 3]
                                [] xs[1].kind = "undefined" -> Undefined
                                [] OTHER -> Stuck
  BY DEF MeaningOf, Conditionals
<1>2. MeaningOf(p, xs, env) \in {xs[2], xs[3], Undefined, Stuck}
  BY <1>1
<1>3. QED
  BY <1>2, OtherIsNormal

\* The lists of meanings that a document gives to the operands of p: as many as
\* p takes, and normal.
NormalOperands(p, xs) ==
  /\ Len(xs) \in Nat
  /\ p.type \in DOMAIN Arity => Len(xs) = Arity[p.type]
  /\ \A i \in 1..Len(xs) : NormalMeaning(xs[i])

LEMMA Arities ==
  /\ \A t \in {"Subtract", "Multiply", "Divide"} : t \in DOMAIN Arity /\ Arity[t] = 2
  /\ \A t \in Conditionals : t \in DOMAIN Arity /\ Arity[t] = 3
BY DEF Arity, Conditionals

\* The meaning of a node is in lowest terms if the meanings of its children are.
LEMMA PayloadIsNormal ==
  ASSUME NEW p, p.type \in SupportedTypes, NEW xs, NormalOperands(p, xs), NEW env,
         p.type = "Number" => p.num \in Decimals,
         p.type = "Observable" => env[p.val] \in Int
  PROVE  NormalMeaning(PayloadMeaning(p, xs, env))
<1>1. CASE p.type = "Number"
  BY <1>1, LiteralIsNormal DEF PayloadMeaning
<1>2. ASSUME p.type # "Number" PROVE PayloadMeaning(p, xs, env) = MeaningOf(p, xs, env)
  BY <1>2 DEF PayloadMeaning
<1>3. CASE p.type = "Observable"
  <2> DEFINE v == env[p.val]
  <2>1. MeaningOf(p, xs, env) = IF p.sound /\ p.unit \in ValidUnits
                                THEN Rational(p.unit, v, 1) ELSE Stuck
    BY <1>3 DEF MeaningOf, Conditionals
  <2>2. v \in Int /\ 1 \in Int /\ 1 # 0
    BY <1>3
  <2> HIDE DEF v
  <2>3. NormalMeaning(Rational(p.unit, v, 1))
    BY <2>2, RationalIsNormal
  <2>4. QED
    BY <1>2, <1>3, <2>1, <2>3, OtherIsNormal
<1>4. CASE p.type \in MergedTypes
  <2>1. NormalMeaning(MeaningOf(p, xs, env))
    BY <1>4, CollectionIsNormal DEF NormalOperands
  <2>2. QED
    BY <1>2, <1>4, <2>1 DEF MergedTypes, CollectionTypes
<1>5. CASE p.type \in {"Subtract", "Multiply", "Divide"}
  <2>1. Len(xs) = 2
    BY <1>5, Arities DEF NormalOperands
  <2>2. NormalMeaning(xs[1]) /\ NormalMeaning(xs[2])
    BY <2>1 DEF NormalOperands
  <2>3. QED
    BY <1>2, <1>5, <2>1, <2>2, ArithmeticIsNormal
<1>6. CASE p.type = "Negate"
  <2>1. Len(xs) = 1
    BY <1>6 DEF NormalOperands, Arity
  <2>2. NormalMeaning(xs[1])
    BY <2>1 DEF NormalOperands
  <2>3. QED
    BY <1>2, <1>6, <2>1, <2>2, NegateIsNormal
<1>7. CASE p.type \in {"BooleanConstant", "Comparison", "Not", "Zero", "Payment", "Scale"}
  BY <1>2, <1>7, TruthOrFlowsIsNormal
<1>8. CASE p.type = "Both"
  <2>1. NormalMeaning(MeaningOf(p, xs, env))
    BY <1>8, CombinationIsNormal DEF NormalOperands
  <2>2. QED
    BY <1>2, <1>8, <2>1
<1>9. CASE p.type \in Conditionals
  <2>1. Len(xs) = 3
    BY <1>9, Arities DEF NormalOperands
  <2>2. NormalMeaning(xs[2]) /\ NormalMeaning(xs[3])
    BY <2>1 DEF NormalOperands
  <2>3. NormalMeaning(MeaningOf(p, xs, env))
    BY <1>9, <2>1, <2>2, ChoiceIsNormal
  <2>4. QED
    BY <1>2, <1>9, <2>3 DEF Conditionals
<1>10. QED
  BY <1>1, <1>3, <1>4, <1>5, <1>6, <1>7, <1>8, <1>9
     DEF SupportedTypes, ScalarTypes, BooleanTypes, ContractTypes, MergedTypes,
         CollectionTypes, Conditionals

-----------------------------------------------------------------------------
(* The meanings of the nodes of an acyclic document.                       *)

LEMMA ValuesFacts ==
  ASSUME NEW G, NEW ks, Len(ks) \in Nat
  PROVE  /\ Len(ValuesAt(G, ks)) = Len(ks)
         /\ \A i \in 1..Len(ks) : ValuesAt(G, ks)[i] = G[ks[i]]
<1> DEFINE n == Len(ks)
           v == ValuesAt(G, ks)
           S == {G[ks[i]] : i \in 1..n}
<1>1. v = [i \in 1..n |-> G[ks[i]]]
  BY DEF ValuesAt
<1>2. v \in [1..n -> S]
  BY <1>1
<1>3. v \in Seq(S) /\ DOMAIN v = 1..n
  BY <1>2, SeqDef
<1>4. Len(v) = n
  BY <1>3, LenProperties
<1>5. QED
  BY <1>1, <1>4

MeaningAt(p, D, env) == PayloadMeaning(p, ValuesAt(D, p.kids), env)

\* D gives every node of S the meaning that it has by those of its children.
Means(nodes, S, env, D) == \A x \in S : D[x] = MeaningAt(nodes[x], D, env)

AgreeOn(S, u, v) == \A x \in S : u[x] = v[x]

\* Only the children matter.
LEMMA MeaningAtSame ==
  ASSUME NEW p, NEW S, Seq2Set(p.kids) \subseteq S,
         NEW u, NEW v, AgreeOn(S, u, v), NEW env
  PROVE  MeaningAt(p, u, env) = MeaningAt(p, v, env)
<1> DEFINE ids == p.kids
<1>1. \A i \in 1..Len(ids) : u[ids[i]] = v[ids[i]]
  BY DEF Seq2Set, AgreeOn
<1> HIDE DEF ids
<1>2. ValuesAt(u, ids) = ValuesAt(v, ids)
  BY <1>1 DEF ValuesAt
<1>3. QED
  BY <1>2 DEF MeaningAt, ids

\* Children first, every node is given its meaning.
LEMMA MeaningsExist ==
  ASSUME NEW nodes, IsAcyclic(nodes), IsFiniteSet(DOMAIN nodes), NEW env,
         \A id \in DOMAIN nodes : Seq2Set(nodes[id].kids) \subseteq DOMAIN nodes
  PROVE  \E u : Means(nodes, DOMAIN nodes, env, u)
<1> DEFINE D == DOMAIN nodes
           N == Cardinality(D)
           Done(k) == \E S \in SUBSET D : /\ Cardinality(S) = k /\ IsDown(nodes, S)
                                         /\ \E u : Means(nodes, S, env, u)
           T == {k \in Nat : Done(k)}
<1>1. N \in Nat
  BY FS_CardinalityType
<1>2. 0 \in T
  <2>1. {} \in SUBSET D /\ Cardinality({}) = 0
    BY FS_EmptySet
  <2>2. IsDown(nodes, {}) /\ Means(nodes, {}, env, << >>)
    BY DEF IsDown, Means
  <2>3. QED
    BY <2>1, <2>2
<1>3. ASSUME NEW k \in 0..(N - 1), k \in T PROVE k + 1 \in T
  <2>1. PICK S \in SUBSET D : /\ Cardinality(S) = k /\ IsDown(nodes, S)
                              /\ \E u : Means(nodes, S, env, u)
    BY <1>3
  <2>2. PICK u : Means(nodes, S, env, u)
    BY <2>1
  <2>3. D \ S # {}
    <3>1. S # D
      BY <1>1, <2>1
    <3>2. QED
      BY <3>1
  <2>4. PICK x \in D \ S : Seq2Set(nodes[x].kids) \cap (D \ S) = {}
    BY <2>3 DEF IsAcyclic
  <2>5. Seq2Set(nodes[x].kids) \subseteq S
    BY <2>4
  <2> DEFINE S2 == S \cup {x}
             v == [y \in S2 |-> IF y = x THEN MeaningAt(nodes[x], u, env) ELSE u[y]]
  <2>6. S2 \in SUBSET D /\ Cardinality(S2) = k + 1
    <3>1. IsFiniteSet(S) /\ x \notin S
      BY FS_Subset
    <3>2. QED
      BY <2>1, <3>1, FS_AddElement
  <2>7. \A y \in S2 : Seq2Set(nodes[y].kids) \subseteq S
    BY <2>1, <2>5 DEF IsDown
  <2>8. \A y \in S : v[y] = u[y]
    OBVIOUS
  <2>9. v[x] = MeaningAt(nodes[x], u, env)
    OBVIOUS
  <2> HIDE DEF v
  <2>10. ASSUME NEW y \in S2
         PROVE  MeaningAt(nodes[y], v, env) = MeaningAt(nodes[y], u, env)
    <3> DEFINE p == nodes[y]
    <3>1. Seq2Set(p.kids) \subseteq S
      BY <2>7
    <3> HIDE DEF p
    <3>2. AgreeOn(S, v, u)
      BY <2>8 DEF AgreeOn
    <3>3. MeaningAt(p, v, env) = MeaningAt(p, u, env)
      BY <3>1, <3>2, MeaningAtSame
    <3>4. QED
      BY <3>3 DEF p
  <2>11. Means(nodes, S2, env, v)
    BY <2>2, <2>8, <2>9, <2>10 DEF Means
  <2>12. IsDown(nodes, S2)
    BY <2>7 DEF IsDown
  <2> HIDE DEF S2
  <2>13. k + 1 \in Nat /\ Done(k + 1)
    BY <1>1, <2>6, <2>11, <2>12
  <2>14. QED
    BY <2>13
<1>4. N \in T
  <2> HIDE DEF T
  <2>1. 0..N \subseteq T
    BY <1>1, <1>2, <1>3, Climb
  <2>2. QED
    BY <1>1, <2>1
<1>5. PICK S \in SUBSET D : Cardinality(S) = N /\ \E u : Means(nodes, S, env, u)
  BY <1>4
<1>6. S = D
  BY <1>5, FS_Subset
<1>7. QED
  BY <1>5, <1>6

\* DocumentMeaning is what the choice of a solution finds.
LEMMA MeaningChosen ==
  ASSUME NEW nodes, NEW env, NEW u, Means(nodes, DOMAIN nodes, env, u),
         \A id \in DOMAIN nodes : Seq2Set(nodes[id].kids) \subseteq DOMAIN nodes
  PROVE  Means(nodes, DOMAIN nodes, env, DocumentMeaning(nodes, env))
<1> DEFINE D == DOMAIN nodes
           Eq(f) == f = [id \in DOMAIN nodes |->
                           PayloadMeaning(nodes[id], ValuesAt(f, nodes[id].kids), env)]
           v == [id \in D |-> u[id]]
           w == DocumentMeaning(nodes, env)
<1>1. w = CHOOSE f : Eq(f)
  BY DEF DocumentMeaning
<1>2. \A id \in D : v[id] = u[id]
  OBVIOUS
<1>3. v = [id \in D |-> v[id]]
  OBVIOUS
<1> HIDE DEF v
<1>4. ASSUME NEW id \in D PROVE MeaningAt(nodes[id], v, env) = MeaningAt(nodes[id], u, env)
  <2>1. AgreeOn(D, v, u) /\ Seq2Set(nodes[id].kids) \subseteq D
    BY <1>2 DEF AgreeOn
  <2> HIDE DEF D
  <2>2. QED
    BY <2>1, MeaningAtSame
<1>5. \A id \in D : v[id] = MeaningAt(nodes[id], v, env)
  BY <1>2, <1>4 DEF Means
<1>6. \A id \in D : v[id] = PayloadMeaning(nodes[id], ValuesAt(v, nodes[id].kids), env)
  BY <1>5 DEF MeaningAt
<1>7. Eq(v)
  BY <1>3, <1>6
<1> HIDE DEF Eq, w
<1>8. Eq(w)
  BY <1>1, <1>7
<1>9. \A id \in D : w[id] = PayloadMeaning(nodes[id], ValuesAt(w, nodes[id].kids), env)
  BY <1>8 DEF Eq
<1>10. QED
  BY <1>9 DEF Means, MeaningAt, w

\* A node of a document that has a meaning once env values the observables.
Evaluable(p, D, env) ==
  /\ p.type \in SupportedTypes /\ p.kids \in Seq(D)
  /\ p.type \in DOMAIN Arity => Len(p.kids) = Arity[p.type]
  /\ p.type = "Number" => p.num \in Decimals
  /\ p.type = "Observable" => env[p.val] \in Int

NormalOn(S, G) == \A x \in S : NormalMeaning(G[x])

\* Children in lowest terms are operands that a meaning can be computed of.
LEMMA OperandsAreNormal ==
  ASSUME NEW p, NEW D, NEW env, Evaluable(p, D, env), NEW G, NormalOn(D, G)
  PROVE  NormalOperands(p, ValuesAt(G, p.kids))
<1> DEFINE ks == p.kids
           xs == ValuesAt(G, ks)
<1>1. ks \in Seq(D)
  BY DEF Evaluable
<1>2. Len(ks) \in Nat /\ \A i \in 1..Len(ks) : ks[i] \in D
  BY <1>1, LenProperties, ElementOfSeq
<1>3. p.type \in DOMAIN Arity => Len(ks) = Arity[p.type]
  BY DEF Evaluable
<1> HIDE DEF ks
<1>4. Len(xs) = Len(ks) /\ \A i \in 1..Len(ks) : xs[i] = G[ks[i]]
  BY <1>2, ValuesFacts
<1> HIDE DEF xs
<1>5. \A i \in 1..Len(xs) : NormalMeaning(xs[i])
  BY <1>2, <1>4 DEF NormalOn
<1>6. NormalOperands(p, xs)
  BY <1>2, <1>3, <1>4, <1>5 DEF NormalOperands
<1>7. QED
  BY <1>6 DEF xs, ks

LEMMA EvaluableNarrows ==
  ASSUME NEW p, NEW U, NEW env, Evaluable(p, U, env), NEW D, Seq2Set(p.kids) \subseteq D
  PROVE  Evaluable(p, D, env)
<1>1. p.kids \in Seq(U) /\ \A i \in 1..Len(p.kids) : p.kids[i] \in D
  BY DEF Evaluable, Seq2Set
<1>2. p.kids \in Seq(D)
  BY <1>1, NarrowerSeq
<1>3. QED
  BY <1>2 DEF Evaluable

EvaluableDocument(nodes, env) ==
  /\ DOMAIN nodes \in SUBSET Nat /\ IsFiniteSet(DOMAIN nodes)
  /\ IsAcyclic(nodes)
  /\ \A c \in DOMAIN nodes : /\ Evaluable(nodes[c], DOMAIN nodes, env)
                             /\ Seq2Set(nodes[c].kids) \subseteq DOMAIN nodes

\* What Means gives the nodes of a document is in lowest terms.
LEMMA MeaningsAreNormal ==
  ASSUME NEW nodes, NEW env, EvaluableDocument(nodes, env),
         NEW G, Means(nodes, DOMAIN nodes, env, G)
  PROVE  NormalOn(DOMAIN nodes, G)
<1> DEFINE D == DOMAIN nodes
           S == {c \in D : ~NormalMeaning(G[c])}
<1>1. SUFFICES S = {}
  BY DEF NormalOn
<1>2. ASSUME S # {} PROVE FALSE
  <2>1. PICK c \in S : Seq2Set(nodes[c].kids) \cap S = {}
    BY <1>2 DEF EvaluableDocument, IsAcyclic
  <2> DEFINE p == nodes[c]
             K == Seq2Set(p.kids)
  <2>2. c \in D /\ ~NormalMeaning(G[c])
    BY <2>1
  <2>3. Evaluable(p, D, env) /\ K \subseteq D
    BY <2>2 DEF EvaluableDocument
  <2>4. NormalOn(K, G)
    BY <2>1, <2>3 DEF NormalOn
  <2>5. G[c] = PayloadMeaning(p, ValuesAt(G, p.kids), env)
    BY <2>2 DEF Means, MeaningAt
  <2> HIDE DEF p, D, S
  <2>6. Evaluable(p, K, env)
    BY <2>3, EvaluableNarrows
  <2> HIDE DEF K
  <2>7. NormalOperands(p, ValuesAt(G, p.kids))
    BY <2>4, <2>6, OperandsAreNormal
  <2>8. /\ p.type \in SupportedTypes
        /\ p.type = "Number" => p.num \in Decimals
        /\ p.type = "Observable" => env[p.val] \in Int
    BY <2>6 DEF Evaluable
  <2>9. NormalMeaning(G[c])
    BY <2>5, <2>7, <2>8, PayloadIsNormal
  <2>10. QED
    BY <2>2, <2>9
<1>3. QED
  BY <1>2

-----------------------------------------------------------------------------
(* Merging nested collections keeps their meaning.                         *)

\* The three commutative laws of CombineLaws make the operations associative.
LEMMA CombineAssociates ==
  ASSUME NEW type \in MergedTypes, NEW u, NEW x, Combinable(type, u, x),
         NEW y, Combinable(type, u, y), NEW w, Combinable(type, u, w)
  PROVE  Combine(type, x, Combine(type, y, w)) = Combine(type, Combine(type, x, y), w)
<1> DEFINE C(a, b) == Combine(type, a, b)
<1>1. Combinable(type, u, C(y, w)) /\ C(C(y, w), x) = C(C(y, x), w)
  BY CombineLaws
<1>2. C(x, C(y, w)) = C(C(y, w), x)
  BY <1>1, CombineLaws
<1>3. C(y, x) = C(x, y)
  BY CombineLaws
<1>4. QED
  BY <1>1, <1>2, <1>3

\* st is the first m entries of s, then the first n of t.
IsJoined(st, s, m, t, n) ==
  (\A i \in 1..m : st[i] = s[i]) /\ (\A i \in 1..n : st[m + i] = t[i])

\* Two collections of a type are folded one after the other.
LEMMA FoldedJoined ==
  ASSUME NEW type \in MergedTypes, NEW u, NEW m \in Nat \ {0}, NEW n \in Nat \ {0},
         NEW s, Operable(type, u, s, m), NEW t, Operable(type, u, t, n),
         NEW st, IsJoined(st, s, m, t, n)
  PROVE  Folded(type, st, m + n) = Combine(type, Folded(type, s, m), Folded(type, t, n))
<1> DEFINE F(k) == Folded(type, st, m + k)
           S == Folded(type, s, m)
           T == Folded(type, t, 1)
           Right(k) == F(k) = Combine(type, S, Folded(type, t, k))
           K == {k \in Nat : k \in 1..n => Right(k)}
<1>1. /\ \A k \in Nat \ {0} : Folded(type, t, k + 1) = Combine(type, Folded(type, t, k), t[k + 1])
      /\ Folded(type, t, 1) = t[1]
  BY FoldedSteps
<1>2. \A k \in Nat : F(k + 1) = Combine(type, F(k), st[m + (k + 1)])
  <2>1. ASSUME NEW k \in Nat PROVE F(k + 1) = Combine(type, F(k), st[m + (k + 1)])
    <3>1. m + k \in Nat \ {0} /\ m + (k + 1) = (m + k) + 1
      OBVIOUS
    <3>2. Folded(type, st, (m + k) + 1) = Combine(type, Folded(type, st, m + k), st[(m + k) + 1])
      BY <3>1, FoldedSteps
    <3>3. QED
      BY <3>1, <3>2
  <2>2. QED
    BY <2>1
<1>3. F(0) = S
  <2>1. m + 0 = m /\ \A i \in 1..m : st[i] = s[i]
    BY DEF IsJoined
  <2>2. QED
    BY <2>1, FoldedSame
<1>4. Combinable(type, u, S)
  BY FoldedCombinable
<1>5. \A k \in 1..n : st[m + k] = t[k] /\ Combinable(type, u, t[k])
  BY DEF IsJoined, Operable
<1>6. \A k \in 1..n : Combinable(type, u, Folded(type, t, k))
  <2>1. ASSUME NEW k \in 1..n PROVE Combinable(type, u, Folded(type, t, k))
    <3>1. k \in Nat \ {0} /\ Operable(type, u, t, k)
      BY DEF Operable
    <3>2. QED
      BY <3>1, FoldedCombinable
  <2>2. QED
    BY <2>1
<1> HIDE DEF F, S
<1>7. ASSUME NEW k \in 1..n, k = 1 \/ Right(k - 1) PROVE Right(k)
  <2>1. CASE k = 1
    <3>1. F(0 + 1) = Combine(type, F(0), st[m + (0 + 1)])
      BY <1>2
    <3>2. 0 + 1 = 1 /\ st[m + 1] = t[1]
      BY <1>5, <2>1
    <3>3. QED
      BY <1>1, <1>3, <2>1, <3>1, <3>2
  <2>2. CASE k # 1
    <3>1. k - 1 \in 1..n /\ k - 1 \in Nat \ {0} /\ (k - 1) + 1 = k
      BY <2>2
    <3>2. F((k - 1) + 1) = Combine(type, F(k - 1), st[m + ((k - 1) + 1)])
      BY <1>2, <3>1
    <3>3. F(k) = Combine(type, F(k - 1), t[k])
      BY <1>5, <3>1, <3>2
    <3>4. F(k - 1) = Combine(type, S, Folded(type, t, k - 1))
      BY <1>7, <2>2
    <3>5. Folded(type, t, k) = Combine(type, Folded(type, t, k - 1), t[k])
      <4>1. Folded(type, t, (k - 1) + 1)
              = Combine(type, Folded(type, t, k - 1), t[(k - 1) + 1])
        BY <1>1, <3>1
      <4>2. QED
        BY <3>1, <4>1
    <3>6. Combinable(type, u, Folded(type, t, k - 1)) /\ Combinable(type, u, t[k])
      BY <1>5, <1>6, <3>1
    <3>7. Combine(type, S, Combine(type, Folded(type, t, k - 1), t[k]))
            = Combine(type, Combine(type, S, Folded(type, t, k - 1)), t[k])
      BY <1>4, <3>6, CombineAssociates
    <3>8. QED
      BY <3>3, <3>4, <3>5, <3>7
  <2>3. QED
    BY <2>1, <2>2
<1>8. 0 \in K
  OBVIOUS
<1>9. ASSUME NEW k \in 0..(n - 1), k \in K PROVE k + 1 \in K
  <2>1. k + 1 \in 1..n /\ k + 1 \in Nat /\ (k + 1) - 1 = k
    OBVIOUS
  <2>2. k + 1 = 1 \/ Right((k + 1) - 1)
    BY <1>9, <2>1
  <2>3. Right(k + 1)
    BY <1>7, <2>1, <2>2
  <2>4. QED
    BY <2>1, <2>3
<1>10. n \in K
  <2> HIDE DEF K
  <2>1. 0..n \subseteq K
    BY <1>8, <1>9, Climb
  <2>2. QED
    BY <2>1
<1>11. Right(n)
  BY <1>10
<1>12. QED
  BY <1>11 DEF F, S

\* x is an entry of s.
Occurs(x, s) == \E k \in 1..Len(s) : s[k] = x

\* c is a, then b: m entries in S, then n.
Spliced(c, a, b, m, n, S) ==
  /\ m \in Nat \ {0} /\ n \in Nat \ {0}
  /\ m = Len(a) /\ n = Len(b) /\ Len(c) = m + n
  /\ \A i \in 1..m : c[i] = a[i] /\ a[i] \in S
  /\ \A i \in 1..n : c[m + i] = b[i] /\ b[i] \in S

\* The entries of two lists that are joined.
LEMMA JoinedEntries ==
  ASSUME NEW S, NEW a \in NonEmptySeqs(S), NEW b \in NonEmptySeqs(S)
  PROVE  Spliced(a \o b, a, b, Len(a), Len(b), S)
<1>1. a \in Seq(S) /\ b \in Seq(S) /\ a # << >> /\ b # << >>
  BY DEF NonEmptySeqs
<1>2. Len(a) \in Nat \ {0} /\ Len(b) \in Nat \ {0}
  BY <1>1, EmptySeq, LenProperties
<1>3. a \o b \in NonEmptySeqs(S) /\ Len(a \o b) = Len(a) + Len(b)
  BY Joined
<1>4. (\A i \in 1..Len(a) : a[i] \in S) /\ (\A i \in 1..Len(b) : b[i] \in S)
  BY <1>1, ElementOfSeq
<1>5. \A i \in 1..(Len(a) + Len(b)) : (a \o b)[i] = IF i <= Len(a) THEN a[i] ELSE b[i - Len(a)]
  BY <1>1, ConcatProperties
<1> DEFINE m == Len(a)
           n == Len(b)
           c == a \o b
<1>6. m \in Nat /\ n \in Nat /\ \A i \in 1..(m + n) : c[i] = IF i <= m THEN a[i] ELSE b[i - m]
  BY <1>2, <1>5
<1> HIDE DEF m, n, c
<1>7. \A i \in 1..m : c[i] = a[i]
  BY <1>6
<1>8. \A i \in 1..n : c[m + i] = b[i]
  <2>1. ASSUME NEW i \in 1..n PROVE c[m + i] = b[i]
    <3>1. m + i \in 1..(m + n) /\ ~(m + i <= m) /\ (m + i) - m = i
      BY <1>6
    <3>2. c[m + i] = b[(m + i) - m]
      BY <1>6, <3>1
    <3>3. QED
      BY <3>1, <3>2
  <2>2. QED
    BY <2>1
<1>9. /\ \A i \in 1..m : a[i] \in S
      /\ \A i \in 1..n : b[i] \in S
      /\ Len(c) = m + n /\ m \in Nat \ {0} /\ n \in Nat \ {0}
      /\ m = Len(a) /\ n = Len(b)
  BY <1>2, <1>3, <1>4 DEF m, n, c
<1>10. Spliced(c, a, b, m, n, S)
  BY <1>7, <1>8, <1>9 DEF Spliced
<1>11. QED
  BY <1>10 DEF m, n, c

\* The runs that FlattenSeq joins, and the list that it builds of them.
Runs(ss, f, A, n) ==
  /\ n \in Nat \ {0} /\ \A i \in 1..n : ss[i] \in A
  /\ \A i \in 1..n : f[i] = IF i = 1 THEN ss[i] ELSE f[i - 1] \o ss[i]

LEMMA RunsOf ==
  ASSUME NEW S, NEW ss, ss \in NonEmptySeqs(NonEmptySeqs(S))
  PROVE  \E f : Runs(ss, f, NonEmptySeqs(S), Len(ss)) /\ FlattenSeq(ss) = f[Len(ss)]
<1>1. ss \in Seq(NonEmptySeqs(S)) /\ ss # << >>
  BY DEF NonEmptySeqs
<1>2. Len(ss) \in Nat \ {0} /\ \A i \in 1..Len(ss) : ss[i] \in NonEmptySeqs(S)
  BY <1>1, EmptySeq, LenProperties, ElementOfSeq
<1>3. PICK f : /\ FlattenSeq(ss) = f[Len(ss)]
               /\ \A i \in 1..Len(ss) : f[i] = IF i = 1 THEN ss[i] ELSE f[i-1] \o ss[i]
  BY FlattenRuns
<1>4. QED
  BY <1>2, <1>3 DEF Runs

\* A list built of the first i runs, and next with one run more.
Continues(next, list, run, i, A) ==
  /\ run \in A
  /\ i = 0 => next = run
  /\ i # 0 => next = list \o run

LEMMA RunsStep ==
  ASSUME NEW ss, NEW f, NEW A, NEW n, Runs(ss, f, A, n), NEW i \in 0..(n - 1)
  PROVE  Continues(f[i + 1], f[i], ss[i + 1], i, A)
<1>1. n \in Nat \ {0} /\ i + 1 \in 1..n /\ (i + 1) - 1 = i
  BY DEF Runs
<1>2. f[i + 1] = IF i + 1 = 1 THEN ss[i + 1] ELSE f[(i + 1) - 1] \o ss[i + 1]
  BY <1>1 DEF Runs
<1>3. i + 1 = 1 <=> i = 0
  BY <1>1
<1>4. QED
  BY <1>1, <1>2, <1>3 DEF Runs, Continues

\* Every entry of a run is among the joined entries.
LEMMA FlattenContains ==
  ASSUME NEW S, NEW ss, ss \in NonEmptySeqs(NonEmptySeqs(S)),
         NEW x, NEW j \in 1..Len(ss), Occurs(x, ss[j])
  PROVE  Occurs(x, FlattenSeq(ss))
<1> DEFINE n == Len(ss)
           A == NonEmptySeqs(S)
<1>1. PICK f : Runs(ss, f, A, n) /\ FlattenSeq(ss) = f[n]
  BY RunsOf
<1>2. n \in Nat \ {0} /\ j \in 1..n
  BY <1>1 DEF Runs
<1>3. ASSUME NEW a \in A, NEW b \in A
      PROVE  a \o b \in A /\ (Occurs(x, a) \/ Occurs(x, b) => Occurs(x, a \o b))
  <2> DEFINE c == a \o b
             k == Len(a)
             l == Len(b)
  <2>1. c \in A /\ Spliced(c, a, b, k, l, S)
    BY Joined, JoinedEntries
  <2> HIDE DEF c, k, l, A
  <2>2. /\ k \in Nat /\ l \in Nat /\ k = Len(a) /\ l = Len(b) /\ Len(c) = k + l
        /\ \A i \in 1..k : c[i] = a[i]
        /\ \A i \in 1..l : c[k + i] = b[i]
    BY <2>1 DEF Spliced
  <2>3. ASSUME NEW i \in 1..k, a[i] = x PROVE Occurs(x, c)
    <3>1. i \in 1..Len(c) /\ c[i] = x
      BY <2>2, <2>3
    <3>2. QED
      BY <3>1 DEF Occurs
  <2>4. ASSUME NEW i \in 1..l, b[i] = x PROVE Occurs(x, c)
    <3>1. k + i \in 1..Len(c) /\ c[k + i] = x
      BY <2>2, <2>4
    <3>2. QED
      BY <3>1 DEF Occurs
  <2>5. Occurs(x, a) \/ Occurs(x, b) => Occurs(x, c)
    BY <2>2, <2>3, <2>4 DEF Occurs
  <2>6. QED
    BY <2>1, <2>5 DEF c
<1> HIDE DEF n, A
<1> DEFINE T == {i \in 0..n : i = 0 \/ (f[i] \in A /\ (i >= j => Occurs(x, f[i])))}
<1>4. 0 \in T
  BY <1>2
<1>5. ASSUME NEW i \in 0..(n - 1), i \in T PROVE i + 1 \in T
  <2>1. i + 1 \in 0..n /\ i + 1 # 0 /\ i \in Nat /\ j \in Nat /\ j # 0
    BY <1>2
  <2>2. /\ ss[i + 1] \in A
        /\ i = 0 => f[i + 1] = ss[i + 1]
        /\ i # 0 => f[i + 1] = f[i] \o ss[i + 1]
    <3>1. Continues(f[i + 1], f[i], ss[i + 1], i, A)
      BY <1>1, RunsStep
    <3>2. QED
      BY <3>1 DEF Continues
  <2>3. i + 1 = j => Occurs(x, ss[i + 1])
    OBVIOUS
  <2>4. CASE i = 0
    <3>1. f[i + 1] \in A /\ (i + 1 >= j => i + 1 = j)
      BY <2>1, <2>2, <2>4
    <3>2. QED
      BY <2>1, <2>2, <2>3, <2>4, <3>1
  <2>5. CASE i # 0
    <3>1. f[i] \in A /\ (i >= j => Occurs(x, f[i]))
      BY <1>5, <2>5
    <3>2. i + 1 >= j => i + 1 = j \/ i >= j
      BY <2>1
    <3>3. /\ f[i] \o ss[i + 1] \in A
          /\ Occurs(x, f[i]) \/ Occurs(x, ss[i + 1]) => Occurs(x, f[i] \o ss[i + 1])
      BY <1>3, <2>2, <3>1
    <3>4. QED
      BY <2>1, <2>2, <2>3, <2>5, <3>1, <3>2, <3>3
  <2>6. QED
    BY <2>4, <2>5
<1> HIDE DEF T
<1>6. n \in T
  <2>1. 0..n \subseteq T
    BY <1>2, <1>4, <1>5, Climb
  <2>2. QED
    BY <1>2, <2>1
<1>7. Occurs(x, f[n])
  BY <1>2, <1>6 DEF T
<1>8. QED
  BY <1>1, <1>7

\* What the objects of ids are folded to, if D gives them their meanings.
FoldOf(type, D, ids) == Folded(type, ValuesAt(D, ids), Len(ids))

\* D gives the elements of S meanings that can be combined.
CombinableOn(S, type, u, D) == \A x \in S : Combinable(type, u, D[x])

LEMMA FoldOfJoined ==
  ASSUME NEW type \in MergedTypes, NEW u, NEW S, NEW D, CombinableOn(S, type, u, D),
         NEW a \in NonEmptySeqs(S), NEW b \in NonEmptySeqs(S)
  PROVE  FoldOf(type, D, a \o b) = Combine(type, FoldOf(type, D, a), FoldOf(type, D, b))
<1> DEFINE c == a \o b
           m == Len(a)
           n == Len(b)
           s == ValuesAt(D, a)
           t == ValuesAt(D, b)
           st == ValuesAt(D, c)
<1>0. Spliced(c, a, b, m, n, S) /\ m = Len(a) /\ n = Len(b)
  BY JoinedEntries
<1> HIDE DEF c, m, n
<1>1. /\ m \in Nat \ {0} /\ n \in Nat \ {0} /\ Len(c) = m + n
      /\ \A i \in 1..m : c[i] = a[i] /\ a[i] \in S
      /\ \A i \in 1..n : c[m + i] = b[i] /\ b[i] \in S
  BY <1>0 DEF Spliced
<1>2. /\ \A i \in 1..m : s[i] = D[a[i]]
      /\ \A i \in 1..n : t[i] = D[b[i]]
      /\ \A i \in 1..(m + n) : st[i] = D[c[i]]
  <2>1. m \in Nat /\ n \in Nat /\ Len(c) \in Nat
    BY <1>1
  <2>2. (\A i \in 1..m : s[i] = D[a[i]]) /\ (\A i \in 1..n : t[i] = D[b[i]])
    BY <1>0, <2>1, ValuesFacts
  <2>3. \A i \in 1..Len(c) : st[i] = D[c[i]]
    BY <2>1, ValuesFacts
  <2>4. QED
    BY <1>1, <2>2, <2>3
<1> HIDE DEF s, t, st
<1>3. Operable(type, u, s, m) /\ Operable(type, u, t, n)
  BY <1>1, <1>2 DEF Operable, CombinableOn
<1>4. IsJoined(st, s, m, t, n)
  <2>1. \A i \in 1..m : i \in 1..(m + n)
    BY <1>1
  <2>2. \A i \in 1..n : m + i \in 1..(m + n)
    BY <1>1
  <2>3. QED
    BY <1>1, <1>2, <2>1, <2>2 DEF IsJoined
<1>5. Folded(type, st, m + n) = Combine(type, Folded(type, s, m), Folded(type, t, n))
  BY <1>1, <1>3, <1>4, FoldedJoined
<1>6. QED
  BY <1>1, <1>5 DEF FoldOf, s, t, st, c, m, n

\* Folding the joined lists is folding what each of them is folded to.
LEMMA FlattenFolded ==
  ASSUME NEW type \in MergedTypes, NEW u, NEW S, NEW D, CombinableOn(S, type, u, D),
         NEW ss, ss \in NonEmptySeqs(NonEmptySeqs(S)),
         NEW xs, \A i \in 1..Len(ss) : xs[i] = FoldOf(type, D, ss[i])
  PROVE  FoldOf(type, D, FlattenSeq(ss)) = Folded(type, xs, Len(ss))
<1> DEFINE n == Len(ss)
           A == NonEmptySeqs(S)
           F(s) == FoldOf(type, D, s)
<1>1. PICK f : Runs(ss, f, A, n) /\ FlattenSeq(ss) = f[n]
  BY RunsOf
<1>2. n \in Nat \ {0} /\ \A i \in 1..n : xs[i] = F(ss[i])
  BY <1>1 DEF Runs
<1>3. ASSUME NEW a \in A, NEW b \in A
      PROVE  a \o b \in A /\ F(a \o b) = Combine(type, F(a), F(b))
  <2>1. a \in NonEmptySeqs(S) /\ b \in NonEmptySeqs(S)
    BY <1>3
  <2>2. a \o b \in A
    BY <2>1, Joined, Zenon
  <2>3. FoldOf(type, D, a \o b) = Combine(type, FoldOf(type, D, a), FoldOf(type, D, b))
    BY <2>1, FoldOfJoined
  <2>4. QED
    BY <2>2, <2>3
<1> HIDE DEF n, A, F
<1> DEFINE T == {i \in 0..n : i = 0 \/ (f[i] \in A /\ F(f[i]) = Folded(type, xs, i))}
<1>4. 0 \in T
  BY <1>2
<1>5. ASSUME NEW i \in 0..(n - 1), i \in T PROVE i + 1 \in T
  <2>1. i + 1 \in 0..n /\ i + 1 \in 1..n /\ i + 1 # 0 /\ i \in Nat
    BY <1>2
  <2>2. /\ ss[i + 1] \in A
        /\ i = 0 => f[i + 1] = ss[i + 1]
        /\ i # 0 => f[i + 1] = f[i] \o ss[i + 1]
    <3>1. Continues(f[i + 1], f[i], ss[i + 1], i, A)
      BY <1>1, RunsStep
    <3>2. QED
      BY <3>1 DEF Continues
  <2>3. xs[i + 1] = F(ss[i + 1])
    BY <1>2, <2>1
  <2>4. CASE i = 0
    <3>1. Folded(type, xs, 1) = xs[1] /\ i + 1 = 1
      BY <2>4, FoldedSteps
    <3>2. QED
      BY <2>1, <2>2, <2>3, <2>4, <3>1
  <2>5. CASE i # 0
    <3>1. f[i] \in A /\ F(f[i]) = Folded(type, xs, i)
      BY <1>5, <2>5
    <3>2. f[i] \o ss[i + 1] \in A /\ F(f[i] \o ss[i + 1]) = Combine(type, F(f[i]), F(ss[i + 1]))
      BY <1>3, <2>2, <3>1
    <3>3. i \in Nat \ {0}
      BY <2>1, <2>5
    <3>4. Folded(type, xs, i + 1) = Combine(type, Folded(type, xs, i), xs[i + 1])
      BY <3>3, FoldedSteps
    <3>5. QED
      BY <2>1, <2>2, <2>3, <2>5, <3>1, <3>2, <3>4
  <2>6. QED
    BY <2>4, <2>5
<1> HIDE DEF T
<1>6. n \in T
  <2>1. 0..n \subseteq T
    BY <1>2, <1>4, <1>5, Climb
  <2>2. QED
    BY <1>2, <2>1
<1>7. F(f[n]) = Folded(type, xs, n)
  BY <1>2, <1>6 DEF T
<1>8. QED
  BY <1>1, <1>7 DEF F, n

NumberCollections == {"Add", "Maximum", "Minimum"}

\* s are operands of a collection of the type: numbers of a unit, or truths.
Alike(type, s) ==
  Len(s) >= 2 /\ IF type \in NumberCollections THEN AllNumbersAlike(s) ELSE AllKind(s, "truth")

LEMMA CollectionMeaning ==
  ASSUME NEW p, p.type \in MergedTypes, NEW s, NEW env
  PROVE  MeaningOf(p, s, env)
           = IF HasKind(s, "stuck") THEN Stuck
             ELSE IF HasKind(s, "undefined") THEN Undefined
             ELSE IF Alike(p.type, s) THEN Reduce(p.type, s) ELSE Stuck
<1>1. CASE p.type \in NumberCollections
  <2>1. MeaningOf(p, s, env)
          = Apply(s, Len(s) >= 2 /\ AllNumbersAlike(s), Reduce(p.type, s))
    BY <1>1 DEF MeaningOf, Conditionals, NumberCollections
  <2>2. QED
    BY <1>1, <2>1, Zenon DEF Apply, HasKind, Alike
<1>2. CASE p.type \notin NumberCollections
  <2>1. p.type \in {"AllOf", "AnyOf"}
    BY <1>2 DEF MergedTypes, CollectionTypes, NumberCollections
  <2>2. MeaningOf(p, s, env)
          = Apply(s, Len(s) >= 2 /\ AllKind(s, "truth"), Reduce(p.type, s))
    BY <2>1 DEF MeaningOf, Conditionals
  <2>3. QED
    BY <1>2, <2>2, Zenon DEF Apply, HasKind, Alike
<1>3. QED
  BY <1>1, <1>2

\* x can stand under a collection of the type, whose value has the unit u.
Suited(type, u, x) ==
  IF type \in NumberCollections THEN IsNumber(x) /\ x.unit = u ELSE x.kind = "truth"

SuitedOn(S, type, u, D) == \A id \in S : Suited(type, u, D[id])

LEMMA SuitedCombine ==
  ASSUME NEW S, NEW type, NEW u, NEW D, SuitedOn(S, type, u, D), NormalOn(S, D)
  PROVE  CombinableOn(S, type, u, D)
<1>1. ASSUME NEW id \in S, type \in NumberCollections PROVE IsNumberOf(D[id], u)
  <2>1. IsNumber(D[id]) /\ D[id].unit = u
    BY <1>1 DEF SuitedOn, Suited
  <2>2. D[id].kind = "number"
    BY <2>1 DEF IsNumber
  <2>3. NormalMeaning(D[id])
    BY DEF NormalOn
  <2>4. QED
    BY <2>1, <2>2, <2>3 DEF NormalMeaning
<1>2. QED
  BY <1>1 DEF CombinableOn, Combinable, NumberCollections

\* What is suited is a number or a truth.
LEMMA SuitedKinds ==
  ASSUME NEW type, NEW u, NEW x, Suited(type, u, x)
  PROVE  x.kind # "stuck" /\ x.kind # "undefined"
BY DEF Suited, IsNumber

\* Operands alike are suited to the unit of the first.
LEMMA AlikeSuited ==
  ASSUME NEW type \in MergedTypes, NEW n \in Nat, NEW s, Len(s) = n, n >= 2
  PROVE  /\ Alike(type, s) => \A i \in 1..n : Suited(type, s[1].unit, s[i])
         /\ \A u : (\A i \in 1..n : Suited(type, u, s[i])) => Alike(type, s)
<1>1. CASE type \in NumberCollections
  <2>1. Alike(type, s) <=> AllNumbersAlike(s)
    BY <1>1 DEF Alike
  <2>2. AllNumbersAlike(s) <=> \A i \in 1..n : IsNumber(s[i]) /\ s[i].unit = s[1].unit
    BY DEF AllNumbersAlike, SameUnit
  <2>3. \A u, x : Suited(type, u, x) <=> IsNumber(x) /\ x.unit = u
    BY <1>1 DEF Suited
  <2>4. 1 \in 1..n
    OBVIOUS
  <2>5. Alike(type, s) => \A i \in 1..n : Suited(type, s[1].unit, s[i])
    BY <2>1, <2>2, <2>3
  <2>6. ASSUME NEW u, \A i \in 1..n : Suited(type, u, s[i]) PROVE Alike(type, s)
    <3>1. \A i \in 1..n : IsNumber(s[i]) /\ s[i].unit = u
      BY <2>3, <2>6
    <3>2. QED
      BY <2>1, <2>2, <2>4, <3>1
  <2>7. QED
    BY <2>5, <2>6
<1>2. CASE type \notin NumberCollections
  <2>1. \A u, x : Suited(type, u, x) <=> x.kind = "truth"
    BY <1>2 DEF Suited
  <2>2. Alike(type, s) <=> \A i \in 1..n : s[i].kind = "truth"
    BY <1>2 DEF Alike, AllKind
  <2>3. QED
    BY <2>1, <2>2
<1>3. QED
  BY <1>1, <1>2

\* What operands alike are reduced to is a number of their unit, or a truth.
LEMMA ReducedKind ==
  ASSUME NEW type \in MergedTypes, NEW n \in Nat, NEW s, Len(s) = n, n >= 2, Alike(type, s)
  PROVE  /\ Reduce(type, s).kind \in {"number", "truth"}
         /\ type \in NumberCollections => Reduce(type, s).unit = s[1].unit
<1>1. CASE type \in NumberCollections
  <2>1. \A i \in 1..n : Suited(type, s[1].unit, s[i])
    BY AlikeSuited
  <2>2. \A i \in 1..Len(s) : s[i].kind = "number" /\ s[i].unit = s[1].unit
    BY <1>1, <2>1 DEF Suited, IsNumber
  <2>3. type \in {"Add", "Maximum", "Minimum"} /\ Len(s) \in Nat /\ Len(s) >= 2
    BY <1>1 DEF NumberCollections
  <2>4. Reduce(type, s).kind = "number" /\ Reduce(type, s).unit = s[1].unit
    BY <2>2, <2>3, ReduceNumbers
  <2>5. QED
    BY <2>4
<1>2. CASE type \notin NumberCollections
  <2>1. type \in {"AllOf", "AnyOf"} /\ Len(s) \in Nat /\ Len(s) >= 2
    BY <1>2 DEF MergedTypes, CollectionTypes, NumberCollections
  <2>2. Reduce(type, s).kind = "truth"
    BY <2>1, ReduceMeaning
  <2>3. QED
    BY <1>2, <2>2
<1>3. QED
  BY <1>1, <1>2

\* The operands ids keep what is known of the operand x that they are merged for.
RunKeeps(type, D, ids, x) ==
  /\ \A i \in 1..Len(ids) : D[ids[i]].kind # "stuck"
  /\ x.kind = "undefined" => \E i \in 1..Len(ids) : D[ids[i]].kind = "undefined"
  /\ \A u : Suited(type, u, x) =>
       /\ \A i \in 1..Len(ids) : Suited(type, u, D[ids[i]])
       /\ x = FoldOf(type, D, ids)

\* An operand that is not merged is a run of its own.
LEMMA SingleRun ==
  ASSUME NEW type \in MergedTypes, NEW D, NEW id, D[id].kind # "stuck"
  PROVE  RunKeeps(type, D, << id >>, D[id])
<1>1. Len(<< id >>) = 1 /\ << id >>[1] = id /\ Len(<< id >>) \in Nat /\ 1 \in 1..1
  OBVIOUS
<1>2. \A i \in 1..Len(<< id >>) : << id >>[i] = id
  BY <1>1
<1>3. ValuesAt(D, << id >>)[1] = D[id]
  BY <1>1, ValuesFacts
<1>4. FoldOf(type, D, << id >>) = D[id]
  BY <1>1, <1>3, FoldedSteps DEF FoldOf
<1>5. QED
  BY <1>1, <1>2, <1>4 DEF RunKeeps

\* A nested collection of the type is the run of its operands.
LEMMA NestedRun ==
  ASSUME NEW p, p.type \in MergedTypes, NEW D, NEW ids, Len(ids) \in Nat, NEW env,
         NEW x, x = MeaningOf(p, ValuesAt(D, ids), env), x.kind # "stuck"
  PROVE  RunKeeps(p.type, D, ids, x)
<1> DEFINE ys == ValuesAt(D, ids)
           n == Len(ids)
<1>1. n \in Nat /\ Len(ys) = n /\ \A i \in 1..n : ys[i] = D[ids[i]]
  BY ValuesFacts
<1>2. x = IF HasKind(ys, "stuck") THEN Stuck
          ELSE IF HasKind(ys, "undefined") THEN Undefined
          ELSE IF Alike(p.type, ys) THEN Reduce(p.type, ys) ELSE Stuck
  BY CollectionMeaning
<1> HIDE DEF ys
<1>3. Stuck.kind = "stuck" /\ Undefined.kind = "undefined"
  BY ConstantMeanings
<1>4. ~HasKind(ys, "stuck")
  BY <1>2, <1>3
<1>5. \A i \in 1..n : D[ids[i]].kind # "stuck"
  BY <1>1, <1>4 DEF HasKind
<1>6. \A kind : HasKind(ys, kind) => \E i \in 1..n : D[ids[i]].kind = kind
  BY <1>1 DEF HasKind
<1>7. ~HasKind(ys, "undefined") => Alike(p.type, ys) /\ x = Reduce(p.type, ys)
  BY <1>2, <1>3, <1>4
<1>8. Alike(p.type, ys) => n >= 2
  BY <1>1 DEF Alike
<1>9. ASSUME x.kind = "undefined" PROVE HasKind(ys, "undefined")
  <2>1. SUFFICES ASSUME ~HasKind(ys, "undefined") PROVE FALSE
    OBVIOUS
  <2>2. x.kind \in {"number", "truth"}
    BY <1>1, <1>7, <1>8, <2>1, ReducedKind
  <2>3. QED
    BY <1>9, <2>2
<1>10. ASSUME NEW u, Suited(p.type, u, x)
       PROVE  (\A i \in 1..n : Suited(p.type, u, D[ids[i]])) /\ x = FoldOf(p.type, D, ids)
  <2>1. ~HasKind(ys, "undefined")
    BY <1>2, <1>3, <1>4, <1>10, SuitedKinds
  <2>2. Alike(p.type, ys) /\ x = Reduce(p.type, ys) /\ n >= 2
    BY <1>7, <1>8, <2>1
  <2>3. \A i \in 1..n : Suited(p.type, ys[1].unit, ys[i])
    BY <1>1, <2>2, AlikeSuited
  <2>4. p.type \in NumberCollections => x.unit = ys[1].unit
    BY <1>1, <2>2, ReducedKind
  <2>5. p.type \in NumberCollections => ys[1].unit = u
    BY <1>10, <2>4 DEF Suited
  <2>6. \A i \in 1..n : Suited(p.type, u, ys[i])
    BY <2>3, <2>5 DEF Suited
  <2>7. x = Folded(p.type, ys, n)
    BY <1>1, <2>2, ReduceIsFolded
  <2>8. QED
    BY <1>1, <2>6, <2>7 DEF FoldOf, ys
<1>11. QED
  BY <1>5, <1>6, <1>9, <1>10 DEF RunKeeps

\* Every entry of every run is in T.
RunsWithin(ss, T) == \A i \in 1..Len(ss) : \A k \in 1..Len(ss[i]) : ss[i][k] \in T

LEMMA RunsNarrow ==
  ASSUME NEW S, NEW ss, ss \in NonEmptySeqs(NonEmptySeqs(S)), NEW T, RunsWithin(ss, T)
  PROVE  ss \in NonEmptySeqs(NonEmptySeqs(T))
<1>1. ss \in Seq(NonEmptySeqs(S)) /\ ss # << >>
  BY DEF NonEmptySeqs
<1>2. \A i \in 1..Len(ss) : ss[i] \in NonEmptySeqs(S)
  BY <1>1, ElementOfSeq
<1>3. ASSUME NEW i \in 1..Len(ss) PROVE ss[i] \in NonEmptySeqs(T)
  <2>1. ss[i] \in Seq(S) /\ ss[i] # << >>
    BY <1>2 DEF NonEmptySeqs
  <2>2. \A k \in 1..Len(ss[i]) : ss[i][k] \in T
    BY DEF RunsWithin
  <2>3. ss[i] \in Seq(T)
    BY <2>1, <2>2, NarrowerSeq
  <2>4. QED
    BY <2>1, <2>3 DEF NonEmptySeqs
<1>4. ss \in Seq(NonEmptySeqs(T))
  <2> DEFINE A == NonEmptySeqs(S)
             B == NonEmptySeqs(T)
  <2>1. ss \in Seq(A) /\ \A i \in 1..Len(ss) : ss[i] \in B
    BY <1>1, <1>3
  <2> HIDE DEF A, B
  <2>2. ss \in Seq(B)
    BY <2>1, NarrowerSeq
  <2>3. QED
    BY <2>2 DEF B
<1>5. QED
  BY <1>1, <1>4 DEF NonEmptySeqs

\* xs are the operands that the runs ss are merged for.
RunsKeep(type, D, ss, xs) ==
  /\ Len(xs) = Len(ss)
  /\ \A i \in 1..Len(ss) : RunKeeps(type, D, ss[i], xs[i])

\* Entries in T, one by one.
LEMMA FlattenWithin ==
  ASSUME NEW S, NEW ss, ss \in NonEmptySeqs(NonEmptySeqs(S)), NEW T, RunsWithin(ss, T)
  PROVE  /\ FlattenSeq(ss) \in NonEmptySeqs(T)
         /\ Len(FlattenSeq(ss)) \in Nat /\ Len(ss) \in Nat /\ Len(ss) <= Len(FlattenSeq(ss))
         /\ \A k \in 1..Len(FlattenSeq(ss)) : FlattenSeq(ss)[k] \in T
<1>1. ss \in NonEmptySeqs(NonEmptySeqs(T))
  BY RunsNarrow
<1>2. FlattenSeq(ss) \in NonEmptySeqs(T) /\ Len(FlattenSeq(ss)) >= Len(ss)
  BY <1>1, FlattenTyped
<1>3. FlattenSeq(ss) \in Seq(T) /\ ss \in Seq(NonEmptySeqs(S))
  BY <1>2 DEF NonEmptySeqs
<1>4. QED
  BY <1>2, <1>3, LenProperties, ElementOfSeq

\* A collection that has a meaning keeps it when nested ones are merged into it.
LEMMA MergedMeaning ==
  ASSUME NEW p, p.type \in MergedTypes, NEW S, NEW D, NormalOn(S, D),
         NEW ss, ss \in NonEmptySeqs(NonEmptySeqs(S)),
         NEW xs, RunsKeep(p.type, D, ss, xs), NEW env, MeaningOf(p, xs, env).kind # "stuck"
  PROVE  MeaningOf(p, ValuesAt(D, FlattenSeq(ss)), env) = MeaningOf(p, xs, env)
<1> DEFINE n == Len(ss)
           flat == FlattenSeq(ss)
           l == Len(flat)
           ys == ValuesAt(D, flat)
           type == p.type
<1>1. ss \in Seq(NonEmptySeqs(S)) /\ n \in Nat /\ \A i \in 1..n : ss[i] \in Seq(S)
  <2>1. ss \in Seq(NonEmptySeqs(S))
    BY DEF NonEmptySeqs
  <2>2. n \in Nat /\ \A i \in 1..n : ss[i] \in NonEmptySeqs(S)
    BY <2>1, LenProperties, ElementOfSeq
  <2>3. QED
    BY <2>1, <2>2 DEF NonEmptySeqs
<1>2. \A i \in 1..n : \A k \in 1..Len(ss[i]) : ss[i][k] \in S
  BY <1>1, ElementOfSeq
<1>3. Len(xs) = n /\ \A i \in 1..n : RunKeeps(type, D, ss[i], xs[i])
  BY DEF RunsKeep
<1>4. l \in Nat /\ n <= l
  <2>1. RunsWithin(ss, S)
    BY <1>2 DEF RunsWithin
  <2>2. QED
    BY <2>1, FlattenWithin
<1>5. Len(ys) = l /\ \A k \in 1..l : ys[k] = D[flat[k]]
  BY <1>4, ValuesFacts
<1>6. /\ MeaningOf(p, xs, env)
           = IF HasKind(xs, "stuck") THEN Stuck
             ELSE IF HasKind(xs, "undefined") THEN Undefined
             ELSE IF Alike(type, xs) THEN Reduce(type, xs) ELSE Stuck
      /\ MeaningOf(p, ys, env)
           = IF HasKind(ys, "stuck") THEN Stuck
             ELSE IF HasKind(ys, "undefined") THEN Undefined
             ELSE IF Alike(type, ys) THEN Reduce(type, ys) ELSE Stuck
  BY CollectionMeaning
<1> HIDE DEF ys
<1>7. Stuck.kind = "stuck"
  BY ConstantMeanings
<1>8. ~HasKind(xs, "stuck")
  BY <1>6, <1>7
<1>9. ~HasKind(ys, "stuck")
  <2> DEFINE T == {id \in S : D[id].kind # "stuck"}
  <2>1. RunsWithin(ss, T)
    BY <1>2, <1>3 DEF RunsWithin, RunKeeps
  <2>2. \A k \in 1..l : flat[k] \in T
    BY <2>1, FlattenWithin
  <2>3. \A k \in 1..l : D[flat[k]].kind # "stuck"
    BY <2>2
  <2>4. QED
    BY <1>5, <2>3 DEF HasKind
<1>10. CASE HasKind(xs, "undefined")
  <2>1. PICK i \in 1..n : xs[i].kind = "undefined"
    BY <1>3, <1>10 DEF HasKind
  <2>2. PICK k \in 1..Len(ss[i]) : D[ss[i][k]].kind = "undefined"
    BY <1>3, <2>1 DEF RunKeeps
  <2>3. Occurs(ss[i][k], ss[i])
    BY DEF Occurs
  <2>4. Occurs(ss[i][k], flat)
    BY <2>3, FlattenContains
  <2>5. HasKind(ys, "undefined")
    BY <1>5, <2>2, <2>4 DEF HasKind, Occurs
  <2>6. QED
    BY <1>6, <1>8, <1>9, <1>10, <2>5 DEF ys
<1>11. CASE ~HasKind(xs, "undefined")
  <2>1. Alike(type, xs) /\ MeaningOf(p, xs, env) = Reduce(type, xs)
    BY <1>6, <1>7, <1>8, <1>11
  <2>2. n >= 2
    BY <1>3, <2>1 DEF Alike
  <2> DEFINE u == xs[1].unit
             T == {id \in S : Suited(type, u, D[id])}
  <2>3. \A i \in 1..n : Suited(type, u, xs[i])
    BY <1>1, <1>3, <2>1, <2>2, AlikeSuited
  <2> HIDE DEF u
  <2>4. \A i \in 1..n : /\ \A k \in 1..Len(ss[i]) : Suited(type, u, D[ss[i][k]])
                        /\ xs[i] = FoldOf(type, D, ss[i])
    BY <1>3, <2>3 DEF RunKeeps
  <2>5. RunsWithin(ss, T)
    BY <1>2, <2>4 DEF RunsWithin
  <2>6. SuitedOn(T, type, u, D) /\ NormalOn(T, D)
    BY DEF SuitedOn, NormalOn
  <2>7. flat \in NonEmptySeqs(T) /\ (\A k \in 1..l : flat[k] \in T)
        /\ ss \in NonEmptySeqs(NonEmptySeqs(T))
    BY <2>5, FlattenWithin, RunsNarrow
  <2> HIDE DEF T
  <2>8. \A k \in 1..l : Suited(type, u, ys[k])
    BY <1>5, <2>6, <2>7 DEF SuitedOn
  <2>9. l >= 2
    BY <1>1, <1>4, <2>2
  <2>10. Alike(type, ys)
    BY <1>4, <1>5, <2>8, <2>9, AlikeSuited
  <2>11. ~HasKind(ys, "undefined")
    BY <1>5, <2>8, SuitedKinds DEF HasKind
  <2>12. MeaningOf(p, ys, env) = Reduce(type, ys)
    BY <1>6, <1>9, <2>10, <2>11
  <2>13. CombinableOn(T, type, u, D)
    BY <2>6, SuitedCombine
  <2>14. FoldOf(type, D, flat) = Folded(type, xs, n)
    BY <2>4, <2>7, <2>13, FlattenFolded
  <2>15. Reduce(type, ys) = FoldOf(type, D, flat)
    BY <1>5, ReduceIsFolded DEF FoldOf, ys
  <2>16. Reduce(type, xs) = Folded(type, xs, n)
    BY <1>3, ReduceIsFolded
  <2>17. QED
    BY <2>1, <2>12, <2>14, <2>15, <2>16 DEF ys
<1>12. QED
  BY <1>10, <1>11 DEF ys

-----------------------------------------------------------------------------
(* What is computed with literals is what is computed with their meanings. *)

\* x is the fraction n/d of the unit u.
IsRatio(x, u, n, d) ==
  /\ x.unit = u /\ x.kind = "number"
  /\ x.p \in Int /\ x.q \in Nat \ {0} /\ x.p * d = n * x.q

LEMMA RatioOf ==
  ASSUME NEW u, NEW n \in Int, NEW d \in Int, d # 0
  PROVE  IsRatio(Rational(u, n, d), u, n, d)
<1> DEFINE x == Rational(u, n, d)
<1>1. NumberRecord(x, u) /\ Lowest(x, n, d)
  BY RationalFields
<1>2. x.kind = "number" /\ x.unit = u
  BY RationalMeaning
<1> HIDE DEF x
<1>3. IsRatio(x, u, n, d)
  BY <1>1, <1>2 DEF IsRatio, Lowest
<1>4. QED
  BY <1>3 DEF x

\* Fractions of one positive denominator.
LEMMA RatioArithmetic ==
  ASSUME NEW u, NEW d \in Nat \ {0}, NEW m \in Int, NEW n \in Int,
         NEW x, IsRatio(x, u, m, d), NEW y, IsRatio(y, u, n, d)
  PROVE  /\ Plus(x, y) = Rational(u, m + n, d)
         /\ LessThan(x, y) <=> m < n
         /\ Rational(u, -x.p, x.q) = Rational(u, -m, d)
<1>1. /\ x.unit = u /\ x.p \in Int /\ x.q \in Nat \ {0} /\ x.p * d = m * x.q
      /\ y.unit = u /\ y.p \in Int /\ y.q \in Nat \ {0} /\ y.p * d = n * y.q
  BY DEF IsRatio
<1> DEFINE a == x.p
           b == x.q
           c == y.p
           e == y.q
<1>2. a \in Int /\ b \in Nat \ {0} /\ a * d = m * b /\ c \in Int /\ e \in Nat \ {0} /\ c * d = n * e
  BY <1>1
<1> HIDE DEF a, b, c, e
<1>3. b * e \in Nat \ {0} /\ a * e \in Int /\ c * b \in Int
  BY <1>2
<1>4. (a * e) * d = m * (b * e) /\ (c * b) * d = n * (b * e)
  <2>1. (a * e) * d = (a * d) * e /\ m * (b * e) = (m * b) * e
    BY <1>2
  <2>2. (c * b) * d = (c * d) * b /\ n * (b * e) = (n * e) * b
    BY <1>2
  <2>3. QED
    BY <1>2, <2>1, <2>2
<1>5. Rational(u, a * e + c * b, b * e) = Rational(u, m + n, d)
  <2>1. (a * e + c * b) * d = (m + n) * (b * e)
    <3>1. (a * e + c * b) * d = (a * e) * d + (c * b) * d
      BY <1>3
    <3>2. (m + n) * (b * e) = m * (b * e) + n * (b * e)
      BY <1>3
    <3>3. QED
      BY <1>4, <3>1, <3>2
  <2>2. a * e + c * b \in Int /\ m + n \in Int /\ b * e \in Int /\ b * e # 0 /\ d \in Int /\ d # 0
    BY <1>3
  <2>3. QED
    BY <2>1, <2>2, RationalSame
<1>6. a * e < c * b <=> m < n
  <2> DEFINE k == b * e
             v == a * e
             w == c * b
  <2>1. k \in Nat \ {0} /\ v \in Int /\ w \in Int /\ v * d = m * k /\ w * d = n * k
    BY <1>3, <1>4
  <2> HIDE DEF k, v, w
  <2>2. w <= v => n <= m
    <3>1. ASSUME w <= v PROVE n <= m
      <4>1. w * d <= v * d
        BY <2>1, <3>1
      <4>2. n * k <= m * k
        BY <2>1, <4>1
      <4>3. QED
        BY <2>1, <4>2, Cancel
    <3>2. QED
      BY <3>1
  <2>3. n <= m => w <= v
    <3>1. ASSUME n <= m PROVE w <= v
      <4>1. n * k <= m * k
        BY <2>1, <3>1
      <4>2. w * d <= v * d
        BY <2>1, <4>1
      <4>3. QED
        BY <2>1, <4>2, Cancel
    <3>2. QED
      BY <3>1
  <2>4. v < w <=> m < n
    BY <2>1, <2>2, <2>3
  <2>5. QED
    BY <2>4 DEF v, w
<1>7. Rational(u, -a, b) = Rational(u, -m, d)
  <2>1. (-a) * d = (-m) * b
    BY <1>2
  <2>2. -a \in Int /\ -m \in Int /\ b \in Int /\ b # 0 /\ d \in Int /\ d # 0
    BY <1>2
  <2>3. QED
    BY <2>1, <2>2, RationalSame
<1>8. QED
  BY <1>1, <1>5, <1>6, <1>7 DEF Plus, LessThan, a, b, c, e

\* Fractions of one value are one number.
LEMMA RatioEqual ==
  ASSUME NEW u, NEW d \in Nat \ {0}, NEW m \in Int, NEW n \in Int
  PROVE  Rational(u, m, d) = Rational(u, n, d) <=> m = n
<1> DEFINE x == Rational(u, m, d)
           y == Rational(u, n, d)
<1>1. IsRatio(x, u, m, d) /\ IsRatio(y, u, n, d)
  BY RatioOf
<1> HIDE DEF x, y
<1>2. ASSUME x = y PROVE m = n
  <2>1. x.q \in Nat \ {0} /\ x.p * d = m * x.q /\ x.p * d = n * x.q
    BY <1>1, <1>2 DEF IsRatio
  <2> DEFINE k == x.q
  <2>2. k \in Nat \ {0} /\ m * k = n * k
    BY <2>1
  <2> HIDE DEF k
  <2>3. QED
    BY <2>2, Cancel
<1>3. m = n => x = y
  BY DEF x, y
<1>4. QED
  BY <1>2, <1>3 DEF x, y

LEMMA RatioProduct ==
  ASSUME NEW u, NEW w, NEW d \in Nat \ {0}, NEW e \in Nat \ {0}, NEW m \in Int, NEW n \in Int,
         NEW x, IsRatio(x, u, m, d), NEW y, IsRatio(y, w, n, e)
  PROVE  Times(x, y) = Rational(MultiplyUnit(u, w), m * n, d * e)
<1>1. /\ x.unit = u /\ x.p \in Int /\ x.q \in Nat \ {0} /\ x.p * d = m * x.q
      /\ y.unit = w /\ y.p \in Int /\ y.q \in Nat \ {0} /\ y.p * e = n * y.q
  BY DEF IsRatio
<1> DEFINE a == x.p
           b == x.q
           c == y.p
           f == y.q
<1>2. a \in Int /\ b \in Nat \ {0} /\ a * d = m * b /\ c \in Int /\ f \in Nat \ {0} /\ c * e = n * f
  BY <1>1
<1> HIDE DEF a, b, c, f
<1>3. (a * c) * (d * e) = (m * n) * (b * f)
  <2>1. (a * c) * (d * e) = (a * d) * (c * e)
    BY <1>2
  <2>2. (m * n) * (b * f) = (m * b) * (n * f)
    BY <1>2
  <2>3. QED
    BY <1>2, <2>1, <2>2
<1>4. /\ a * c \in Int /\ m * n \in Int
      /\ b * f \in Int /\ b * f # 0 /\ d * e \in Int /\ d * e # 0
  BY <1>2
<1>5. Rational(MultiplyUnit(u, w), a * c, b * f) = Rational(MultiplyUnit(u, w), m * n, d * e)
  BY <1>3, <1>4, RationalSame
<1>6. QED
  BY <1>1, <1>5 DEF Times, a, b, c, f

\* The denominator of a literal.
LEMMA TenToPositive ==
  ASSUME NEW d \in Int, d <= 0
  PROVE  -d \in Nat /\ TenTo[-d] \in Nat \ {0}
<1>1. -d \in Nat
  OBVIOUS
<1>2. QED
  BY <1>1, TenToDef

\* A literal in any unit that is small enough.
LEMMA LiteralIn ==
  ASSUME NEW u, NEW a \in Decimals, NEW d \in Int, d <= 0, d <= a.exp
  PROVE  /\ InUnitsOf(a, d) \in Int
         /\ LiteralMeaning(u, a) = Rational(u, InUnitsOf(a, d), TenTo[-d])
         /\ IsRatio(LiteralMeaning(u, a), u, InUnitsOf(a, d), TenTo[-d])
<1> DEFINE e == LowerExp(a, DecZero)
           m == InUnitsOf(a, e)
           n == InUnitsOf(a, d)
           k == TenTo[e - d]
<1>1. DecZero \in Decimals /\ DecZero.exp = 0
  BY ZeroFacts
<1>2. e \in Int /\ e <= a.exp /\ e <= 0 /\ d <= e
  <2>1. e \in Int /\ e <= a.exp /\ e <= 0 /\ e \in {a.exp, 0}
    BY <1>1, LowerExpFacts
  <2>2. QED
    BY <2>1
<1>3. LiteralMeaning(u, a) = Rational(u, m, TenTo[-e])
  BY DEF LiteralMeaning
<1> HIDE DEF e
<1>4. m \in Int /\ n \in Int /\ n = m * k
  BY <1>2, UnitsFacts, SmallerUnit
<1>5. -e \in Nat /\ e - d \in Nat /\ -d = (-e) + (e - d) /\ -d \in Nat
  BY <1>2
<1>6. TenTo[-d] = TenTo[-e] * k
  BY <1>5, TenToAdds
<1>7. TenTo[-d] \in Nat \ {0} /\ TenTo[-e] \in Nat \ {0} /\ k \in Nat \ {0}
  BY <1>5, TenToDef
<1> DEFINE s == TenTo[-d]
           t == TenTo[-e]
<1>8. s \in Nat \ {0} /\ t \in Nat \ {0} /\ s = t * k
  BY <1>6, <1>7
<1> HIDE DEF s, t, m, n, k
<1>9. m * s = n * t
  <2>1. m * (t * k) = (m * k) * t
    BY <1>4, <1>7, <1>8 DEF k
  <2>2. QED
    BY <1>4, <1>8, <2>1
<1>10. s \in Int /\ s # 0 /\ t \in Int /\ t # 0
  BY <1>8
<1>11. Rational(u, m, t) = Rational(u, n, s)
  BY <1>4, <1>9, <1>10, RationalSame
<1>12. LiteralMeaning(u, a) = Rational(u, n, s)
  BY <1>3, <1>11 DEF t
<1>13. IsRatio(LiteralMeaning(u, a), u, n, s)
  BY <1>4, <1>10, <1>12, RatioOf
<1>14. QED
  BY <1>4, <1>12, <1>13 DEF n, s

\* The canonical form means the same.
LEMMA LiteralCanonical ==
  ASSUME NEW u, NEW a \in Decimals
  PROVE  LiteralMeaning(u, Canonical(a)) = LiteralMeaning(u, a)
<1> DEFINE d == LowerExp(a, DecZero)
           b == Canonical(a)
<1>1. d \in Int /\ d <= a.exp /\ d <= 0
  <2>1. DecZero \in Decimals /\ DecZero.exp = 0
    BY ZeroFacts
  <2>2. QED
    BY <2>1, LowerExpFacts
<1>2. b \in Decimals /\ InUnitsOf(b, d) = InUnitsOf(a, d)
  BY <1>1, CanonicalFacts
<1>3. d <= b.exp
  <2>1. CASE a.coeff = 0
    BY <1>1, <2>1, ZeroFacts DEF Canonical
  <2>2. CASE a.coeff # 0
    <3>1. a.exp <= b.exp /\ a.exp \in Int /\ b.exp \in Int
      BY <1>2, <2>2, CanonicalFacts DEF Decimals
    <3>2. QED
      BY <1>1, <3>1
  <2>3. QED
    BY <2>1, <2>2
<1> HIDE DEF d, b
<1>4. LiteralMeaning(u, b) = Rational(u, InUnitsOf(b, d), TenTo[-d])
  BY <1>1, <1>2, <1>3, LiteralIn
<1>5. LiteralMeaning(u, a) = Rational(u, InUnitsOf(a, d), TenTo[-d])
  BY <1>1, LiteralIn
<1>6. QED
  BY <1>2, <1>4, <1>5 DEF b

\* An integer literal means the integer.
LEMMA LiteralInteger ==
  ASSUME NEW u, NEW v \in Int
  PROVE  IntegerDec(v) \in Decimals /\ LiteralMeaning(u, IntegerDec(v)) = Rational(u, v, 1)
<1> DEFINE a == IntegerDec(v)
<1>1. a.neg = (v < 0) /\ a.coeff = DecAbs(v) /\ a.exp = 0
  BY DEF IntegerDec, Dec
<1>2. DecAbs(v) \in Nat /\ (IF v < 0 THEN -DecAbs(v) ELSE DecAbs(v)) = v
  BY DEF DecAbs
<1>3. a \in Decimals
  BY <1>2 DEF IntegerDec, Dec, Decimals
<1>4. TenTo[0] = 1
  BY TenToDef
<1>5. InUnitsOf(a, 0) = v
  <2>1. InUnitsOf(a, 0) = (IF v < 0 THEN -DecAbs(v) ELSE DecAbs(v)) * TenTo[0 - 0]
    BY <1>1 DEF InUnitsOf
  <2>2. QED
    BY <1>2, <1>4, <2>1
<1> HIDE DEF a
<1>6. LiteralMeaning(u, a) = Rational(u, InUnitsOf(a, 0), TenTo[-0])
  BY <1>1, <1>3, LiteralIn
<1>7. QED
  BY <1>3, <1>4, <1>5, <1>6 DEF a

\* A unit in which both are integers.
LEMMA CommonUnit ==
  ASSUME NEW a \in Decimals, NEW b \in Decimals
  PROVE  \E d \in Int : d <= 0 /\ d <= a.exp /\ d <= b.exp
<1>1. a.exp \in Int /\ b.exp \in Int
  BY DEF Decimals
<1> DEFINE l == IF a.exp < b.exp THEN a.exp ELSE b.exp
           d == IF l < 0 THEN l ELSE 0
<1>2. d \in Int /\ d <= 0 /\ d <= a.exp /\ d <= b.exp
  BY <1>1
<1>3. QED
  BY <1>2

Negative(x) == Rational(x.unit, -x.p, x.q)

\* Sums, differences and negatives of literals.
LEMMA LiteralSums ==
  ASSUME NEW u, NEW a \in Decimals, NEW b \in Decimals
  PROVE  /\ LiteralMeaning(u, ExactAdd(a, b))
              = Plus(LiteralMeaning(u, a), LiteralMeaning(u, b))
         /\ LiteralMeaning(u, ExactNeg(a)) = Negative(LiteralMeaning(u, a))
         /\ LiteralMeaning(u, ExactSub(a, b))
              = Plus(LiteralMeaning(u, a), Negative(LiteralMeaning(u, b)))
<1>1. ASSUME NEW x \in Decimals, NEW y \in Decimals
      PROVE  LiteralMeaning(u, ExactAdd(x, y)) = Plus(LiteralMeaning(u, x), LiteralMeaning(u, y))
  <2>1. PICK d \in Int : d <= 0 /\ d <= x.exp /\ d <= y.exp
    BY CommonUnit
  <2> DEFINE c == ExactAdd(x, y)
             m == InUnitsOf(x, d)
             n == InUnitsOf(y, d)
             t == TenTo[-d]
  <2>2. c \in Decimals /\ c.exp \in {0, x.exp, y.exp} /\ InUnitsOf(c, d) = m + n
    BY <2>1, AddFacts
  <2>3. d <= c.exp /\ t \in Nat \ {0}
    BY <2>1, <2>2, TenToPositive
  <2> HIDE DEF c
  <2>4. LiteralMeaning(u, c) = Rational(u, InUnitsOf(c, d), t)
    BY <2>1, <2>2, <2>3, LiteralIn
  <2>5. /\ IsRatio(LiteralMeaning(u, x), u, m, t) /\ m \in Int
        /\ IsRatio(LiteralMeaning(u, y), u, n, t) /\ n \in Int
    BY <2>1, LiteralIn
  <2> HIDE DEF m, n, t
  <2>6. Plus(LiteralMeaning(u, x), LiteralMeaning(u, y)) = Rational(u, m + n, t)
    BY <2>3, <2>5, RatioArithmetic
  <2>7. QED
    BY <2>2, <2>4, <2>6 DEF c
<1>2. ASSUME NEW x \in Decimals
      PROVE  LiteralMeaning(u, ExactNeg(x)) = Negative(LiteralMeaning(u, x))
  <2>1. PICK d \in Int : d <= 0 /\ d <= x.exp
    BY CommonUnit
  <2> DEFINE c == ExactNeg(x)
             m == InUnitsOf(x, d)
             t == TenTo[-d]
             z == LiteralMeaning(u, x)
  <2>2. c \in Decimals /\ InUnitsOf(c, d) = -m
    BY <2>1, NegFacts
  <2>3. d <= c.exp /\ t \in Nat \ {0}
    <3>1. c.exp = x.exp \/ c.exp = 0
      BY NegFacts, ZeroFacts
    <3>2. QED
      BY <2>1, <3>1, TenToPositive
  <2> HIDE DEF c
  <2>4. LiteralMeaning(u, c) = Rational(u, InUnitsOf(c, d), t)
    BY <2>1, <2>2, <2>3, LiteralIn
  <2>5. IsRatio(z, u, m, t) /\ m \in Int
    BY <2>1, LiteralIn
  <2> HIDE DEF m, t, z
  <2>6. Rational(u, -z.p, z.q) = Rational(u, -m, t) /\ z.unit = u
    BY <2>3, <2>5, RatioArithmetic DEF IsRatio
  <2>7. QED
    BY <2>2, <2>4, <2>6 DEF c, z, Negative
<1>3. ExactNeg(b) \in Decimals
  BY NegFacts
<1>4. QED
  BY <1>1, <1>2, <1>3 DEF ExactSub

\* Products of literals.
LEMMA LiteralProduct ==
  ASSUME NEW u, NEW w, NEW a \in Decimals, NEW b \in Decimals
  PROVE  LiteralMeaning(MultiplyUnit(u, w), ExactMul(a, b))
           = Times(LiteralMeaning(u, a), LiteralMeaning(w, b))
<1>1. PICK d \in Int : d <= 0 /\ d <= a.exp
  BY CommonUnit
<1>2. PICK e \in Int : e <= 0 /\ e <= b.exp
  BY CommonUnit
<1> DEFINE c == ExactMul(a, b)
           m == InUnitsOf(a, d)
           n == InUnitsOf(b, e)
           s == TenTo[-d]
           t == TenTo[-e]
           v == MultiplyUnit(u, w)
<1>3. c \in Decimals /\ c.exp \in {0, a.exp + b.exp} /\ InUnitsOf(c, d + e) = m * n
  BY <1>1, <1>2, MulFacts
<1>4. d + e \in Int /\ d + e <= 0 /\ d + e <= c.exp
  <2>1. a.exp \in Int /\ b.exp \in Int
    BY DEF Decimals
  <2>2. QED
    BY <1>1, <1>2, <1>3, <2>1
<1>5. s \in Nat \ {0} /\ t \in Nat \ {0} /\ TenTo[-(d + e)] = s * t
  <2>1. -d \in Nat /\ -e \in Nat /\ -(d + e) = (-d) + (-e)
    BY <1>1, <1>2
  <2>2. TenTo[(-d) + (-e)] = s * t
    BY <2>1, TenToAdds
  <2>3. QED
    BY <1>1, <1>2, <2>1, <2>2, TenToPositive
<1> HIDE DEF c
<1>6. LiteralMeaning(v, c) = Rational(v, m * n, s * t)
  <2>1. LiteralMeaning(v, c) = Rational(v, InUnitsOf(c, d + e), TenTo[-(d + e)])
    BY <1>3, <1>4, LiteralIn
  <2>2. QED
    BY <1>3, <1>5, <2>1
<1>7. /\ IsRatio(LiteralMeaning(u, a), u, m, s) /\ m \in Int
      /\ IsRatio(LiteralMeaning(w, b), w, n, t) /\ n \in Int
  BY <1>1, <1>2, LiteralIn
<1> HIDE DEF m, n, s, t
<1>8. Times(LiteralMeaning(u, a), LiteralMeaning(w, b)) = Rational(v, m * n, s * t)
  BY <1>5, <1>7, RatioProduct
<1>9. QED
  BY <1>6, <1>8 DEF c

\* Comparisons of literals.
LEMMA LiteralOrder ==
  ASSUME NEW u, NEW a \in Decimals, NEW b \in Decimals
  PROVE  /\ ExactCmp(a, b) \in {-1, 0, 1}
         /\ LessThan(LiteralMeaning(u, a), LiteralMeaning(u, b)) <=> ExactCmp(a, b) = -1
         /\ LessThan(LiteralMeaning(u, b), LiteralMeaning(u, a)) <=> ExactCmp(a, b) = 1
         /\ LiteralMeaning(u, a) = LiteralMeaning(u, b) <=> ExactCmp(a, b) = 0
<1>1. PICK d \in Int : d <= 0 /\ d <= a.exp /\ d <= b.exp
  BY CommonUnit
<1> DEFINE m == InUnitsOf(a, d)
           n == InUnitsOf(b, d)
           t == TenTo[-d]
           x == LiteralMeaning(u, a)
           y == LiteralMeaning(u, b)
           c == ExactCmp(a, b)
<1>2. c \in {-1, 0, 1} /\ (c = -1 <=> m < n) /\ (c = 1 <=> m > n)
  BY <1>1, CmpFacts
<1>3. /\ m \in Int /\ x = Rational(u, m, t) /\ IsRatio(x, u, m, t)
      /\ n \in Int /\ y = Rational(u, n, t) /\ IsRatio(y, u, n, t)
      /\ t \in Nat \ {0}
  BY <1>1, LiteralIn, TenToPositive
<1> HIDE DEF m, n, t, x, y, c
<1>4. (LessThan(x, y) <=> m < n) /\ (LessThan(y, x) <=> n < m)
  BY <1>3, RatioArithmetic
<1>5. x = y <=> m = n
  BY <1>3, RatioEqual
<1>6. c = 0 <=> m = n
  BY <1>2, <1>3
<1>7. QED
  BY <1>2, <1>3, <1>4, <1>5, <1>6 DEF x, y, c

LEMMA LiteralCompares ==
  ASSUME NEW u, NEW a \in Decimals, NEW b \in Decimals, NEW op
  PROVE  op \in {"<", "<=", "==", "!=", ">=", ">"} =>
           (CompareBy(op, a, b) <=> Compares(op, LiteralMeaning(u, a), LiteralMeaning(u, b)))
<1> DEFINE x == LiteralMeaning(u, a)
           y == LiteralMeaning(u, b)
           c == ExactCmp(a, b)
<1>1. /\ c \in {-1, 0, 1}
      /\ LessThan(x, y) <=> c = -1
      /\ LessThan(y, x) <=> c = 1
      /\ x = y <=> c = 0
  BY LiteralOrder
<1> HIDE DEF x, y, c
<1>2. SUFFICES ASSUME op \in {"<", "<=", "==", "!=", ">=", ">"}
               PROVE  CompareBy(op, a, b) <=> Compares(op, x, y)
  BY DEF x, y
<1>3. CompareBy(op, a, b) <=>
        CASE op = "<"  -> c < 0
          [] op = "<=" -> c <= 0
          [] op = "==" -> c = 0
          [] op = "!=" -> c # 0
          [] op = ">=" -> c >= 0
          [] op = ">"  -> c > 0
  BY DEF CompareBy, c
<1>4. CASE op = "<"
  BY <1>1, <1>3, <1>4 DEF Compares
<1>5. CASE op = "<="
  BY <1>1, <1>3, <1>5 DEF Compares
<1>6. CASE op = "=="
  BY <1>1, <1>3, <1>6 DEF Compares
<1>7. CASE op = "!="
  BY <1>1, <1>3, <1>7 DEF Compares
<1>8. CASE op = ">="
  BY <1>1, <1>3, <1>8 DEF Compares
<1>9. CASE op = ">"
  BY <1>1, <1>3, <1>9 DEF Compares
<1>10. QED
  BY <1>2, <1>4, <1>5, <1>6, <1>7, <1>8, <1>9

\* xs are the meanings of the literals kids, of the unit u.
LiteralsMean(kids, xs, u, n) ==
  /\ n \in Nat /\ Len(kids) = n
  /\ \A i \in 1..n : kids[i].num \in Decimals /\ xs[i] = LiteralMeaning(u, kids[i].num)

LEMMA CombineNumbers ==
  ASSUME NEW x, NEW y
  PROVE  /\ Combine("Add", x, y) = Plus(x, y)
         /\ Combine("Maximum", x, y) = IF LessThan(x, y) THEN y ELSE x
         /\ Combine("Minimum", x, y) = IF LessThan(y, x) THEN y ELSE x
         /\ Combine("AllOf", x, y) = Truth(x.p = 1 /\ y.p = 1)
         /\ Combine("AnyOf", x, y) = Truth(x.p = 1 \/ y.p = 1)
<1>1. Combine("Add", x, y) = Plus(x, y)
  BY DEF Combine
<1>2. Combine("Maximum", x, y) = IF LessThan(x, y) THEN y ELSE x
  BY DEF Combine
<1>3. Combine("Minimum", x, y) = IF LessThan(y, x) THEN y ELSE x
  BY DEF Combine
<1>4. Combine("AllOf", x, y) = Truth(x.p = 1 /\ y.p = 1)
  BY DEF Combine
<1>5. Combine("AnyOf", x, y) = Truth(x.p = 1 \/ y.p = 1)
  BY DEF Combine
<1>6. QED
  BY <1>1, <1>2, <1>3, <1>4, <1>5

\* _exact_sum means the sum.
LEMMA SumMeaning ==
  ASSUME NEW kids, NEW xs, NEW u, NEW n \in Nat \ {0}, LiteralsMean(kids, xs, u, n)
  PROVE  LiteralMeaning(u, SumOf(kids)) = Folded("Add", xs, n)
<1> DEFINE L(a) == LiteralMeaning(u, a)
           F(i) == Folded("Add", xs, i)
<1>1. Len(kids) = n /\ \A i \in 1..n : kids[i].num \in Decimals /\ xs[i] = L(kids[i].num)
  BY DEF LiteralsMean
<1>2. Numbered(kids)
  BY <1>1 DEF Numbered
<1>3. PICK f : SumOf(kids) = f[n] /\ Sums(kids, n, f)
  BY <1>1, <1>2, SumSteps
<1>4. F(1) = xs[1] /\ \A i \in Nat \ {0} : F(i + 1) = Plus(F(i), xs[i + 1])
  <2>1. F(1) = xs[1] /\ \A i \in Nat \ {0} : F(i + 1) = Combine("Add", F(i), xs[i + 1])
    BY FoldedSteps
  <2> HIDE DEF F
  <2>2. \A x, y : Combine("Add", x, y) = Plus(x, y)
    BY CombineNumbers
  <2>3. QED
    BY <2>1, <2>2
<1>5. \A a, b \in Decimals : L(ExactAdd(a, b)) = Plus(L(a), L(b)) /\ ExactAdd(a, b) \in Decimals
  BY LiteralSums, AddFacts
<1>6. \A b \in Decimals : ExactAdd(DecZero, b) = b
  BY ZeroFacts DEF ExactAdd
<1> HIDE DEF L, F
<1> DEFINE T == {i \in 0..n : i = 0 \/ (f[i] \in Decimals /\ L(f[i]) = F(i))}
<1>7. 0 \in T
  OBVIOUS
<1>8. ASSUME NEW i \in 0..(n - 1), i \in T PROVE i + 1 \in T
  <2>1. i + 1 \in 1..n /\ i + 1 \in 0..n /\ i \in Nat
    OBVIOUS
  <2>2. f[i + 1] = ExactAdd(f[i], kids[i + 1].num)
    BY <1>3 DEF Sums
  <2>3. kids[i + 1].num \in Decimals /\ xs[i + 1] = L(kids[i + 1].num)
    BY <1>1, <2>1
  <2>4. CASE i = 0
    <3>1. f[i] = DecZero /\ i + 1 = 1
      BY <1>3, <2>4 DEF Sums
    <3>2. f[i + 1] = kids[i + 1].num
      BY <1>6, <2>2, <2>3, <3>1
    <3>3. F(i + 1) = xs[i + 1]
      BY <1>4, <3>1
    <3>4. QED
      BY <2>1, <2>3, <3>2, <3>3
  <2>5. CASE i # 0
    <3>1. f[i] \in Decimals /\ L(f[i]) = F(i) /\ i \in Nat \ {0}
      BY <1>8, <2>1, <2>5
    <3>2. F(i + 1) = Plus(F(i), xs[i + 1])
      BY <1>4, <3>1
    <3>3. f[i + 1] \in Decimals /\ L(f[i + 1]) = Plus(L(f[i]), L(kids[i + 1].num))
      BY <1>5, <2>2, <2>3, <3>1
    <3>4. QED
      BY <2>1, <2>3, <3>1, <3>2, <3>3
  <2>6. QED
    BY <2>4, <2>5
<1> HIDE DEF T
<1>9. n \in T
  <2>1. 0..n \subseteq T
    BY <1>7, <1>8, Climb
  <2>2. QED
    BY <2>1
<1>10. L(f[n]) = F(n)
  BY <1>9 DEF T
<1>11. QED
  BY <1>3, <1>10 DEF L, F



LEMMA TruthValue ==
  ASSUME NEW b \in BOOLEAN
  PROVE  (Truth(b).p = 1 <=> b) /\ (Truth(b).p = 0 <=> ~b)
BY DEF Truth, Meaning

\* xs are the truths of the constants kids.
ConstantsMean(kids, xs, n) ==
  /\ n \in Nat /\ Len(kids) = n
  /\ \A i \in 1..n : xs[i] = Truth(kids[i].val = 1)

\* Constants are folded to what they mean together.
LEMMA BooleanMeaning ==
  ASSUME NEW kids, NEW xs, NEW n \in Nat \ {0}, ConstantsMean(kids, xs, n)
  PROVE  /\ Truth(\A i \in 1..n : kids[i].val = 1) = Folded("AllOf", xs, n)
         /\ Truth(\E i \in 1..n : kids[i].val = 1) = Folded("AnyOf", xs, n)
<1> DEFINE B(i) == kids[i].val = 1
           All(i) == Folded("AllOf", xs, i)
           Some(i) == Folded("AnyOf", xs, i)
<1>1. \A i \in 1..n : xs[i] = Truth(B(i))
  BY DEF ConstantsMean
<1>2. /\ All(1) = xs[1] /\ \A i \in Nat \ {0} : All(i + 1) = Truth(All(i).p = 1 /\ xs[i + 1].p = 1)
      /\ Some(1) = xs[1] /\ \A i \in Nat \ {0} : Some(i + 1) = Truth(Some(i).p = 1 \/ xs[i + 1].p = 1)
  <2>1. /\ All(1) = xs[1] /\ \A i \in Nat \ {0} : All(i + 1) = Combine("AllOf", All(i), xs[i + 1])
        /\ Some(1) = xs[1] /\ \A i \in Nat \ {0} : Some(i + 1) = Combine("AnyOf", Some(i), xs[i + 1])
    BY FoldedSteps
  <2> HIDE DEF All, Some
  <2>2. \A x, y : Combine("AllOf", x, y) = Truth(x.p = 1 /\ y.p = 1)
    BY CombineNumbers
  <2>3. \A x, y : Combine("AnyOf", x, y) = Truth(x.p = 1 \/ y.p = 1)
    BY CombineNumbers
  <2>4. QED
    BY <2>1, <2>2, <2>3
<1>3. \A b \in BOOLEAN : Truth(b).p = 1 <=> b
  BY TruthValue
<1>4. \A i : B(i) \in BOOLEAN
  OBVIOUS
<1> HIDE DEF B, All, Some
<1> DEFINE T == {i \in 0..n : i = 0 \/ (/\ All(i) = Truth(\A j \in 1..i : B(j))
                                        /\ Some(i) = Truth(\E j \in 1..i : B(j)))}
<1>7. 0 \in T
  OBVIOUS
<1>8. ASSUME NEW i \in 0..(n - 1), i \in T PROVE i + 1 \in T
  <2>1. i + 1 \in 1..n /\ i + 1 \in 0..n /\ i \in Nat
    OBVIOUS
  <2>2. xs[i + 1] = Truth(B(i + 1)) /\ (xs[i + 1].p = 1 <=> B(i + 1))
    BY <1>1, <1>3, <1>4, <2>1
  <2> DEFINE all == \A j \in 1..i : B(j)
             any == \E j \in 1..i : B(j)
             allNext == \A j \in 1..(i + 1) : B(j)
             anyNext == \E j \in 1..(i + 1) : B(j)
  <2>3. 1..(i + 1) = (1..i) \cup {i + 1}
    BY <2>1
  <2>4. (allNext <=> all /\ B(i + 1)) /\ (anyNext <=> any \/ B(i + 1))
    BY <2>3
  <2>5. CASE i = 0
    <3>1. all /\ ~any /\ i + 1 = 1
      BY <2>5
    <3>2. (allNext = B(i + 1)) /\ (anyNext = B(i + 1))
      BY <1>4, <2>4, <3>1
    <3> HIDE DEF allNext, anyNext
    <3>3. All(i + 1) = Truth(allNext) /\ Some(i + 1) = Truth(anyNext)
      BY <1>2, <2>2, <3>1, <3>2
    <3>4. QED
      BY <2>1, <3>3 DEF allNext, anyNext
  <2>6. CASE i # 0
    <3>1. All(i) = Truth(all) /\ Some(i) = Truth(any) /\ i \in Nat \ {0}
      BY <1>8, <2>1, <2>6
    <3>2. all \in BOOLEAN /\ any \in BOOLEAN
      OBVIOUS
    <3> HIDE DEF all, any
    <3>3. (All(i).p = 1 <=> all) /\ (Some(i).p = 1 <=> any)
      BY <1>3, <3>1, <3>2
    <3>4. /\ All(i + 1) = Truth(All(i).p = 1 /\ xs[i + 1].p = 1)
          /\ Some(i + 1) = Truth(Some(i).p = 1 \/ xs[i + 1].p = 1)
      BY <1>2, <3>1
    <3>5. /\ (All(i).p = 1 /\ xs[i + 1].p = 1) = allNext
          /\ (Some(i).p = 1 \/ xs[i + 1].p = 1) = anyNext
      BY <2>2, <2>4, <3>3
    <3> HIDE DEF allNext, anyNext
    <3>6. All(i + 1) = Truth(allNext) /\ Some(i + 1) = Truth(anyNext)
      BY <3>4, <3>5
    <3>7. QED
      BY <2>1, <3>6 DEF allNext, anyNext
  <2>7. QED
    BY <2>5, <2>6
<1> HIDE DEF T
<1>9. n \in T
  <2>1. 0..n \subseteq T
    BY <1>7, <1>8, Climb
  <2>2. QED
    BY <2>1
<1>10. All(n) = Truth(\A j \in 1..n : B(j)) /\ Some(n) = Truth(\E j \in 1..n : B(j))
  BY <1>9 DEF T
<1>11. QED
  BY <1>10 DEF B, All, Some

-----------------------------------------------------------------------------
(* Sums of integer literals, and integers as fractions.                    *)

\* Literals that are integers.
IntegerLiterals(kids) ==
  /\ Len(kids) \in Nat
  /\ \A i \in 1..Len(kids) : kids[i].num \in Decimals /\ kids[i].num.exp >= 0

LEMMA SumOfIntegers ==
  ASSUME NEW kids, IntegerLiterals(kids)
  PROVE  SumOf(kids) \in Decimals /\ SumOf(kids).exp >= 0
<1> DEFINE n == Len(kids)
<1>1. n \in Nat /\ \A i \in 1..n : kids[i].num \in Decimals /\ kids[i].num.exp >= 0
  BY DEF IntegerLiterals
<1>2. PICK f : SumOf(kids) = f[n] /\ Sums(kids, n, f)
  BY <1>1, SumSteps DEF Numbered
<1> HIDE DEF n
<1> DEFINE T == {i \in 0..n : f[i] \in Decimals /\ f[i].exp >= 0}
<1>3. 0 \in T
  BY <1>1, <1>2, ZeroFacts DEF Sums
<1>4. ASSUME NEW i \in 0..(n - 1), i \in T PROVE i + 1 \in T
  <2>1. i + 1 \in 1..n /\ i + 1 \in 0..n
    BY <1>1
  <2>2. f[i + 1] = ExactAdd(f[i], kids[i + 1].num)
    BY <1>2 DEF Sums
  <2>3. f[i + 1] \in Decimals /\ f[i + 1].exp \in {0, f[i].exp, kids[i + 1].num.exp}
    BY <1>1, <1>4, <2>1, <2>2, AddFacts
  <2>4. QED
    BY <1>1, <1>4, <2>1, <2>3
<1> HIDE DEF T
<1>5. n \in T
  <2>1. 0..n \subseteq T
    BY <1>1, <1>3, <1>4, Climb
  <2>2. QED
    BY <1>1, <2>1
<1>6. QED
  BY <1>2, <1>5 DEF T

\* An integer over one is itself.
LEMMA RationalInteger ==
  ASSUME NEW u, NEW v \in Int
  PROVE  /\ Rational(u, v, 1).kind = "number"
         /\ Rational(u, v, 1).p = v /\ Rational(u, v, 1).q = 1
<1> DEFINE P(k) == (v * k) % 1 = 0 /\ \A j \in 1..(k - 1) : (v * j) % 1 # 0
           q == CHOOSE k \in 1..1 : P(k)
<1>1. P(1)
  OBVIOUS
<1>2. q \in 1..1
  BY <1>1
<1>3. q = 1
  BY <1>2
<1> HIDE DEF q
<1>4. Rational(u, v, 1) = [Meaning("number") EXCEPT !.unit = u, !.p = (v * q) \div 1, !.q = q]
  BY DEF Rational, SemAbs, q
<1>5. (v * q) \div 1 = v
  BY <1>3
<1>6. QED
  BY <1>3, <1>4, <1>5 DEF Meaning

-----------------------------------------------------------------------------
(* Lists of ids that agree up to their order: for every bound, as many of  *)
(* their entries are within it.  The count is a sum, so that the lemmas on *)
(* merged and rearranged operands apply to it.                             *)

Whole(n) == Rational("scalar", n, 1)

\* One for an id up to x.
Tally(x) == [id \in Nat |-> Whole(IF id <= x THEN 1 ELSE 0)]

\* The number of the ids up to x.
CountUpTo(x, ids) == FoldOf("Add", Tally(x), ids)

UpTo(x, s, n) == {i \in 1..n : s[i] <= x}

LEMMA WholeFields ==
  ASSUME NEW n \in Int
  PROVE  /\ IsNumberOf(Whole(n), "scalar")
         /\ Whole(n).p = n /\ Whole(n).q = 1 /\ Whole(n).unit = "scalar"
<1>1. IsNumberOf(Whole(n), "scalar")
  BY ARational DEF Whole
<1>2. SemAbs(1) = 1 /\ ~(1 < 0)
  BY DEF SemAbs
<1>3. (CHOOSE k \in 1..1 : /\ (n * k) % 1 = 0
                           /\ \A j \in 1..(k - 1) : (n * j) % 1 # 0) = 1
  <2>1. (n * 1) % 1 = 0 /\ \A j \in 1..(1 - 1) : (n * j) % 1 # 0
    OBVIOUS
  <2>2. \A k \in 1..1 : k = 1
    OBVIOUS
  <2>3. 1 \in 1..1
    OBVIOUS
  <2>4. QED
    BY <2>1, <2>2, <2>3
<1>4. (n * 1) \div 1 = n
  OBVIOUS
<1>5. QED
  BY <1>1, <1>2, <1>3, <1>4 DEF Whole, Rational, Meaning

LEMMA WholeSum ==
  ASSUME NEW a \in Int, NEW b \in Int
  PROVE  Combine("Add", Whole(a), Whole(b)) = Whole(a + b)
<1> DEFINE x == Whole(a)
           y == Whole(b)
<1>1. x.p = a /\ x.q = 1 /\ x.unit = "scalar" /\ y.p = b /\ y.q = 1
  BY WholeFields
<1> HIDE DEF x, y
<1>2. a * 1 + b * 1 = a + b /\ 1 * 1 = 1
  OBVIOUS
<1>3. Plus(x, y) = Whole(a + b)
  BY <1>1, <1>2 DEF Plus, Whole
<1>4. QED
  BY <1>3 DEF Combine, x, y

\* vs is one for each entry of s up to x.
Tallied(vs, x, s, n) == \A i \in 1..n : vs[i] = Whole(IF s[i] <= x THEN 1 ELSE 0)
Numbers(s, n) == \A i \in 1..n : s[i] \in Nat

\* Up to here, the sum of the tallies is the number of the entries.
Counted(vs, x, s, k) ==
  /\ IsFiniteSet(UpTo(x, s, k)) /\ Cardinality(UpTo(x, s, k)) \in Nat
  /\ Folded("Add", vs, k) = Whole(Cardinality(UpTo(x, s, k)))

LEMMA CountIsCardinality ==
  ASSUME NEW x \in Nat, NEW n \in Nat \ {0}, NEW s, Numbers(s, n),
         NEW vs, Tallied(vs, x, s, n)
  PROVE  Counted(vs, x, s, n)
<1> DEFINE T == {k \in Nat : k \in 1..n => Counted(vs, x, s, k)}
<1>1. 0 \in T
  OBVIOUS
<1>2. ASSUME NEW i \in Nat, i \in T PROVE i + 1 \in T
  <2>1. SUFFICES ASSUME i + 1 \in 1..n PROVE Counted(vs, x, s, i + 1)
    OBVIOUS
  <2> DEFINE w == IF s[i + 1] <= x THEN 1 ELSE 0
             old == UpTo(x, s, i)
  <2>2. s[i + 1] \in Nat /\ w \in Int /\ vs[i + 1] = Whole(w)
    BY <2>1 DEF Numbers, Tallied
  <2>3. UpTo(x, s, i + 1) = IF s[i + 1] <= x THEN old \cup {i + 1} ELSE old
    BY <2>1 DEF UpTo
  <2>4. i + 1 \notin old
    BY DEF UpTo
  <2>5. ASSUME IsFiniteSet(old), Cardinality(old) \in Nat
        PROVE  /\ IsFiniteSet(UpTo(x, s, i + 1))
               /\ Cardinality(UpTo(x, s, i + 1)) = Cardinality(old) + w
               /\ Cardinality(old) + w \in Nat
    <3>1. IsFiniteSet(old \cup {i + 1}) /\ Cardinality(old \cup {i + 1}) = Cardinality(old) + 1
      BY <2>4, <2>5, FS_AddElement
    <3>2. QED
      BY <2>3, <2>5, <3>1
  <2>6. CASE i = 0
    <3>1. old = {}
      BY <2>6 DEF UpTo
    <3>2. IsFiniteSet(old) /\ Cardinality(old) = 0
      BY <3>1, FS_EmptySet
    <3>3. /\ IsFiniteSet(UpTo(x, s, i + 1)) /\ Cardinality(UpTo(x, s, i + 1)) = w
          /\ w \in Nat
      BY <2>2, <2>5, <3>2
    <3>4. Folded("Add", vs, i + 1) = vs[1] /\ vs[1] = Whole(w)
      BY <2>2, <2>6, FoldedSteps
    <3> HIDE DEF w
    <3>5. QED
      BY <3>3, <3>4 DEF Counted
  <2>7. CASE i # 0
    <3>1. i \in Nat \ {0} /\ i \in 1..n
      BY <2>1, <2>7
    <3>2. Counted(vs, x, s, i)
      BY <1>2, <3>1
    <3>3. Folded("Add", vs, i + 1) = Combine("Add", Whole(Cardinality(old)), Whole(w))
      BY <2>2, <3>1, <3>2, FoldedSteps DEF Counted
    <3>4. /\ IsFiniteSet(UpTo(x, s, i + 1))
          /\ Cardinality(UpTo(x, s, i + 1)) = Cardinality(old) + w
          /\ Cardinality(old) + w \in Nat /\ Cardinality(old) \in Int
      BY <2>5, <3>2 DEF Counted
    <3> HIDE DEF w, old
    <3>5. Folded("Add", vs, i + 1) = Whole(Cardinality(old) + w)
      BY <2>2, <3>3, <3>4, WholeSum
    <3>6. QED
      BY <3>4, <3>5 DEF Counted
  <2>8. QED
    BY <2>6, <2>7
<1> HIDE DEF T
<1>3. \A i \in Nat : i \in T
  BY <1>1, <1>2, CountsUp
<1>4. n \in Nat /\ n \in 1..n
  OBVIOUS
<1>5. QED
  BY <1>3, <1>4 DEF T

LEMMA NaturalList ==
  ASSUME NEW ids \in NonEmptySeqs(Nat)
  PROVE  /\ ids \in Seq(Nat) /\ Len(ids) \in Nat \ {0}
         /\ Numbers(ids, Len(ids))
<1>1. ids \in Seq(Nat) /\ ids # << >>
  BY DEF NonEmptySeqs
<1>2. QED
  BY <1>1, LenProperties, EmptySeq, ElementOfSeq DEF Numbers

LEMMA CountOf ==
  ASSUME NEW x \in Nat, NEW ids \in NonEmptySeqs(Nat)
  PROVE  /\ IsFiniteSet(UpTo(x, ids, Len(ids))) /\ Cardinality(UpTo(x, ids, Len(ids))) \in Nat
         /\ CountUpTo(x, ids) = Whole(Cardinality(UpTo(x, ids, Len(ids))))
         /\ IsNumberOf(CountUpTo(x, ids), "scalar")
<1> DEFINE n == Len(ids)
           vs == ValuesAt(Tally(x), ids)
<1>1. n \in Nat \ {0} /\ Numbers(ids, n)
  BY NaturalList
<1>2. \A i \in 1..n : vs[i] = Tally(x)[ids[i]]
  BY <1>1, ValuesFacts
<1> HIDE DEF n, vs
<1>3. Tallied(vs, x, ids, n)
  BY <1>1, <1>2 DEF Tallied, Tally, Numbers
<1>4. Counted(vs, x, ids, n)
  BY <1>1, <1>3, CountIsCardinality
<1>5. CountUpTo(x, ids) = Folded("Add", vs, n)
  BY DEF CountUpTo, FoldOf, n, vs
<1>6. Cardinality(UpTo(x, ids, n)) \in Int
  BY <1>4 DEF Counted
<1>7. QED
  BY <1>4, <1>5, <1>6, WholeFields DEF Counted, n

\* The tallies can be added up.
LEMMA TallyAdds ==
  ASSUME NEW x \in Nat
  PROVE  CombinableOn(Nat, "Add", "scalar", Tally(x))
<1>1. \A id \in Nat : Tally(x)[id] = Whole(IF id <= x THEN 1 ELSE 0)
  BY DEF Tally
<1>2. QED
  BY <1>1, WholeFields DEF CombinableOn, Combinable

\* Sorting does not change a count.
LEMMA CountSorted ==
  ASSUME NEW x \in Nat, NEW ids \in NonEmptySeqs(Nat)
  PROVE  CountUpTo(x, SortedIds(ids)) = CountUpTo(x, ids)
<1> DEFINE n == Len(ids)
           sorted == SortedIds(ids)
           D == Tally(x)
<1>1. n \in Nat \ {0} /\ ids \in Seq(Nat) /\ Numbers(ids, n)
  BY NaturalList
<1>2. PICK m : Rearranges(m, n, sorted, ids)
  BY <1>1, SortedRearranges
<1>3. sorted \in Seq(Nat) /\ Len(sorted) = n
  BY <1>1, SortedFacts
<1> HIDE DEF sorted, n
<1>4. /\ \A i \in 1..n : ValuesAt(D, sorted)[i] = D[sorted[i]]
      /\ \A i \in 1..n : ValuesAt(D, ids)[i] = D[ids[i]]
  <2>1. Len(sorted) \in Nat /\ Len(ids) \in Nat
    BY <1>1, <1>3 DEF n
  <2> HIDE DEF D
  <2>2. /\ \A i \in 1..Len(sorted) : ValuesAt(D, sorted)[i] = D[sorted[i]]
        /\ \A i \in 1..Len(ids) : ValuesAt(D, ids)[i] = D[ids[i]]
    BY <2>1, ValuesFacts
  <2>3. QED
    BY <1>3, <2>2 DEF n
<1>5. CombinableOn(Nat, "Add", "scalar", D)
  BY TallyAdds
<1> HIDE DEF D
<1>6. Operable("Add", "scalar", ValuesAt(D, ids), n)
  BY <1>1, <1>4, <1>5 DEF Operable, CombinableOn, Numbers
<1>7. Rearranges(m, n, ValuesAt(D, sorted), ValuesAt(D, ids))
  BY <1>2, <1>4 DEF Rearranges
<1>8. Folded("Add", ValuesAt(D, sorted), n) = Folded("Add", ValuesAt(D, ids), n)
  <2>1. "Add" \in MergedTypes
    BY DEF MergedTypes, CollectionTypes
  <2>2. QED
    BY <1>1, <1>6, <1>7, <2>1, FoldedRearranged
<1>9. QED
  BY <1>3, <1>8 DEF CountUpTo, FoldOf, D, n, sorted

\* Of two ascending lists with the same counts, neither falls behind.
LEMMA NoneBehind ==
  ASSUME NEW n \in Nat, NEW p, Ascending(p, n), NEW q, Ascending(q, n),
         NEW i \in 1..n, p[i] < q[i],
         Cardinality(UpTo(p[i], p, n)) = Cardinality(UpTo(p[i], q, n))
  PROVE  FALSE
<1> DEFINE x == p[i]
<1>1. x \in Nat /\ q[i] \in Nat /\ \A j \in 1..n : p[j] \in Nat /\ q[j] \in Nat
  BY DEF Ascending
<1>2. \A j \in 1..i : p[j] <= x
  <2>1. ASSUME NEW j \in 1..i PROVE p[j] <= p[i]
    <3>1. j \in 1..n /\ i \in j..n
      OBVIOUS
    <3>2. QED
      BY <3>1, AscendingFar
  <2>2. QED
    BY <2>1
<1>3. \A j \in i..n : ~(q[j] <= x)
  <2>1. ASSUME NEW j \in i..n PROVE q[i] <= q[j]
    BY AscendingFar
  <2>2. QED
    BY <1>1, <2>1
<1> HIDE DEF x
<1>4. 1..i \subseteq UpTo(x, p, n) /\ UpTo(x, p, n) \subseteq 1..n
  BY <1>2 DEF UpTo
<1>5. UpTo(x, q, n) \subseteq 1..(i - 1)
  <2>1. ASSUME NEW j \in UpTo(x, q, n) PROVE j \in 1..(i - 1)
    BY <1>3 DEF UpTo
  <2>2. QED
    BY <2>1
<1>6. /\ IsFiniteSet(1..n) /\ IsFiniteSet(1..i) /\ IsFiniteSet(1..(i - 1))
      /\ Cardinality(1..i) = i /\ Cardinality(1..(i - 1)) = i - 1
  BY FS_Interval
<1>7. IsFiniteSet(UpTo(x, p, n)) /\ i <= Cardinality(UpTo(x, p, n))
  BY <1>4, <1>6, FS_Subset
<1>8. Cardinality(UpTo(x, q, n)) <= i - 1 /\ Cardinality(UpTo(x, q, n)) \in Nat
  BY <1>5, <1>6, FS_Subset, FS_CardinalityType
<1>9. QED
  BY <1>7, <1>8 DEF x

LEMMA SortedAscends ==
  ASSUME NEW ids \in NonEmptySeqs(Nat)
  PROVE  /\ SortedIds(ids) \in NonEmptySeqs(Nat)
         /\ Len(SortedIds(ids)) = Len(ids) /\ Len(ids) \in Nat \ {0}
         /\ Ascending(SortedIds(ids), Len(ids))
<1> DEFINE s == SortedIds(ids)
           n == Len(ids)
<1>1. ids \in Seq(Nat) /\ n \in Nat \ {0}
  BY NaturalList
<1>2. s \in Seq(Nat) /\ Len(s) = n /\ \A i \in 1..(n - 1) : s[i] <= s[i + 1]
  BY <1>1, SortedFacts
<1> HIDE DEF s, n
<1>3. s \in [1..n -> Nat] /\ s # << >>
  BY <1>1, <1>2, LenProperties, EmptySeq
<1>4. QED
  BY <1>1, <1>2, <1>3 DEF Ascending, NonEmptySeqs, s, n

LEMMA SameEntries ==
  ASSUME NEW S, NEW a \in [S -> Nat], NEW b \in [S -> Nat],
         \A i \in S : a[i] = b[i]
  PROVE  a = b
OBVIOUS

\* Lists with the same counts are one list when they are sorted.
SameCounts(a, b) == \A x \in Nat : CountUpTo(x, a) = CountUpTo(x, b)

LEMMA SortedByCount ==
  ASSUME NEW a \in NonEmptySeqs(Nat), NEW b \in NonEmptySeqs(Nat), SameCounts(a, b)
  PROVE  SortedIds(a) = SortedIds(b)
<1> DEFINE p == SortedIds(a)
           q == SortedIds(b)
           n == Len(a)
           k == Len(b)
           S(x) == UpTo(x, p, n)
           R(x) == UpTo(x, q, k)
<1>1. /\ p \in NonEmptySeqs(Nat) /\ Len(p) = n /\ n \in Nat \ {0} /\ Ascending(p, n)
      /\ q \in NonEmptySeqs(Nat) /\ Len(q) = k /\ k \in Nat \ {0} /\ Ascending(q, k)
  BY SortedAscends
<1>2. \A x \in Nat : CountUpTo(x, p) = CountUpTo(x, q)
  BY CountSorted DEF SameCounts
<1> HIDE DEF p, q, n, k
<1>3. ASSUME NEW x \in Nat
      PROVE  Cardinality(S(x)) = Cardinality(R(x))
  <2> DEFINE c == Cardinality(S(x))
             d == Cardinality(R(x))
  <2>1. CountUpTo(x, p) = Whole(c) /\ c \in Nat
    BY <1>1, CountOf
  <2>2. CountUpTo(x, q) = Whole(d) /\ d \in Nat
    BY <1>1, CountOf
  <2>3. Whole(c) = Whole(d)
    BY <1>2, <2>1, <2>2
  <2> HIDE DEF c, d
  <2>4. Whole(c).p = c /\ Whole(d).p = d
    BY <2>1, <2>2, WholeFields
  <2>5. QED
    BY <2>3, <2>4 DEF c, d
<1>4. n = k
  <2> DEFINE x == p[n] + q[k]
  <2>1. p[n] \in Nat /\ q[k] \in Nat /\ x \in Nat
    BY <1>1 DEF Ascending
  <2>2. \A i \in 1..n : p[i] \in Nat /\ p[i] <= p[n]
    <3>1. ASSUME NEW i \in 1..n PROVE p[i] <= p[n]
      <4>1. n \in i..n
        BY <1>1
      <4>2. QED
        BY <1>1, <4>1, AscendingFar
    <3>2. QED
      BY <1>1, <3>1 DEF Ascending
  <2>3. \A i \in 1..k : q[i] \in Nat /\ q[i] <= q[k]
    <3>1. ASSUME NEW i \in 1..k PROVE q[i] <= q[k]
      <4>1. k \in i..k
        BY <1>1
      <4>2. QED
        BY <1>1, <4>1, AscendingFar
    <3>2. QED
      BY <1>1, <3>1 DEF Ascending
  <2>4. S(x) = 1..n /\ R(x) = 1..k
    BY <2>1, <2>2, <2>3 DEF UpTo
  <2>5. Cardinality(1..n) = n /\ Cardinality(1..k) = k
    BY <1>1, FS_Interval
  <2>6. Cardinality(S(x)) = Cardinality(R(x))
    BY <1>3, <2>1
  <2>7. QED
    BY <2>4, <2>5, <2>6
<1>5. ASSUME NEW i \in 1..n PROVE p[i] = q[i]
  <2>1. p[i] \in Nat /\ q[i] \in Nat
    BY <1>1, <1>4 DEF Ascending
  <2>2. Cardinality(UpTo(p[i], p, n)) = Cardinality(UpTo(p[i], q, n))
    BY <1>3, <1>4, <2>1
  <2>3. Cardinality(UpTo(q[i], q, n)) = Cardinality(UpTo(q[i], p, n))
    BY <1>3, <1>4, <2>1
  <2>4. ~(p[i] < q[i])
    BY <1>1, <1>4, <2>2, NoneBehind
  <2>5. ~(q[i] < p[i])
    BY <1>1, <1>4, <2>3, NoneBehind
  <2>6. QED
    BY <2>1, <2>4, <2>5
<1>6. p \in [1..n -> Nat] /\ q \in [1..n -> Nat]
  BY <1>1, <1>4 DEF Ascending
<1>7. p = q
  <2>1. \A i \in 1..n : p[i] = q[i]
    BY <1>5
  <2>2. QED
    BY <1>6, <2>1, SameEntries
<1>8. QED
  BY <1>7 DEF p, q

\* Two ways to merge runs count the same if they count the same run by run.
LEMMA SameCountRuns ==
  ASSUME NEW x \in Nat, NEW S, NEW W, CombinableOn(S, "Add", "scalar", W),
         NEW ss, ss \in NonEmptySeqs(NonEmptySeqs(Nat)),
         NEW tt, tt \in NonEmptySeqs(NonEmptySeqs(S)), Len(tt) = Len(ss),
         \A i \in 1..Len(ss) : CountUpTo(x, ss[i]) = FoldOf("Add", W, tt[i])
  PROVE  CountUpTo(x, FlattenSeq(ss)) = FoldOf("Add", W, FlattenSeq(tt))
<1> DEFINE xs == [i \in 1..Len(ss) |-> FoldOf("Add", W, tt[i])]
           D == Tally(x)
<1>1. /\ \A i \in 1..Len(ss) : xs[i] = FoldOf("Add", D, ss[i])
      /\ \A i \in 1..Len(tt) : xs[i] = FoldOf("Add", W, tt[i])
  BY DEF CountUpTo
<1>2. CombinableOn(Nat, "Add", "scalar", D)
  BY TallyAdds
<1>3. "Add" \in MergedTypes
  BY DEF MergedTypes, CollectionTypes
<1> HIDE DEF xs, D
<1>4. FoldOf("Add", D, FlattenSeq(ss)) = Folded("Add", xs, Len(ss))
  BY <1>1, <1>2, <1>3, FlattenFolded
<1>5. FoldOf("Add", W, FlattenSeq(tt)) = Folded("Add", xs, Len(tt))
  BY <1>1, <1>3, FlattenFolded
<1>6. QED
  BY <1>4, <1>5 DEF CountUpTo, D
=============================================================================
