------------------------- MODULE DecimalChainProofs -------------------------
(***************************************************************************)
(* Constant folding is exact and canonical, for every chain of operations, *)
(* every bound on the digits and every range of exponents.  The invariant  *)
(* says no more than that a chain goes on from a literal; that a literal   *)
(* of the same worth is the same literal is StrippedUnique.                *)
(***************************************************************************)
EXTENDS DecimalChain, DecimalLemmas

ChainInv ==
  /\ left \in Literals /\ right \in Literals
  /\ op \in {"+", "-", "*"}
  /\ exact = Exactly(op, left, right)

IsLiteralValue(x) ==
  /\ x \in Decimals /\ Stripped(x)
  /\ x.exp \in ExpMin..ExpMax
  /\ x.coeff < TenTo[MaxCoeffDigits]

\* The literals are the stripped decimals within the bounds.
LEMMA LiteralFacts ==
  ASSUME NEW x
  PROVE  x \in Literals <=> IsLiteralValue(x)
<1>0. /\ ExpMin \in Int /\ ExpMax \in Int /\ 0 \in ExpMin..ExpMax
      /\ TenTo[MaxCoeffDigits] \in Nat \ {0}
  BY DecimalAssumption, TenToDef
<1>1. ASSUME x \in Literals PROVE IsLiteralValue(x)
  <2>1. CASE x = DecZero
    BY <1>0, <2>1, ZeroFacts DEF IsLiteralValue, Stripped
  <2>2. CASE x # DecZero
    <3>1. PICK neg \in BOOLEAN, e \in ExpMin..ExpMax,
               c \in {k \in 1..(TenTo[MaxCoeffDigits] - 1) : k % 10 # 0} :
                 x = Dec(neg, c, e)
      BY <1>1, <2>2 DEF Literals
    <3>2. c \in Nat /\ c < TenTo[MaxCoeffDigits] /\ c % 10 # 0 /\ e \in Int
      BY <1>0, <3>1
    <3>3. x \in Decimals
      BY <3>1, <3>2 DEF Dec, Decimals
    <3>4. x.coeff = c /\ x.exp = e
      BY <3>1, DecFacts
    <3>5. QED
      BY <3>1, <3>2, <3>3, <3>4 DEF IsLiteralValue, Stripped
  <2>3. QED
    BY <2>1, <2>2
<1>2. ASSUME IsLiteralValue(x) PROVE x \in Literals
  <2>1. CASE x = DecZero
    BY <2>1 DEF Literals
  <2>2. CASE x # DecZero
    <3>1. x \in Decimals /\ x.coeff % 10 # 0 /\ x.exp \in ExpMin..ExpMax
      BY <1>2, <2>2 DEF IsLiteralValue, Stripped
    <3>2. x = Dec(x.neg, x.coeff, x.exp) /\ x.neg \in BOOLEAN /\ x.coeff \in Nat
      BY <3>1 DEF Decimals, Dec
    <3>3. x.coeff # 0 /\ x.coeff < TenTo[MaxCoeffDigits]
      <4>1. 0 % 10 = 0
        OBVIOUS
      <4>2. QED
        BY <1>2, <3>1, <4>1 DEF IsLiteralValue
    <3>4. x.coeff \in {k \in 1..(TenTo[MaxCoeffDigits] - 1) : k % 10 # 0}
      BY <1>0, <3>1, <3>2, <3>3
    <3>5. QED
      BY <3>1, <3>2, <3>4 DEF Literals
  <2>3. QED
    BY <2>1, <2>2
<1>3. QED
  BY <1>1, <1>2

Smallest == 2 * ExpMin

\* Every exact value can be measured in the smallest unit.
LEMMA ExactFacts ==
  ASSUME NEW a \in Literals, NEW b \in Literals, NEW o \in {"+", "-", "*"}
  PROVE  LET x == Exactly(o, a, b) IN
         /\ x \in Decimals /\ Smallest <= x.exp
         /\ Worth(x) = CASE o = "+" -> Worth(a) + Worth(b)
                         [] o = "-" -> Worth(a) - Worth(b)
                         [] o = "*" -> InUnitsOf(a, ExpMin) * InUnitsOf(b, ExpMin)
<1>0. ExpMin \in Int /\ ExpMin <= 0 /\ Smallest \in Int /\ Smallest <= 0
      /\ Smallest = ExpMin + ExpMin /\ Smallest <= ExpMin
  BY DecimalAssumption DEF Smallest
<1>1. /\ a \in Decimals /\ a.exp \in Int /\ ExpMin <= a.exp /\ Smallest <= a.exp
      /\ b \in Decimals /\ b.exp \in Int /\ ExpMin <= b.exp /\ Smallest <= b.exp
  BY <1>0, LiteralFacts, DecimalAssumption DEF IsLiteralValue
<1>2. CASE o = "+"
  <2>1. Exactly(o, a, b) = ExactAdd(a, b)
    BY <1>2 DEF Exactly
  <2>2. /\ ExactAdd(a, b) \in Decimals
        /\ ExactAdd(a, b).exp \in {0, a.exp, b.exp}
        /\ InUnitsOf(ExactAdd(a, b), Smallest) = InUnitsOf(a, Smallest) + InUnitsOf(b, Smallest)
    BY <1>0, <1>1, AddFacts
  <2>3. QED
    BY <1>0, <1>1, <1>2, <2>1, <2>2 DEF Worth, Smallest
<1>3. CASE o = "-"
  <2>1. Exactly(o, a, b) = ExactSub(a, b)
    BY <1>3 DEF Exactly
  <2>2. /\ ExactSub(a, b) \in Decimals
        /\ ExactSub(a, b).exp \in {0, a.exp, b.exp}
        /\ InUnitsOf(ExactSub(a, b), Smallest) = InUnitsOf(a, Smallest) - InUnitsOf(b, Smallest)
    BY <1>0, <1>1, SubFacts
  <2>3. QED
    BY <1>0, <1>1, <1>3, <2>1, <2>2 DEF Worth, Smallest
<1>4. CASE o = "*"
  <2>1. Exactly(o, a, b) = ExactMul(a, b)
    BY <1>4 DEF Exactly
  <2>2. /\ ExactMul(a, b) \in Decimals
        /\ ExactMul(a, b).exp \in {0, a.exp + b.exp}
        /\ InUnitsOf(ExactMul(a, b), ExpMin + ExpMin)
             = InUnitsOf(a, ExpMin) * InUnitsOf(b, ExpMin)
    BY <1>0, <1>1, MulFacts
  <2>3. Smallest <= ExactMul(a, b).exp
    BY <1>0, <1>1, <2>2
  <2>4. QED
    BY <1>0, <1>4, <2>1, <2>2, <2>3 DEF Worth, Smallest
<1>5. QED
  BY <1>2, <1>3, <1>4

\* A canonical value within the bounds is a literal.
LEMMA FoldedFacts ==
  ASSUME NEW x \in Decimals, Smallest <= x.exp
  PROVE  /\ Canonical(x) \in Decimals /\ Stripped(Canonical(x))
         /\ Smallest <= Canonical(x).exp
         /\ Worth(Canonical(x)) = Worth(x)
         /\ InBounds(x) <=> Canonical(x) \in Literals
<1>0. Smallest \in Int /\ Smallest <= 0
  BY DecimalAssumption DEF Smallest
<1>1. /\ Canonical(x) \in Decimals /\ Stripped(Canonical(x))
      /\ Canonical(x).coeff = 0 <=> x.coeff = 0
      /\ x.coeff # 0 => x.exp <= Canonical(x).exp
      /\ InUnitsOf(Canonical(x), Smallest) = InUnitsOf(x, Smallest)
  BY <1>0, CanonicalFacts
<1>2. Smallest <= Canonical(x).exp
  <2>1. CASE x.coeff = 0
    BY <1>0, <2>1, ZeroFacts DEF Canonical
  <2>2. CASE x.coeff # 0
    <3>1. x.exp \in Int /\ Canonical(x).exp \in Int
      BY <1>1 DEF Decimals
    <3>2. QED
      BY <1>0, <1>1, <2>2, <3>1
  <2>3. QED
    BY <2>1, <2>2
<1>3. InBounds(x) <=> Canonical(x) \in Literals
  <2>1. Canonical(x) \in Literals <=> IsLiteralValue(Canonical(x))
    BY LiteralFacts
  <2>2. QED
    BY <1>1, <2>1 DEF InBounds, IsLiteralValue
<1>4. QED
  BY <1>1, <1>2, <1>3 DEF Worth, Smallest

\* Canonical values that are worth the same are the same.
LEMMA SameWorth ==
  ASSUME NEW a \in Decimals, NEW b \in Decimals, Stripped(a), Stripped(b),
         Smallest <= a.exp, Smallest <= b.exp, Worth(a) = Worth(b)
  PROVE  a = b
<1>1. a.exp \in Int /\ b.exp \in Int /\ Smallest \in Int
  BY DecimalAssumption DEF Decimals, Smallest
<1>2. InUnitsOf(a, Smallest) = InUnitsOf(b, Smallest)
  BY DEF Worth, Smallest
<1>3. CASE a.exp <= b.exp
  BY <1>1, <1>2, <1>3, StrippedUnique
<1>4. CASE ~(a.exp <= b.exp)
  <2>1. b.exp <= a.exp
    BY <1>1, <1>4
  <2>2. b = a
    BY <1>1, <1>2, <2>1, StrippedUnique
  <2>3. QED
    BY <2>2
<1>5. QED
  BY <1>3, <1>4

-----------------------------------------------------------------------------
(* The invariant and what it implies.                                      *)

LEMMA ChainInit == Init => ChainInv
BY DEF Init, ChainInv, Operands

LEMMA ChainNext == ChainInv /\ [Next]_vars => ChainInv'
<1>1. SUFFICES ASSUME ChainInv, [Next]_vars PROVE ChainInv'
  OBVIOUS
<1>2. ASSUME NEW a \in Literals, Choose(a) PROVE ChainInv'
  BY <1>2 DEF Choose, ChainInv, Operands
<1>3. CASE FoldOn
  <2>1. FoldOutcome(exact) = "folds" /\ Choose(Folded)
    BY <1>3 DEF FoldOn
  <2>2. exact \in Decimals /\ Smallest <= exact.exp
    BY <1>1, ExactFacts DEF ChainInv
  <2>3. Folded \in Literals
    BY <2>1, <2>2, OutcomeFacts, FoldedFacts DEF Folded
  <2>4. QED
    BY <1>2, <2>1, <2>3
<1>4. CASE KeepNode
  BY <1>1, <1>2, <1>4 DEF KeepNode, ChainInv
<1>5. CASE UNCHANGED vars
  BY <1>1, <1>5 DEF vars, ChainInv, Exactly
<1>6. QED
  BY <1>1, <1>3, <1>4, <1>5 DEF Next

LEMMA ChainHolds == Spec => []ChainInv
BY ChainInit, ChainNext, PTL DEF Spec

\* _exact_add, _exact_sub and _exact_mul never round, whatever chain of
\* foldings their operands come from.
THEOREM FoldingIsExact == Spec => []ExactWorth
<1>1. ChainInv => ExactWorth
  BY ExactFacts DEF ChainInv, ExactWorth
<1>2. QED
  BY <1>1, ChainHolds, PTL

\* _safe_number_payload folds exactly the values that a literal of
\* MAX_COEFF_DIGITS digits and an exponent in range has, and the ValueError of
\* str() instead of its refusal is confined to values of at least
\* 10^MaxStrDigits smallest units.
THEOREM FoldingIsComplete == Spec => []FoldsWhatLiteralsCanSay
<1>1. ChainInv => FoldsWhatLiteralsCanSay
  <2>1. SUFFICES ASSUME ChainInv PROVE FoldsWhatLiteralsCanSay
    OBVIOUS
  <2>2. exact \in Decimals /\ Smallest <= exact.exp
    BY <2>1, ExactFacts DEF ChainInv
  <2>3. /\ Folded \in Decimals /\ Stripped(Folded)
        /\ Smallest <= Folded.exp
        /\ Worth(Folded) = Worth(exact)
        /\ InBounds(exact) <=> Folded \in Literals
    BY <2>2, FoldedFacts DEF Folded
  <2>4. ASSUME NEW x \in Literals, Worth(x) = Worth(exact) PROVE x = Folded
    <3>1. x \in Decimals /\ Stripped(x) /\ Smallest <= x.exp
      <4>1. IsLiteralValue(x)
        BY LiteralFacts
      <4>2. QED
        BY <4>1, DecimalAssumption DEF IsLiteralValue, Smallest
    <3>2. QED
      BY <2>3, <2>4, <3>1, SameWorth
  <2>5. FoldOutcome(exact) = "folds" <=> \E x \in Literals : Worth(x) = Worth(exact)
    BY <2>2, <2>3, <2>4, OutcomeFacts
  <2>6. ASSUME FoldOutcome(exact) = "raises"
        PROVE  DecAbs(Worth(exact)) >= TenTo[MaxStrDigits]
    <3>1. ~(Folded.coeff < TenTo[MaxStrDigits])
      BY <2>2, <2>6, OutcomeFacts DEF Writable, Folded
    <3>2. DecAbs(Worth(Folded)) >= Folded.coeff
      BY <2>3, WorthAtLeast, DecimalAssumption DEF Worth, Smallest
    <3>3. Folded.coeff \in Nat /\ TenTo[MaxStrDigits] \in Nat
      BY <2>3, DecimalAssumption, TenToDef DEF Decimals
    <3>4. Worth(Folded) \in Int
      BY <2>3, UnitsFacts, DecimalAssumption DEF Worth, Smallest
    <3>5. QED
      BY <2>3, <3>1, <3>2, <3>3, <3>4 DEF DecAbs
  <2>7. QED
    BY <2>5, <2>6 DEF FoldsWhatLiteralsCanSay
<1>2. QED
  BY <1>1, ChainHolds, PTL

\* A value has one canonical encoding, whichever operations computed it: its
\* payload, and so its identity, depends on the value alone.
THEOREM EncodingIsUnique == Spec => []OneEncodingPerValue
<1>1. ChainInv => OneEncodingPerValue
  <2>1. SUFFICES ASSUME ChainInv PROVE OneEncodingPerValue
    OBVIOUS
  <2>2. exact \in Decimals /\ Smallest <= exact.exp
    BY <2>1, ExactFacts DEF ChainInv
  <2>3. /\ Folded \in Decimals /\ Stripped(Folded)
        /\ Smallest <= Folded.exp
        /\ Worth(Folded) = Worth(exact)
        /\ InBounds(exact) <=> Folded \in Literals
    BY <2>2, FoldedFacts DEF Folded
  <2>4. ASSUME NEW x \in Operands, Worth(x) = Worth(exact) PROVE Folded = x
    <3>1. x \in Decimals /\ Stripped(x) /\ Smallest <= x.exp
      <4>1. IsLiteralValue(x)
        BY LiteralFacts DEF Operands
      <4>2. QED
        BY <4>1, DecimalAssumption DEF IsLiteralValue, Smallest
    <3>2. QED
      BY <2>3, <2>4, <3>1, SameWorth
  <2>5. QED
    BY <2>3, <2>4 DEF OneEncodingPerValue
<1>2. QED
  BY <1>1, ChainHolds, PTL

\* _exact_cmp decides comparisons and extremes by value, not by how the
\* operands are written.
THEOREM ComparisonIsByWorth == Spec => []ComparesWorth
<1>1. ChainInv => ComparesWorth
  <2>1. SUFFICES ASSUME ChainInv, NEW x \in Operands \cup {left}
                 PROVE  CompareBy("<", exact, x) <=> Worth(exact) < Worth(x)
    BY DEF ComparesWorth
  <2>2. exact \in Decimals /\ Smallest <= exact.exp
    BY <2>1, ExactFacts DEF ChainInv
  <2>3. x \in Decimals /\ Smallest <= x.exp
    <3>1. IsLiteralValue(x)
      BY <2>1, LiteralFacts DEF Operands, ChainInv
    <3>2. QED
      BY <3>1, DecimalAssumption DEF IsLiteralValue, Smallest
  <2>4. Smallest \in Int
    BY DecimalAssumption DEF Smallest
  <2>5. /\ ExactCmp(exact, x) \in {-1, 0, 1}
        /\ ExactCmp(exact, x) = -1 <=> Worth(exact) < Worth(x)
    BY <2>2, <2>3, <2>4, CmpFacts DEF Worth, Smallest
  <2>6. CompareBy("<", exact, x) <=> ExactCmp(exact, x) < 0
    BY DEF CompareBy
  <2>7. QED
    BY <2>5, <2>6
<1>2. QED
  BY <1>1, ChainHolds, PTL
=============================================================================
