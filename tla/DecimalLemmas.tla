--------------------------- MODULE DecimalLemmas ---------------------------
(***************************************************************************)
(* Exact decimal arithmetic, for all decimals.  The worth of a decimal in  *)
(* a small enough unit is an integer; the operations compute with it       *)
(* exactly, and the canonical form of a decimal is the only literal of its *)
(* worth.  The first section is what takes the place of induction: a set   *)
(* of naturals has a least element, so a least counterexample can be had.  *)
(***************************************************************************)
EXTENDS ExactDecimal, WellFoundedInduction, TLAPS

-----------------------------------------------------------------------------
(* Least elements and recursion.                                           *)

\* A set of naturals has a least element.
LEMMA LeastOf ==
  ASSUME NEW T, T \subseteq Nat, T # {}
  PROVE  \E x \in T : \A y \in T : x <= y
<1> DEFINE R == OpToRel(<, Nat)
<1>1. IsWellFoundedOn(R, Nat)
  BY NatLessThanWellFounded
<1>2. \A x, y \in Nat : x < y => <<x, y>> \in R
  BY DEF OpToRel
<1> HIDE DEF R
<1>3. PICK x \in T : \A y \in T : ~(<<y, x>> \in R)
  BY <1>1, WFMin
<1>4. \A y \in T : x <= y
  <2> TAKE y \in T
  <2>1. x \in Nat /\ y \in Nat
    OBVIOUS
  <2>2. ~(y < x)
    BY <1>2, <1>3, <2>1
  <2> QED
    BY <2>1, <2>2
<1> QED
  BY <1>4

\* A set that contains 0, and n + 1 with every n < last, contains 0..last.
LEMMA Climb ==
  ASSUME NEW last \in Nat, NEW T,
         0 \in T,
         \A n \in 0..(last - 1) : n \in T => n + 1 \in T
  PROVE  0..last \subseteq T
<1> DEFINE Bad == (0..last) \ T
<1>1. SUFFICES ASSUME Bad # {} PROVE FALSE
  OBVIOUS
<1>2. Bad \subseteq Nat
  OBVIOUS
<1>3. PICK k \in Bad : \A j \in Bad : k <= j
  BY <1>1, <1>2, LeastOf
<1>4. k \in 0..last /\ k # 0
  OBVIOUS
<1>5. k - 1 \in 0..(last - 1) /\ k - 1 \in 0..last /\ ~(k <= k - 1)
  BY <1>4
<1>6. k - 1 \in T
  BY <1>3, <1>5
<1>7. (k - 1) + 1 \in T
  BY <1>5, <1>6
<1>8. QED
  BY <1>4, <1>7

\* ... and all of Nat, if there is no last.
LEMMA ClimbAll ==
  ASSUME NEW T, 0 \in T, \A n \in Nat : n \in T => n + 1 \in T
  PROVE  Nat \subseteq T
<1>1. ASSUME NEW n \in Nat PROVE n \in T
  <2>1. 0..n \subseteq T
    BY Climb
  <2>2. n \in 0..n
    OBVIOUS
  <2>3. QED
    BY <2>1, <2>2
<1>2. QED
  BY <1>1

Follows(g, n, base, F) ==
  /\ g[0] = base
  /\ \A i \in 1..n : g[i] = F[<<g[i - 1], i>>]

\* A step function can be iterated n times.
LEMMA Iterated ==
  ASSUME NEW n \in Nat, NEW A, NEW base \in A, NEW F \in [A \X Nat -> A]
  PROVE  \E g \in [0..n -> A] : Follows(g, n, base, F)
<1> DEFINE T == {m \in Nat : \E g \in [0..m -> A] : Follows(g, m, base, F)}
<1>1. 0 \in T
  <2>1. Follows([i \in 0..0 |-> base], 0, base, F)
    BY DEF Follows
  <2> QED
    BY <2>1
<1>2. ASSUME NEW m \in Nat, m \in T PROVE m + 1 \in T
  <2>1. PICK g \in [0..m -> A] : Follows(g, m, base, F)
    BY <1>2
  <2> DEFINE next == F[<<g[m], m + 1>>]
             h == [i \in 0..(m + 1) |-> IF i = m + 1 THEN next ELSE g[i]]
  <2>2. next \in A
    BY <2>1
  <2> HIDE DEF next
  <2>3. h \in [0..(m + 1) -> A]
    BY <2>1, <2>2
  <2>4. h[0] = base
    BY <2>1 DEF Follows
  <2>5. ASSUME NEW i \in 1..(m + 1) PROVE h[i] = F[<<h[i - 1], i>>]
    <3>1. i - 1 \in 0..m /\ h[i - 1] = g[i - 1]
      OBVIOUS
    <3>2. CASE i = m + 1
      <4>1. i - 1 = m /\ h[i] = next
        BY <3>2
      <4>2. h[i - 1] = g[m]
        BY <3>1, <4>1
      <4>3. QED
        BY <3>2, <4>1, <4>2 DEF next
    <3>3. CASE i # m + 1
      <4>1. i \in 1..m /\ h[i] = g[i]
        BY <3>3
      <4>2. g[i] = F[<<g[i - 1], i>>]
        BY <2>1, <4>1 DEF Follows
      <4>3. QED
        BY <3>1, <4>1, <4>2
    <3>4. QED
      BY <3>2, <3>3
  <2> HIDE DEF h
  <2>6. Follows(h, m + 1, base, F)
    BY <2>4, <2>5 DEF Follows
  <2>7. QED
    BY <2>3, <2>6
<1>3. Nat \subseteq T
  BY <1>1, <1>2, ClimbAll
<1>4. n \in T
  BY <1>3
<1>5. QED
  BY <1>4

\* The iterations of a step function agree where both are defined.
LEMMA IteratedOnce ==
  ASSUME NEW F, NEW base, NEW m \in Nat, NEW n \in Nat, m <= n,
         NEW g, Follows(g, m, base, F), NEW h, Follows(h, n, base, F)
  PROVE  \A i \in 0..m : g[i] = h[i]
<1> DEFINE T == {i \in 0..m : g[i] = h[i]}
<1>1. 0 \in T
  BY DEF Follows
<1>2. ASSUME NEW i \in 0..(m - 1), i \in T PROVE i + 1 \in T
  <2>1. i + 1 \in 1..m /\ i + 1 \in 1..n /\ (i + 1) - 1 = i
    OBVIOUS
  <2>2. g[i + 1] = F[<<g[(i + 1) - 1], i + 1>>] /\ h[i + 1] = F[<<h[(i + 1) - 1], i + 1>>]
    BY <2>1 DEF Follows
  <2>3. g[i] = h[i]
    BY <1>2
  <2>4. QED
    BY <2>1, <2>2, <2>3
<1>3. 0..m \subseteq T
  BY <1>1, <1>2, Climb
<1>4. QED
  BY <1>3

FollowsForever(g, base, F) ==
  /\ g[0] = base
  /\ \A i \in Nat \ {0} : g[i] = F[<<g[i - 1], i>>]

\* ... so that it can be iterated for ever.
LEMMA IteratedForever ==
  ASSUME NEW A, NEW base \in A, NEW F \in [A \X Nat -> A]
  PROVE  \E g \in [Nat -> A] : FollowsForever(g, base, F)
<1> DEFINE Upto(n) == CHOOSE g \in [0..n -> A] : Follows(g, n, base, F)
           f == [n \in Nat |-> Upto(n)[n]]
<1>1. \A n \in Nat : Upto(n) \in [0..n -> A] /\ Follows(Upto(n), n, base, F)
  BY Iterated
<1> HIDE DEF Upto
<1>2. f \in [Nat -> A]
  BY <1>1
<1>3. f[0] = base
  BY <1>1 DEF Follows
<1>4. ASSUME NEW i \in Nat \ {0} PROVE f[i] = F[<<f[i - 1], i>>]
  <2>1. i \in Nat /\ i - 1 \in Nat /\ i \in 1..i /\ i - 1 <= i /\ i - 1 \in 0..(i - 1)
    OBVIOUS
  <2>2. Follows(Upto(i - 1), i - 1, base, F) /\ Follows(Upto(i), i, base, F)
    BY <1>1, <2>1
  <2>3. Upto(i - 1)[i - 1] = Upto(i)[i - 1]
    <3> DEFINE j == i - 1
               g == Upto(j)
               h == Upto(i)
    <3>1. j \in Nat /\ j <= i /\ j \in 0..j
      BY <2>1
    <3>2. Follows(g, j, base, F) /\ Follows(h, i, base, F)
      BY <2>2
    <3> HIDE DEF j, g, h
    <3>3. g[j] = h[j]
      BY <3>1, <3>2, IteratedOnce
    <3>4. QED
      BY <3>3 DEF j, g, h
  <2>4. Upto(i)[i] = F[<<Upto(i)[i - 1], i>>]
    BY <2>1, <2>2 DEF Follows
  <2>5. QED
    BY <2>1, <2>3, <2>4
<1> HIDE DEF f
<1>5. FollowsForever(f, base, F)
  BY <1>3, <1>4 DEF FollowsForever
<1>6. QED
  BY <1>2, <1>5

-----------------------------------------------------------------------------
(* Powers of ten.                                                          *)

LEMMA TenToDef ==
  /\ TenTo \in [Nat -> Nat \ {0}]
  /\ TenTo[0] = 1
  /\ \A n \in Nat : TenTo[n + 1] = 10 * TenTo[n]
<1> DEFINE Eq(f) == f = [n \in Nat |-> IF n = 0 THEN 1 ELSE 10 * f[n - 1]]
           P == Nat \ {0}
           F == [p \in P \X Nat |-> 10 * p[1]]
<1>1. \E f : Eq(f)
  <2>1. F \in [P \X Nat -> P] /\ 1 \in P
    OBVIOUS
  <2>2. PICK g \in [Nat -> P] : FollowsForever(g, 1, F)
    <3> HIDE DEF P, F
    <3>1. QED
      BY <2>1, IteratedForever
  <2>3. ASSUME NEW i \in Nat \ {0} PROVE g[i] = 10 * g[i - 1]
    <3>1. <<g[i - 1], i>> \in P \X Nat
      BY <2>2
    <3>2. F[<<g[i - 1], i>>] = 10 * g[i - 1]
      BY <3>1
    <3>3. QED
      BY <2>2, <3>2 DEF FollowsForever
  <2>4. Eq(g)
    BY <2>2, <2>3 DEF FollowsForever
  <2>5. QED
    BY <2>4
<1>2. Eq(TenTo)
  <2>1. TenTo = CHOOSE f : Eq(f)
    BY DEF TenTo
  <2> HIDE DEF Eq
  <2>2. QED
    BY <1>1, <2>1
<1>3. \A n \in Nat : TenTo[n] = IF n = 0 THEN 1 ELSE 10 * TenTo[n - 1]
  BY <1>2
<1>4. TenTo[0] = 1 /\ \A n \in Nat : TenTo[n + 1] = 10 * TenTo[n]
  <2>1. TenTo[0] = 1
    BY <1>3
  <2>2. ASSUME NEW n \in Nat PROVE TenTo[n + 1] = 10 * TenTo[n]
    <3>1. n + 1 \in Nat /\ n + 1 # 0 /\ (n + 1) - 1 = n
      OBVIOUS
    <3>2. QED
      BY <1>3, <3>1
  <2>3. QED
    BY <2>1, <2>2
<1> DEFINE T == {n \in Nat : TenTo[n] \in P}
<1>5. Nat \subseteq T
  <2>1. 0 \in T
    BY <1>4
  <2>2. \A n \in Nat : n \in T => n + 1 \in T
    BY <1>4
  <2> HIDE DEF T
  <2>3. QED
    BY <2>1, <2>2, ClimbAll
<1>6. \A n \in Nat : TenTo[n] \in P
  BY <1>5
<1>7. DOMAIN TenTo = Nat /\ TenTo = [n \in Nat |-> TenTo[n]]
  BY <1>2
<1>8. QED
  BY <1>4, <1>6, <1>7

LEMMA TenToAdds ==
  ASSUME NEW m \in Nat, NEW n \in Nat
  PROVE  TenTo[m + n] = TenTo[m] * TenTo[n]
<1> DEFINE T == {k \in Nat : TenTo[m + k] = TenTo[m] * TenTo[k]}
<1>1. 0 \in T
  BY TenToDef
<1>2. ASSUME NEW k \in Nat, k \in T PROVE k + 1 \in T
  <2>1. TenTo[m + k] = TenTo[m] * TenTo[k]
    BY <1>2
  <2>2. m + k \in Nat /\ m + (k + 1) = (m + k) + 1
    OBVIOUS
  <2>3. TenTo[m + (k + 1)] = 10 * TenTo[m + k] /\ TenTo[k + 1] = 10 * TenTo[k]
    BY <2>2, TenToDef
  <2>4. TenTo[m] \in Nat /\ TenTo[k] \in Nat
    BY TenToDef
  <2>5. 10 * (TenTo[m] * TenTo[k]) = TenTo[m] * (10 * TenTo[k])
    BY <2>4
  <2>6. QED
    BY <2>1, <2>3, <2>5
<1> HIDE DEF T
<1>3. n \in T
  BY <1>1, <1>2, ClimbAll
<1>4. QED
  BY <1>3 DEF T

\* n digits are not enough to write 10^n.
LEMMA TenToGrows ==
  ASSUME NEW n \in Nat
  PROVE  n < TenTo[n]
<1> DEFINE T == {k \in Nat : k < TenTo[k]}
<1>1. 0 \in T
  BY TenToDef
<1>2. ASSUME NEW k \in Nat, k \in T PROVE k + 1 \in T
  <2>1. TenTo[k] \in Nat /\ k < TenTo[k] /\ TenTo[k + 1] = 10 * TenTo[k]
    BY <1>2, TenToDef
  <2>2. QED
    BY <2>1
<1> HIDE DEF T
<1>3. n \in T
  BY <1>1, <1>2, ClimbAll
<1>4. QED
  BY <1>3 DEF T

\* More digits say more.
LEMMA TenToMonotone ==
  ASSUME NEW m \in Nat, NEW n \in Nat, m <= n
  PROVE  TenTo[m] <= TenTo[n]
<1>1. n - m \in Nat /\ m + (n - m) = n
  OBVIOUS
<1>2. TenTo[n] = TenTo[m] * TenTo[n - m]
  <2>1. TenTo[m + (n - m)] = TenTo[m] * TenTo[n - m]
    BY <1>1, TenToAdds
  <2>2. QED
    BY <1>1, <2>1
<1>3. TenTo[m] \in Nat /\ TenTo[n - m] \in Nat /\ TenTo[n - m] >= 1
  BY <1>1, TenToDef
<1>4. ASSUME NEW x \in Nat, NEW y \in Nat, y >= 1 PROVE x <= x * y
  BY <1>4
<1>5. QED
  BY <1>2, <1>3, <1>4

-----------------------------------------------------------------------------
(* The worth of a decimal.                                                 *)

Signed(a) == IF a.neg THEN -a.coeff ELSE a.coeff

LEMMA UnitsFacts ==
  ASSUME NEW a \in Decimals, NEW e \in Int, e <= a.exp
  PROVE  /\ a.exp - e \in Nat
         /\ Signed(a) \in Int
         /\ InUnitsOf(a, e) = Signed(a) * TenTo[a.exp - e]
         /\ InUnitsOf(a, e) \in Int
         /\ InUnitsOf(a, e) = 0 <=> a.coeff = 0
<1>1. a.neg \in BOOLEAN /\ a.coeff \in Nat /\ a.exp \in Int
  BY DEF Decimals
<1>2. a.exp - e \in Nat
  BY <1>1
<1>3. TenTo[a.exp - e] \in Nat \ {0}
  BY <1>2, TenToDef
<1>4. Signed(a) \in Int /\ (Signed(a) = 0 <=> a.coeff = 0)
  BY <1>1 DEF Signed
<1>5. InUnitsOf(a, e) = Signed(a) * TenTo[a.exp - e]
  BY DEF InUnitsOf, Signed
<1>6. \A s \in Int, t \in Nat \ {0} : s * t \in Int /\ (s * t = 0 <=> s = 0)
  OBVIOUS
<1>7. QED
  BY <1>2, <1>3, <1>4, <1>5, <1>6

\* The coefficient says at most the worth in a unit that is small enough.
LEMMA WorthAtLeast ==
  ASSUME NEW a \in Decimals, NEW e \in Int, e <= a.exp
  PROVE  DecAbs(InUnitsOf(a, e)) >= a.coeff
<1>1. /\ a.exp - e \in Nat /\ a.coeff \in Nat
      /\ InUnitsOf(a, e) = Signed(a) * TenTo[a.exp - e]
      /\ Signed(a) = a.coeff \/ Signed(a) = -a.coeff
  BY UnitsFacts DEF Decimals, Signed
<1>2. TenTo[a.exp - e] \in Nat /\ TenTo[a.exp - e] >= 1
  BY <1>1, TenToDef
<1>3. ASSUME NEW c \in Nat, NEW t \in Nat, t >= 1
      PROVE  /\ DecAbs(c * t) >= c
             /\ DecAbs((-c) * t) >= c
  <2>1. c * t \in Nat /\ c * t >= c /\ (-c) * t = -(c * t)
    BY <1>3
  <2>2. QED
    BY <2>1 DEF DecAbs
<1>4. QED
  BY <1>1, <1>2, <1>3

\* A smaller unit multiplies the worth by a power of ten.
LEMMA SmallerUnit ==
  ASSUME NEW a \in Decimals, NEW d \in Int, NEW e \in Int, d <= e, e <= a.exp
  PROVE  InUnitsOf(a, d) = InUnitsOf(a, e) * TenTo[e - d]
<1>1. a.exp \in Int
  BY DEF Decimals
<1>2. a.exp - e \in Nat /\ e - d \in Nat /\ (a.exp - e) + (e - d) = a.exp - d /\ d <= a.exp
  BY <1>1
<1>3. TenTo[a.exp - d] = TenTo[a.exp - e] * TenTo[e - d]
  BY <1>2, TenToAdds
<1>4. /\ InUnitsOf(a, d) = Signed(a) * TenTo[a.exp - d]
      /\ InUnitsOf(a, e) = Signed(a) * TenTo[a.exp - e]
      /\ Signed(a) \in Int
  BY <1>2, UnitsFacts
<1>5. TenTo[a.exp - e] \in Int /\ TenTo[e - d] \in Int
  BY <1>2, TenToDef
<1>6. \A x, y, z \in Int : x * (y * z) = (x * y) * z
  OBVIOUS
<1>7. QED
  BY <1>3, <1>4, <1>5, <1>6

LEMMA ZeroFacts ==
  /\ DecZero \in Decimals
  /\ DecZero.coeff = 0 /\ DecZero.exp = 0 /\ DecZero.neg = FALSE
BY DEF DecZero, Dec, Decimals

LEMMA DecFacts ==
  ASSUME NEW neg, NEW coeff, NEW exp
  PROVE  /\ Dec(neg, coeff, exp).neg = neg
         /\ Dec(neg, coeff, exp).coeff = coeff
         /\ Dec(neg, coeff, exp).exp = exp
BY DEF Dec

\* The decimal that is worth s units of 10^e.
Units(s, e) == IF s = 0 THEN DecZero ELSE Dec(s < 0, DecAbs(s), e)

LEMMA DecimalOfUnits ==
  ASSUME NEW s \in Int, NEW e \in Int
  PROVE  /\ Units(s, e) \in Decimals
         /\ Units(s, e).exp \in {0, e}
         /\ \A d \in Int : d <= 0 /\ d <= e => InUnitsOf(Units(s, e), d) = s * TenTo[e - d]
<1>1. CASE s = 0
  <2>1. Units(s, e) = DecZero
    BY <1>1 DEF Units
  <2>2. ASSUME NEW d \in Int, d <= 0, d <= e PROVE InUnitsOf(DecZero, d) = s * TenTo[e - d]
    <3>1. InUnitsOf(DecZero, d) = 0
      BY <2>2, ZeroFacts, UnitsFacts
    <3>2. TenTo[e - d] \in Nat
      BY <2>2, TenToDef
    <3>3. QED
      BY <1>1, <3>1, <3>2
  <2>3. QED
    BY <2>1, <2>2, ZeroFacts
<1>2. CASE s # 0
  <2> DEFINE a == Units(s, e)
  <2>0. DecAbs(s) \in Nat
    BY DEF DecAbs
  <2>1. a = Dec(s < 0, DecAbs(s), e)
    BY <1>2 DEF Units
  <2>2. a \in Decimals /\ a.exp = e
    BY <2>0, <2>1 DEF Dec, Decimals
  <2> HIDE DEF a
  <2>3. Signed(a) = s
    <3>1. a.neg = (s < 0)
      BY <2>1 DEF Dec
    <3>2. a.coeff = DecAbs(s)
      BY <2>1 DEF Dec
    <3>3. CASE s < 0
      <4>1. a.neg /\ a.coeff = -s
        BY <3>1, <3>2, <3>3 DEF DecAbs
      <4>2. QED
        BY <4>1 DEF Signed
    <3>4. CASE ~(s < 0)
      <4>1. ~a.neg /\ a.coeff = s
        BY <3>1, <3>2, <3>4 DEF DecAbs
      <4>2. QED
        BY <4>1 DEF Signed
    <3>5. QED
      BY <3>3, <3>4
  <2>4. ASSUME NEW d \in Int, d <= 0, d <= e PROVE InUnitsOf(a, d) = s * TenTo[e - d]
    BY <2>2, <2>3, <2>4, UnitsFacts
  <2>5. QED
    BY <2>2, <2>4 DEF a
<1>3. QED
  BY <1>1, <1>2

LEMMA LowerExpFacts ==
  ASSUME NEW a \in Decimals, NEW b \in Decimals
  PROVE  LET e == LowerExp(a, b)
         IN  e \in Int /\ e <= a.exp /\ e <= b.exp /\ e \in {a.exp, b.exp}
BY DEF LowerExp, Decimals

LEMMA NegFacts ==
  ASSUME NEW a \in Decimals
  PROVE  /\ ExactNeg(a) \in Decimals
         /\ a.coeff # 0 => ExactNeg(a).exp = a.exp /\ ExactNeg(a).coeff = a.coeff
         /\ a.coeff = 0 => ExactNeg(a) = DecZero
         /\ \A d \in Int : d <= 0 /\ d <= a.exp => InUnitsOf(ExactNeg(a), d) = -InUnitsOf(a, d)
<1>1. CASE a.coeff = 0
  <2>1. ExactNeg(a) = DecZero
    BY <1>1 DEF ExactNeg
  <2>2. ASSUME NEW d \in Int, d <= 0, d <= a.exp
        PROVE  InUnitsOf(DecZero, d) = 0 /\ InUnitsOf(a, d) = 0
    BY <1>1, <2>2, ZeroFacts, UnitsFacts
  <2>3. QED
    BY <1>1, <2>1, <2>2, ZeroFacts
<1>2. CASE a.coeff # 0
  <2> DEFINE b == ExactNeg(a)
  <2>1. b = [a EXCEPT !.neg = ~a.neg]
    BY <1>2 DEF ExactNeg
  <2>2. b \in Decimals /\ b.exp = a.exp /\ b.coeff = a.coeff /\ (b.neg <=> ~a.neg)
    BY <2>1 DEF Decimals
  <2> HIDE DEF b
  <2>3. Signed(b) = -Signed(a)
    <3>1. a.coeff \in Nat
      BY DEF Decimals
    <3>2. CASE a.neg
      BY <2>2, <3>1, <3>2 DEF Signed
    <3>3. CASE ~a.neg
      BY <2>2, <3>1, <3>3 DEF Signed
    <3>4. QED
      BY <3>2, <3>3
  <2>4. ASSUME NEW d \in Int, d <= 0, d <= a.exp
        PROVE  InUnitsOf(b, d) = -InUnitsOf(a, d)
    <3>1. /\ InUnitsOf(a, d) = Signed(a) * TenTo[a.exp - d]
          /\ InUnitsOf(b, d) = Signed(b) * TenTo[a.exp - d]
          /\ Signed(a) \in Int /\ a.exp - d \in Nat
      BY <2>2, <2>4, UnitsFacts
    <3>2. TenTo[a.exp - d] \in Int
      BY <3>1, TenToDef
    <3>3. \A x, y \in Int : (-x) * y = -(x * y)
      OBVIOUS
    <3>4. QED
      BY <2>3, <3>1, <3>2, <3>3
  <2>5. QED
    BY <1>2, <2>2, <2>4 DEF b
<1>3. QED
  BY <1>1, <1>2

\* _exact_add never rounds, and needs no smaller unit than its operands.
LEMMA AddFacts ==
  ASSUME NEW a \in Decimals, NEW b \in Decimals
  PROVE  /\ ExactAdd(a, b) \in Decimals
         /\ ExactAdd(a, b).exp \in {0, a.exp, b.exp}
         /\ \A d \in Int : d <= 0 /\ d <= a.exp /\ d <= b.exp =>
              InUnitsOf(ExactAdd(a, b), d) = InUnitsOf(a, d) + InUnitsOf(b, d)
<1>1. CASE a.coeff = 0
  <2>1. ExactAdd(a, b) = b
    BY <1>1 DEF ExactAdd
  <2>2. ASSUME NEW d \in Int, d <= a.exp, d <= b.exp
        PROVE  InUnitsOf(b, d) = InUnitsOf(a, d) + InUnitsOf(b, d)
    <3>1. InUnitsOf(a, d) = 0 /\ InUnitsOf(b, d) \in Int
      BY <1>1, <2>2, UnitsFacts
    <3>2. QED
      BY <3>1
  <2>3. QED
    BY <2>1, <2>2
<1>2. CASE a.coeff # 0 /\ b.coeff = 0
  <2>1. ExactAdd(a, b) = a
    BY <1>2 DEF ExactAdd
  <2>2. ASSUME NEW d \in Int, d <= a.exp, d <= b.exp
        PROVE  InUnitsOf(a, d) = InUnitsOf(a, d) + InUnitsOf(b, d)
    <3>1. InUnitsOf(b, d) = 0 /\ InUnitsOf(a, d) \in Int
      BY <1>2, <2>2, UnitsFacts
    <3>2. QED
      BY <3>1
  <2>3. QED
    BY <2>1, <2>2
<1>3. CASE a.coeff # 0 /\ b.coeff # 0
  <2> DEFINE e == LowerExp(a, b)
             x == InUnitsOf(a, e)
             y == InUnitsOf(b, e)
  <2>1. e \in Int /\ e <= a.exp /\ e <= b.exp /\ e \in {a.exp, b.exp}
    BY LowerExpFacts
  <2>2. ExactAdd(a, b) = Units(x + y, e)
    BY <1>3 DEF ExactAdd, Units
  <2> HIDE DEF e
  <2>3. x \in Int /\ y \in Int
    BY <2>1, UnitsFacts
  <2>4. ASSUME NEW d \in Int, d <= 0, d <= a.exp, d <= b.exp
        PROVE  InUnitsOf(Units(x + y, e), d) = InUnitsOf(a, d) + InUnitsOf(b, d)
    <3>1. d <= e
      BY <2>1, <2>4
    <3>2. InUnitsOf(a, d) = x * TenTo[e - d] /\ InUnitsOf(b, d) = y * TenTo[e - d]
      BY <2>1, <2>4, <3>1, SmallerUnit
    <3> HIDE DEF x, y
    <3>3. InUnitsOf(Units(x + y, e), d) = (x + y) * TenTo[e - d]
      BY <2>1, <2>3, <2>4, <3>1, DecimalOfUnits
    <3>4. TenTo[e - d] \in Int
      BY <2>1, <2>4, <3>1, TenToDef
    <3>5. QED
      BY <2>3, <3>2, <3>3, <3>4
  <2> HIDE DEF x, y
  <2>5. Units(x + y, e) \in Decimals /\ Units(x + y, e).exp \in {0, e}
    BY <2>1, <2>3, DecimalOfUnits
  <2>6. QED
    BY <2>1, <2>2, <2>4, <2>5
<1>4. QED
  BY <1>1, <1>2, <1>3

LEMMA SubFacts ==
  ASSUME NEW a \in Decimals, NEW b \in Decimals
  PROVE  /\ ExactSub(a, b) \in Decimals
         /\ ExactSub(a, b).exp \in {0, a.exp, b.exp}
         /\ \A d \in Int : d <= 0 /\ d <= a.exp /\ d <= b.exp =>
              InUnitsOf(ExactSub(a, b), d) = InUnitsOf(a, d) - InUnitsOf(b, d)
<1> DEFINE c == ExactNeg(b)
<1>1. c \in Decimals /\ c.exp \in {0, b.exp}
  BY NegFacts, ZeroFacts
<1>2. ExactSub(a, b) = ExactAdd(a, c)
  BY DEF ExactSub
<1>3. \A d \in Int : d <= 0 /\ d <= b.exp => InUnitsOf(c, d) = -InUnitsOf(b, d)
  BY NegFacts
<1> HIDE DEF c
<1>4. ASSUME NEW d \in Int, d <= 0, d <= a.exp, d <= b.exp
      PROVE  InUnitsOf(ExactAdd(a, c), d) = InUnitsOf(a, d) - InUnitsOf(b, d)
  <2>1. InUnitsOf(ExactAdd(a, c), d) = InUnitsOf(a, d) + InUnitsOf(c, d)
    BY <1>1, <1>4, AddFacts
  <2>2. InUnitsOf(a, d) \in Int /\ InUnitsOf(b, d) \in Int
    BY <1>4, UnitsFacts
  <2>3. QED
    BY <1>3, <1>4, <2>1, <2>2
<1>5. ExactAdd(a, c) \in Decimals /\ ExactAdd(a, c).exp \in {0, a.exp, c.exp}
  BY <1>1, AddFacts
<1>6. QED
  BY <1>1, <1>2, <1>4, <1>5

\* _exact_mul never rounds; the exponents of the factors add up.
LEMMA MulFacts ==
  ASSUME NEW a \in Decimals, NEW b \in Decimals
  PROVE  /\ ExactMul(a, b) \in Decimals
         /\ ExactMul(a, b).exp \in {0, a.exp + b.exp}
         /\ \A d, e \in Int : d <= 0 /\ e <= 0 /\ d <= a.exp /\ e <= b.exp =>
              InUnitsOf(ExactMul(a, b), d + e) = InUnitsOf(a, d) * InUnitsOf(b, e)
<1>0. a.coeff \in Nat /\ b.coeff \in Nat /\ a.exp \in Int /\ b.exp \in Int
  BY DEF Decimals
<1>1. CASE a.coeff = 0 \/ b.coeff = 0
  <2>1. ExactMul(a, b) = DecZero
    BY <1>1 DEF ExactMul
  <2>2. ASSUME NEW d \in Int, NEW e \in Int, d <= 0, e <= 0, d <= a.exp, e <= b.exp
        PROVE  InUnitsOf(DecZero, d + e) = InUnitsOf(a, d) * InUnitsOf(b, e)
    <3>1. InUnitsOf(a, d) \in Int /\ (InUnitsOf(a, d) = 0 <=> a.coeff = 0)
      BY <2>2, UnitsFacts
    <3>2. InUnitsOf(b, e) \in Int /\ (InUnitsOf(b, e) = 0 <=> b.coeff = 0)
      BY <2>2, UnitsFacts
    <3>3. InUnitsOf(DecZero, d + e) = 0
      <4>1. d + e \in Int /\ d + e <= 0
        BY <2>2
      <4>2. QED
        BY <4>1, ZeroFacts, UnitsFacts
    <3>4. QED
      BY <1>1, <3>1, <3>2, <3>3
  <2>3. QED
    BY <2>1, <2>2, ZeroFacts
<1>2. CASE a.coeff # 0 /\ b.coeff # 0
  <2> DEFINE c == ExactMul(a, b)
  <2>1. c = Dec(a.neg # b.neg, a.coeff * b.coeff, a.exp + b.exp)
    BY <1>2 DEF ExactMul
  <2>2. c \in Decimals /\ c.exp = a.exp + b.exp /\ c.coeff = a.coeff * b.coeff
    <3>1. a.coeff * b.coeff \in Nat /\ a.exp + b.exp \in Int /\ (a.neg # b.neg) \in BOOLEAN
      BY <1>0
    <3>2. QED
      BY <2>1, <3>1 DEF Dec, Decimals
  <2> HIDE DEF c
  <2>3. c.neg <=> (a.neg # b.neg)
    BY <2>1, DecFacts, Zenon
  <2>4. Signed(c) = Signed(a) * Signed(b)
    <3>1. a.neg \in BOOLEAN /\ b.neg \in BOOLEAN
      BY DEF Decimals
    <3>2. CASE a.neg /\ b.neg
      <4>1. ~c.neg
        BY <2>3, <3>1, <3>2
      <4>2. QED
        BY <1>0, <2>2, <3>2, <4>1 DEF Signed
    <3>3. CASE a.neg /\ ~b.neg
      <4>1. c.neg
        BY <2>3, <3>1, <3>3
      <4>2. QED
        BY <1>0, <2>2, <3>3, <4>1 DEF Signed
    <3>4. CASE ~a.neg /\ b.neg
      <4>1. c.neg
        BY <2>3, <3>1, <3>4
      <4>2. QED
        BY <1>0, <2>2, <3>4, <4>1 DEF Signed
    <3>5. CASE ~a.neg /\ ~b.neg
      <4>1. ~c.neg
        BY <2>3, <3>1, <3>5
      <4>2. QED
        BY <1>0, <2>2, <3>5, <4>1 DEF Signed
    <3>6. QED
      BY <3>1, <3>2, <3>3, <3>4, <3>5
  <2>5. ASSUME NEW d \in Int, NEW e \in Int, d <= 0, e <= 0, d <= a.exp, e <= b.exp
        PROVE  InUnitsOf(c, d + e) = InUnitsOf(a, d) * InUnitsOf(b, e)
    <3> DEFINE m == a.exp - d
               n == b.exp - e
    <3>1. m \in Nat /\ n \in Nat /\ c.exp - (d + e) = m + n /\ d + e \in Int /\ d + e <= c.exp
      BY <1>0, <2>2, <2>5
    <3>2. InUnitsOf(a, d) = Signed(a) * TenTo[m] /\ Signed(a) \in Int
      BY <2>5, UnitsFacts
    <3>3. InUnitsOf(b, e) = Signed(b) * TenTo[n] /\ Signed(b) \in Int
      BY <2>5, UnitsFacts
    <3>4. InUnitsOf(c, d + e) = Signed(c) * TenTo[m + n]
      <4>1. InUnitsOf(c, d + e) = Signed(c) * TenTo[c.exp - (d + e)]
        BY <2>2, <3>1, UnitsFacts
      <4>2. QED
        BY <3>1, <4>1
    <3> HIDE DEF m, n
    <3>5. TenTo[m + n] = TenTo[m] * TenTo[n] /\ TenTo[m] \in Int /\ TenTo[n] \in Int
      <4>1. m \in Nat /\ n \in Nat
        BY <3>1
      <4>2. TenTo[m + n] = TenTo[m] * TenTo[n]
        BY <4>1, TenToAdds
      <4>3. TenTo[m] \in Int /\ TenTo[n] \in Int
        BY <4>1, TenToDef
      <4>4. QED
        BY <4>2, <4>3
    <3>6. \A s, t, u, v \in Int : (s * t) * (u * v) = (s * u) * (t * v)
      OBVIOUS
    <3>7. QED
      BY <2>4, <3>2, <3>3, <3>4, <3>5, <3>6
  <2>6. QED
    BY <2>2, <2>5 DEF c
<1>3. QED
  BY <1>1, <1>2

\* _exact_cmp compares what the decimals are worth, in any unit.
LEMMA CmpFacts ==
  ASSUME NEW a \in Decimals, NEW b \in Decimals,
         NEW d \in Int, d <= a.exp, d <= b.exp
  PROVE  /\ ExactCmp(a, b) \in {-1, 0, 1}
         /\ ExactCmp(a, b) = -1 <=> InUnitsOf(a, d) < InUnitsOf(b, d)
         /\ ExactCmp(a, b) = 1 <=> InUnitsOf(a, d) > InUnitsOf(b, d)
<1> DEFINE e == LowerExp(a, b)
           x == InUnitsOf(a, e)
           y == InUnitsOf(b, e)
           t == TenTo[e - d]
<1>1. e \in Int /\ e <= a.exp /\ e <= b.exp /\ d <= e
  <2>1. e \in Int /\ e <= a.exp /\ e <= b.exp /\ e \in {a.exp, b.exp}
    BY LowerExpFacts
  <2>2. QED
    BY <2>1
<1>2. ExactCmp(a, b) = IF x < y THEN -1 ELSE IF x > y THEN 1 ELSE 0
  BY DEF ExactCmp
<1> HIDE DEF e
<1>3. x \in Int /\ y \in Int
  BY <1>1, UnitsFacts
<1>4. InUnitsOf(a, d) = x * t /\ InUnitsOf(b, d) = y * t
  BY <1>1, SmallerUnit
<1>5. t \in Nat \ {0}
  BY <1>1, TenToDef
<1> HIDE DEF x, y, t
<1>6. (x < y <=> x * t < y * t) /\ (x > y <=> x * t > y * t)
  BY <1>3, <1>5
<1>7. QED
  BY <1>2, <1>3, <1>4, <1>6

-----------------------------------------------------------------------------
(* The canonical form.                                                     *)

\* The loop that strips the zeros stops, and exactly when none is left.
LEMMA TrailingZerosFacts ==
  ASSUME NEW c \in Nat \ {0}
  PROVE  /\ TrailingZeros(c) \in Nat
         /\ c % TenTo[TrailingZeros(c)] = 0
         /\ c % TenTo[TrailingZeros(c) + 1] # 0
<1> DEFINE T == {k \in Nat : c % TenTo[k + 1] # 0}
<1>0. \A k \in Nat : TenTo[k] \in Nat \ {0}
  BY TenToDef
<1>1. c \in T
  <2>1. c + 1 \in Nat /\ c < TenTo[c + 1] /\ TenTo[c + 1] \in Nat \ {0}
    <3>1. c + 1 \in Nat /\ c + 1 < TenTo[c + 1]
      BY TenToGrows
    <3>2. QED
      BY <1>0, <3>1
  <2>2. \A m \in Nat \ {0} : c < m => c % m = c
    OBVIOUS
  <2>3. QED
    BY <2>1, <2>2
<1>2. T \subseteq Nat /\ T # {}
  BY <1>1
<1>3. PICK k \in T : \A j \in T : k <= j
  BY <1>2, LeastOf
<1>4. k \in 0..c /\ c % TenTo[k + 1] # 0
  BY <1>1, <1>3
<1>5. c % TenTo[k] = 0
  <2>1. CASE k = 0
    BY <2>1, TenToDef
  <2>2. CASE k # 0
    <3>1. k - 1 \in Nat /\ (k - 1) + 1 = k /\ ~(k <= k - 1)
      BY <1>4, <2>2
    <3>2. k - 1 \notin T
      BY <1>3, <3>1
    <3>3. QED
      BY <3>1, <3>2
  <2>3. QED
    BY <2>1, <2>2
<1> DEFINE Good(j) == c % TenTo[j] = 0 /\ c % TenTo[j + 1] # 0
<1>6. TrailingZeros(c) = CHOOSE j \in 0..c : Good(j)
  BY DEF TrailingZeros
<1>7. Good(k)
  BY <1>4, <1>5
<1> HIDE DEF Good
<1>8. TrailingZeros(c) \in 0..c /\ Good(TrailingZeros(c))
  BY <1>4, <1>6, <1>7
<1>9. QED
  BY <1>8 DEF Good

\* A decimal with nothing left to strip.
Stripped(a) == a = DecZero \/ a.coeff % 10 # 0

\* The canonical form has the same worth, in units of d <= a.exp, and a
\* higher exponent if zeros were stripped.
LEMMA CanonicalFacts ==
  ASSUME NEW a \in Decimals
  PROVE  /\ Canonical(a) \in Decimals /\ Stripped(Canonical(a))
         /\ Canonical(a).coeff = 0 <=> a.coeff = 0
         /\ a.coeff # 0 => a.exp <= Canonical(a).exp
         /\ \A d \in Int : d <= 0 /\ d <= a.exp =>
              InUnitsOf(Canonical(a), d) = InUnitsOf(a, d)
<1>0. a.coeff \in Nat /\ a.exp \in Int /\ a.neg \in BOOLEAN
  BY DEF Decimals
<1>1. CASE a.coeff = 0
  <2>1. Canonical(a) = DecZero
    BY <1>1 DEF Canonical
  <2>2. ASSUME NEW d \in Int, d <= 0, d <= a.exp
        PROVE  InUnitsOf(DecZero, d) = InUnitsOf(a, d)
    BY <1>1, <2>2, ZeroFacts, UnitsFacts
  <2>3. Stripped(DecZero)
    BY Zenon DEF Stripped
  <2>4. DecZero \in Decimals /\ DecZero.coeff = 0
    BY ZeroFacts
  <2>5. QED
    BY <1>1, <2>1, <2>2, <2>3, <2>4
<1>2. CASE a.coeff # 0
  <2> DEFINE k == TrailingZeros(a.coeff)
             t == TenTo[k]
             q == a.coeff \div t
             b == Canonical(a)
  <2>1. k \in Nat /\ a.coeff % t = 0 /\ a.coeff % TenTo[k + 1] # 0
    BY <1>0, <1>2, TrailingZerosFacts
  <2>2. b = Dec(a.neg, q, a.exp + k)
    BY <1>2 DEF Canonical
  <2> HIDE DEF b, k
  <2>3. t \in Nat \ {0} /\ TenTo[k + 1] = 10 * t
    BY <2>1, TenToDef
  <2> HIDE DEF t
  <2>4. q \in Nat /\ a.coeff = t * q
    BY <1>0, <2>1, <2>3
  <2> HIDE DEF q
  <2>5. q % 10 # 0
    <3>1. SUFFICES ASSUME q % 10 = 0 PROVE FALSE
      OBVIOUS
    <3>2. PICK r \in Nat : q = 10 * r
      <4>1. q = 10 * (q \div 10) /\ q \div 10 \in Nat
        BY <2>4, <3>1
      <4>2. QED
        BY <4>1
    <3>3. a.coeff = (10 * t) * r /\ 10 * t \in Nat \ {0}
      BY <2>3, <2>4, <3>2
    <3>4. \A m \in Nat \ {0}, n \in Nat : (m * n) % m = 0
      OBVIOUS
    <3>5. QED
      BY <2>1, <2>3, <3>2, <3>3, <3>4
  <2>6. b \in Decimals /\ b.coeff = q /\ b.exp = a.exp + k /\ b.neg = a.neg
    BY <1>0, <2>1, <2>2, <2>4 DEF Dec, Decimals
  <2>7. Signed(a) = t * Signed(b)
    <3>1. CASE a.neg
      BY <2>3, <2>4, <2>6, <3>1 DEF Signed
    <3>2. CASE ~a.neg
      BY <2>3, <2>4, <2>6, <3>2 DEF Signed
    <3>3. QED
      BY <3>1, <3>2
  <2>8. ASSUME NEW d \in Int, d <= 0, d <= a.exp
        PROVE  InUnitsOf(b, d) = InUnitsOf(a, d)
    <3> DEFINE m == a.exp - d
    <3>1. m \in Nat /\ b.exp - d = k + m /\ d <= b.exp
      BY <1>0, <2>1, <2>6, <2>8
    <3>2. InUnitsOf(a, d) = Signed(a) * TenTo[m] /\ InUnitsOf(b, d) = Signed(b) * TenTo[k + m]
      <4>1. InUnitsOf(b, d) = Signed(b) * TenTo[b.exp - d]
        BY <2>6, <3>1, UnitsFacts
      <4>2. InUnitsOf(a, d) = Signed(a) * TenTo[a.exp - d]
        BY <2>8, UnitsFacts
      <4>3. QED
        BY <3>1, <4>1, <4>2
    <3>3. Signed(b) \in Int
      BY <2>6, <3>1, UnitsFacts
    <3> HIDE DEF m
    <3>4. TenTo[k + m] = t * TenTo[m] /\ TenTo[m] \in Int
      <4>1. k \in Nat /\ m \in Nat
        BY <2>1, <3>1
      <4>2. TenTo[k + m] = TenTo[k] * TenTo[m]
        BY <4>1, TenToAdds
      <4>3. QED
        BY <4>1, <4>2, TenToDef DEF t
    <3>5. \A x, y, z \in Int : (x * y) * z = y * (x * z)
      OBVIOUS
    <3>6. t \in Int
      BY <2>3
    <3>7. QED
      BY <2>7, <3>2, <3>3, <3>4, <3>5, <3>6
  <2>9. b.coeff # 0 /\ a.exp <= b.exp /\ Stripped(b)
    BY <1>0, <2>1, <2>5, <2>6 DEF Stripped
  <2>10. QED
    BY <1>2, <2>6, <2>8, <2>9 DEF b
<1>3. QED
  BY <1>1, <1>2

\* No two stripped decimals are worth the same.
LEMMA StrippedUnique ==
  ASSUME NEW a \in Decimals, NEW b \in Decimals, Stripped(a), Stripped(b),
         NEW d \in Int, d <= a.exp, d <= b.exp, InUnitsOf(a, d) = InUnitsOf(b, d),
         a.exp <= b.exp
  PROVE  a = b
<1>0. /\ a.coeff \in Nat /\ a.exp \in Int /\ a.neg \in BOOLEAN
      /\ b.coeff \in Nat /\ b.exp \in Int /\ b.neg \in BOOLEAN
  BY DEF Decimals
<1>1. a.coeff = 0 <=> b.coeff = 0
  BY UnitsFacts
<1>2. CASE a.coeff = 0
  <2>1. 0 % 10 = 0
    OBVIOUS
  <2>2. a = DecZero /\ b = DecZero
    BY <1>1, <1>2, <2>1 DEF Stripped
  <2>3. QED
    BY <2>2
<1>3. CASE a.coeff # 0
  <2> DEFINE x == Signed(a)
             y == Signed(b)
             m == a.exp - d
             n == b.exp - a.exp
             t == TenTo[n]
             u == TenTo[m]
  <2>1. m \in Nat /\ n \in Nat /\ b.exp - d = n + m
    BY <1>0
  <2>2. x * TenTo[m] = y * TenTo[n + m] /\ x \in Int /\ y \in Int
    <3>1. InUnitsOf(a, d) = x * TenTo[a.exp - d] /\ x \in Int
      BY UnitsFacts
    <3>2. InUnitsOf(b, d) = y * TenTo[b.exp - d] /\ y \in Int
      BY UnitsFacts
    <3>3. QED
      BY <2>1, <3>1, <3>2
  <2>3. TenTo[n + m] = t * u /\ t \in Nat \ {0} /\ u \in Nat \ {0}
    <3> HIDE DEF m, n
    <3>1. TenTo[n + m] = TenTo[n] * TenTo[m]
      BY <2>1, TenToAdds
    <3>2. QED
      BY <2>1, <3>1, TenToDef
  <2> HIDE DEF x, y, t, u
  <2>4. x = y * t
    <3>1. x * u = (y * t) * u
      <4>1. y * (t * u) = (y * t) * u
        BY <2>2, <2>3
      <4>2. QED
        BY <2>2, <2>3, <4>1 DEF u
    <3>2. \A v, w \in Int, z \in Nat \ {0} : v * z = w * z => v = w
      OBVIOUS
    <3>3. y * t \in Int
      BY <2>2, <2>3
    <3>4. QED
      BY <2>2, <2>3, <3>1, <3>2, <3>3
  <2>5. a.coeff = b.coeff * t /\ (a.neg <=> b.neg)
    <3>1. b.coeff # 0 /\ b.coeff * t \in Nat \ {0}
      BY <1>0, <1>1, <1>3, <2>3
    <3>2. CASE a.neg /\ b.neg
      <4>1. -a.coeff = (-b.coeff) * t
        BY <2>4, <3>2 DEF x, y, Signed
      <4>2. (-b.coeff) * t = -(b.coeff * t)
        BY <1>0, <2>3
      <4>3. QED
        BY <1>0, <3>1, <3>2, <4>1, <4>2
    <3>3. CASE a.neg /\ ~b.neg
      <4>1. -a.coeff = b.coeff * t
        BY <2>4, <3>3 DEF x, y, Signed
      <4>2. QED
        BY <1>0, <3>1, <4>1
    <3>4. CASE ~a.neg /\ b.neg
      <4>1. a.coeff = (-b.coeff) * t
        BY <2>4, <3>4 DEF x, y, Signed
      <4>2. (-b.coeff) * t = -(b.coeff * t)
        BY <1>0, <2>3
      <4>3. QED
        BY <1>0, <3>1, <4>1, <4>2
    <3>5. CASE ~a.neg /\ ~b.neg
      <4>1. a.coeff = b.coeff * t
        BY <2>4, <3>5 DEF x, y, Signed
      <4>2. QED
        BY <3>5, <4>1
    <3>6. QED
      BY <1>0, <3>2, <3>3, <3>4, <3>5
  <2>6. n = 0
    <3>1. SUFFICES ASSUME n # 0 PROVE FALSE
      OBVIOUS
    <3>2. n - 1 \in Nat /\ (n - 1) + 1 = n
      BY <2>1, <3>1
    <3>3. t = 10 * TenTo[n - 1] /\ TenTo[n - 1] \in Nat
      BY <3>2, TenToDef DEF t
    <3>4. a.coeff = 10 * (b.coeff * TenTo[n - 1]) /\ b.coeff * TenTo[n - 1] \in Nat
      BY <1>0, <2>5, <3>3
    <3>5. a.coeff % 10 = 0
      BY <3>4
    <3>6. QED
      BY <1>3, <3>5, ZeroFacts DEF Stripped
  <2>7. t = 1
    BY <2>6, TenToDef DEF t
  <2>8. a.coeff = b.coeff /\ a.exp = b.exp /\ a.neg = b.neg
    BY <1>0, <2>5, <2>6, <2>7
  <2>9. QED
    BY <2>8 DEF Decimals
<1>4. QED
  BY <1>2, <1>3

\* Stripping again changes nothing.
LEMMA CanonicalTwice ==
  ASSUME NEW a \in Decimals, Stripped(a)
  PROVE  Canonical(a) = a
<1> DEFINE b == Canonical(a)
<1>1. a.exp \in Int
  BY DEF Decimals
<1>2. /\ b \in Decimals /\ Stripped(b)
      /\ b.coeff = 0 <=> a.coeff = 0
      /\ a.coeff # 0 => a.exp <= b.exp
      /\ \A d \in Int : d <= 0 /\ d <= a.exp => InUnitsOf(b, d) = InUnitsOf(a, d)
  BY CanonicalFacts
<1> HIDE DEF b
<1>3. CASE a.coeff = 0
  <2>1. 0 % 10 = 0
    OBVIOUS
  <2>2. QED
    BY <1>2, <1>3, <2>1 DEF Stripped, b
<1>4. CASE a.coeff # 0
  <2>1. PICK d \in Int : d <= 0 /\ d <= a.exp
    <3>1. CASE a.exp <= 0
      BY <1>1, <3>1
    <3>2. CASE ~(a.exp <= 0)
      BY <1>1, <3>2
    <3>3. QED
      BY <3>1, <3>2
  <2>2. b.exp \in Int /\ d <= b.exp /\ InUnitsOf(a, d) = InUnitsOf(b, d)
    BY <1>1, <1>2, <1>4, <2>1 DEF Decimals
  <2>3. a = b
    BY <1>2, <1>4, <2>1, <2>2, StrippedUnique
  <2>4. QED
    BY <2>3 DEF b
<1>5. QED
  BY <1>3, <1>4

\* What folds is within the bounds: those are tighter than the limit of str().
LEMMA OutcomeFacts ==
  ASSUME NEW x \in Decimals
  PROVE  /\ FoldOutcome(x) = "folds" <=> InBounds(x)
         /\ FoldOutcome(x) = "raises" <=> ~Writable(x)
<1>1. /\ MaxCoeffDigits \in Nat /\ MaxStrDigits \in Nat
      /\ MaxCoeffDigits <= MaxStrDigits
      /\ Canonical(x) \in Decimals
  BY DecimalAssumption, CanonicalFacts
<1>2. /\ TenTo[MaxCoeffDigits] \in Nat /\ TenTo[MaxStrDigits] \in Nat
      /\ TenTo[MaxCoeffDigits] <= TenTo[MaxStrDigits]
  BY <1>1, TenToDef, TenToMonotone
<1>3. InBounds(x) => Writable(x)
  BY <1>1, <1>2 DEF InBounds, Writable, Decimals
<1>4. QED
  BY <1>3 DEF FoldOutcome
=============================================================================
