------------------------------ MODULE Numbers ------------------------------
(***************************************************************************)
(* What the proofs about counters, windows and folds need of the integers: *)
(* induction over a set of numbers, and division with a remainder, whose   *)
(* quotient the provers do not find by themselves.                         *)
(***************************************************************************)
EXTENDS Integers, WellFoundedInduction, TLAPS

\* A set that has 0, and with each number the next one, has all numbers.
LEMMA Induction ==
  ASSUME NEW S, 0 \in S, \A k \in Nat : k \in S => k + 1 \in S
  PROVE  \A k \in Nat : k \in S
<1> DEFINE R == OpToRel(<, Nat)
           T == {k \in Nat : k \notin S}
<1>1. SUFFICES ASSUME T # {} PROVE FALSE
  OBVIOUS
<1>2. IsWellFoundedOn(R, Nat)
  BY NatLessThanWellFounded
<1>3. \A x, y \in Nat : y < x => <<y, x>> \in R
  BY DEF OpToRel
<1> HIDE DEF R
<1>4. PICK x \in T : \A y \in T : <<y, x>> \notin R
  BY <1>1, <1>2, WFMin
<1>5. x \in Nat /\ x # 0 /\ \A y \in T : ~(y < x)
  BY <1>3, <1>4
<1>6. x - 1 \in Nat /\ x - 1 < x /\ (x - 1) + 1 = x
  BY <1>5
<1>7. x - 1 \in S
  BY <1>5, <1>6
<1> QED
  BY <1>4, <1>6, <1>7

\* There is one remainder.
LEMMA RemainderIsUnique ==
  ASSUME NEW x \in Int, NEW m \in Nat \ {0}, NEW q \in Int, NEW r \in 0 .. m - 1,
         x = m * q + r
  PROVE  x % m = r
  OBVIOUS

\* Division with a remainder.
LEMMA Remainder ==
  ASSUME NEW x \in Int, NEW m \in Nat \ {0}
  PROVE  \E q \in Int : x = m * q + (x % m)
<1> DEFINE Divides(y) == \E q \in Int, r \in 0 .. m - 1 : y = m * q + r
           S == {y \in Nat : Divides(y) /\ Divides(0 - y)}
<1>1. 0 \in S
  <2>1. m * 0 = 0 /\ 0 \in 0 .. m - 1
    OBVIOUS
  <2>2. 0 = m * 0 + 0 /\ 0 - 0 = 0
    BY <2>1
  <2>3. Divides(0)
    BY <2>1, <2>2
  <2> QED
    BY <2>2, <2>3
<1>2. ASSUME NEW y \in Nat, y \in S
      PROVE  y + 1 \in S
  <2>1. Divides(y + 1)
    <3>1. PICK q \in Int, r \in 0 .. m - 1 : y = m * q + r
      BY <1>2
    <3>2. CASE r = m - 1
      <4>1. y + 1 = m * (q + 1) + 0 /\ 0 \in 0 .. m - 1 /\ q + 1 \in Int
        BY <3>1, <3>2
      <4> QED
        BY <4>1
    <3>3. CASE r # m - 1
      <4>1. y + 1 = m * q + (r + 1) /\ r + 1 \in 0 .. m - 1
        BY <3>1, <3>3
      <4> QED
        BY <4>1
    <3> QED
      BY <3>2, <3>3
  <2>2. Divides(0 - (y + 1))
    <3>1. PICK q \in Int, r \in 0 .. m - 1 : 0 - y = m * q + r
      BY <1>2
    <3>2. CASE r = 0
      <4>1. 0 - (y + 1) = m * (q - 1) + (m - 1) /\ m - 1 \in 0 .. m - 1 /\ q - 1 \in Int
        BY <3>1, <3>2
      <4> QED
        BY <4>1
    <3>3. CASE r # 0
      <4>1. 0 - (y + 1) = m * q + (r - 1) /\ r - 1 \in 0 .. m - 1
        BY <3>1, <3>3
      <4> QED
        BY <4>1
    <3> QED
      BY <3>2, <3>3
  <2> HIDE DEF Divides
  <2> QED
    BY <2>1, <2>2
<1> HIDE DEF S, Divides
<1>3. \A y \in Nat : y \in S
  BY <1>1, <1>2, Induction
<1>4. Divides(x)
  <2>1. CASE x \in Nat
    BY <1>3, <2>1 DEF S
  <2>2. CASE 0 - x \in Nat
    <3>1. x = 0 - (0 - x)
      OBVIOUS
    <3> QED
      BY <1>3, <2>2, <3>1 DEF S
  <2>3. x \in Nat \/ 0 - x \in Nat
    OBVIOUS
  <2> QED
    BY <2>1, <2>2, <2>3
<1>5. PICK q \in Int, r \in 0 .. m - 1 : x = m * q + r
  BY <1>4 DEF Divides
<1>6. x % m = r
  BY <1>5, RemainderIsUnique
<1>7. x = m * q + (x % m)
  BY <1>5, <1>6
<1> QED
  BY <1>7

\* A remainder may be taken early.
LEMMA RemainderOfSum ==
  ASSUME NEW x \in Int, NEW y \in Int, NEW m \in Nat \ {0}
  PROVE  ((x % m) + y) % m = (x + y) % m
<1> DEFINE r == x % m
           s == (r + y) % m
<1>1. r \in Int /\ s \in 0 .. m - 1
  OBVIOUS
<1>2. PICK q \in Int : x = m * q + r
  BY Remainder
<1> HIDE DEF r
<1>0. r + y \in Int
  BY <1>1
<1>3. PICK p \in Int : r + y = m * p + s
  BY <1>0, Remainder
<1> HIDE DEF s
<1>4. x + y = m * (q + p) + s
  BY <1>1, <1>2, <1>3
<1>6. x + y \in Int /\ q + p \in Int
  OBVIOUS
<1>5. (x + y) % m = s
  BY <1>1, <1>4, <1>6, RemainderIsUnique
<1> QED
  BY <1>5 DEF r, s

\* There is one quotient.
LEMMA QuotientIsUnique ==
  ASSUME NEW x \in Int, NEW m \in Nat \ {0}, NEW q \in Int, NEW r \in 0 .. m - 1,
         x = m * q + r
  PROVE  x \div m = q
  OBVIOUS

\* A multiple of the divisor may be taken out of the dividend.
LEMMA QuotientOfSum ==
  ASSUME NEW x \in Nat, NEW m \in Nat \ {0}, NEW e \in Int
  PROVE  (x + m * e) \div m = (x \div m) + e /\ x \div m \in Int
<1>1. x \in Int
  OBVIOUS
<1>2. PICK q \in Int : x = m * q + (x % m)
  BY <1>1, Remainder
<1>3. x % m \in 0 .. m - 1
  OBVIOUS
<1> DEFINE r == x % m
<1> HIDE DEF r
<1>4. r \in 0 .. m - 1 /\ x = m * q + r /\ q + e \in Int
  BY <1>2, <1>3 DEF r
<1>5. x + m * e = m * (q + e) + r /\ x + m * e \in Int
  BY <1>4
<1>6. x \div m = q
  BY <1>1, <1>4, QuotientIsUnique
<1>7. (x + m * e) \div m = q + e
  BY <1>4, <1>5, QuotientIsUnique
<1> QED
  BY <1>6, <1>7

\* A proper fraction x / m of y is below y.
LEMMA FractionOf ==
  ASSUME NEW m \in Nat \ {0}, NEW x \in 0 .. m - 1, NEW y \in Nat \ {0}
  PROVE  x * y \in Nat /\ (x * y) \div m \in 0 .. y - 1
<1> DEFINE z == x * y
           q == z \div m
<1>1. z \in Nat /\ z <= (m - 1) * y
  OBVIOUS
<1>2. (m - 1) * y = m * y - y
  OBVIOUS
<1>3. m * y \in Int
  OBVIOUS
<1>4. z < m * y
  BY <1>1, <1>2, <1>3
<1> HIDE DEF z
<1>5. z \in Int
  BY <1>1
<1>6. PICK p \in Int : z = m * p + (z % m)
  BY <1>5, Remainder
<1>7. z % m \in 0 .. m - 1
  BY <1>5
<1>8. q = p
  BY <1>5, <1>6, <1>7, QuotientIsUnique
<1> HIDE DEF q
<1>9. p >= 0
  <2> SUFFICES ASSUME p <= -1 PROVE FALSE
    OBVIOUS
  <2>1. m * p <= m * (-1) /\ m * (-1) = -m /\ m * p \in Int
    OBVIOUS
  <2> QED
    BY <1>1, <1>6, <1>7, <2>1
<1>10. p < y
  <2> SUFFICES ASSUME p >= y PROVE FALSE
    OBVIOUS
  <2>1. m * p >= m * y /\ m * p \in Int
    OBVIOUS
  <2> QED
    BY <1>3, <1>4, <1>5, <1>6, <1>7, <2>1
<1> QED
  BY <1>1, <1>8, <1>9, <1>10 DEF z, q
=============================================================================
