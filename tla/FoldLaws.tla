------------------------------ MODULE FoldLaws ------------------------------
(***************************************************************************)
(* The folds of the community modules, once their definitions are          *)
(* expanded, are functions defined by recursion over the subsets of a set: *)
(* Base for the empty one, Step of the element that Pick takes from any    *)
(* other.  This module proves the equations that such folds obey.  All     *)
(* three operators get a context, so that one instance serves all calls.   *)
(***************************************************************************)
EXTENDS Numbers, FiniteSetsExt, FiniteSetTheorems, TLAPS

CONSTANTS Base(_), Step(_, _, _), Pick(_)

\* g is a function that the recursive definition behind a fold defines.
IsFold(g, c, U) ==
  g = [t \in SUBSET U |->
         IF t = {} THEN Base(c) ELSE Step(c, g[t \ {Pick(t)}], Pick(t))]

\* What the fold over U makes of a subset of U.
Fold(c, U, t) == (CHOOSE g : IsFold(g, c, U))[t]

\* Pick takes an element of every part of a finite set.
Picks(U) == IsFiniteSet(U) /\ \A t \in SUBSET U : t # {} => Pick(t) \in t

\* The steps for the elements of U stay in A and commute.
Commutes(c, U, A) ==
  /\ Base(c) \in A
  /\ \A a \in A, x \in U : Step(c, a, x) \in A
  /\ \A a \in A, x, y \in U : Step(c, Step(c, a, x), y) = Step(c, Step(c, a, y), x)

\* What the fold over 1 .. N makes of the first k numbers.
FoldUpTo(c, N, k) == Fold(c, 1 .. N, 1 .. k)

---------------------------------------------------------------------------
\* A finite set without an element is smaller by one.
LEMMA OneLess ==
  ASSUME NEW t, IsFiniteSet(t), NEW x \in t
  PROVE  /\ IsFiniteSet(t \ {x})
         /\ Cardinality(t) \in Nat /\ Cardinality(t) # 0
         /\ Cardinality(t \ {x}) = Cardinality(t) - 1
  BY FS_CardinalityType, FS_RemoveElement, FS_EmptySet

\* A nonempty set of numbers up to N has a largest one.
LEMMA MaxIsElement ==
  ASSUME NEW N \in Nat, NEW t \in SUBSET (1 .. N), t # {}
  PROVE  Max(t) \in t /\ \A y \in t : Max(t) >= y
<1> DEFINE HasMax(k) == \A s \in SUBSET (1 .. k) : s # {} => \E x \in s : \A y \in s : x >= y
           S == {k \in Nat : HasMax(k)}
<1>1. 0 \in S
  <2>1. \A s \in SUBSET (1 .. 0) : s = {}
    OBVIOUS
  <2> QED
    BY <2>1
<1>2. ASSUME NEW k \in Nat, k \in S
      PROVE  k + 1 \in S
  <2> SUFFICES ASSUME NEW s \in SUBSET (1 .. k + 1), s # {}
               PROVE  \E x \in s : \A y \in s : x >= y
    OBVIOUS
  <2>1. CASE k + 1 \in s
    BY <2>1
  <2>2. CASE k + 1 \notin s
    <3>1. s \in SUBSET (1 .. k)
      BY <2>2
    <3> QED
      BY <1>2, <3>1
  <2> QED
    BY <2>1, <2>2
<1> HIDE DEF S
<1>3. N \in S
  BY <1>1, <1>2, Induction
<1>4. \E x \in t : \A y \in t : x >= y
  BY <1>3 DEF S
<1> QED
  BY <1>4 DEF Max

---------------------------------------------------------------------------
\* The recursive definition does define a function: one for the subsets of at
\* most k elements extends to those of k + 1.
LEMMA FoldExists ==
  ASSUME NEW c, NEW U, Picks(U)
  PROVE  \E g : IsFold(g, c, U)
<1> DEFINE Small(k) == {t \in SUBSET U : Cardinality(t) <= k}
           Rec(g, t) == IF t = {} THEN Base(c) ELSE Step(c, g[t \ {Pick(t)}], Pick(t))
           Upto(g, k) == g = [t \in Small(k) |-> Rec(g, t)]
           S == {k \in Nat : \E g : Upto(g, k)}
<1>1. \A t \in SUBSET U : IsFiniteSet(t) /\ Cardinality(t) \in Nat
  BY FS_Subset, FS_CardinalityType DEF Picks
<1>2. 0 \in S
  <2> DEFINE g == [t \in Small(0) |-> Base(c)]
  <2>1. \A t \in Small(0) : t = {}
    BY <1>1, FS_EmptySet
  <2>2. Upto(g, 0)
    BY <2>1
  <2> QED
    BY <2>2
<1>3. ASSUME NEW k \in Nat, k \in S
      PROVE  k + 1 \in S
  <2>1. PICK g : Upto(g, k)
    BY <1>3
  <2> DEFINE h == [t \in Small(k + 1) |-> Rec(g, t)]
  <2>2. ASSUME NEW t \in Small(k + 1)
        PROVE  h[t] = Rec(h, t)
    <3>1. CASE t = {}
      BY <3>1
    <3>2. CASE t # {}
      <4> DEFINE s == t \ {Pick(t)}
      <4>1. s \in SUBSET U /\ Cardinality(s) <= k
        <5>1. Pick(t) \in t /\ t \in SUBSET U /\ IsFiniteSet(t) /\ Cardinality(t) <= k + 1
          BY <1>1, <3>2 DEF Picks
        <5>2. Cardinality(s) = Cardinality(t) - 1 /\ Cardinality(t) \in Nat
          BY <5>1, OneLess
        <5> QED
          BY <5>1, <5>2
      <4>2. s \in Small(k) /\ s \in Small(k + 1)
        <5>1. Cardinality(s) \in Nat
          BY <1>1, <4>1
        <5> QED
          BY <4>1, <5>1
      <4> HIDE DEF s
      <4>3. g[s] = Rec(g, s) /\ h[s] = Rec(g, s)
        BY <2>1, <4>2
      <4>4. h[t] = Rec(g, t)
        OBVIOUS
      <4>5. g[s] = h[s]
        BY <4>3
      <4> QED
        BY <3>2, <4>4, <4>5 DEF s
    <3> QED
      BY <3>1, <3>2
  <2>3. Upto(h, k + 1)
    BY <2>2
  <2> HIDE DEF h, Upto
  <2> QED
    BY <2>3
<1> HIDE DEF S
<1>4. Cardinality(U) \in S
  BY <1>1, <1>2, <1>3, Induction
<1>5. Small(Cardinality(U)) = SUBSET U
  BY FS_Subset DEF Picks
<1> QED
  BY <1>4, <1>5 DEF S, IsFold

\* The equations of the recursion.
LEMMA FoldRecurs ==
  ASSUME NEW c, NEW U, Picks(U)
  PROVE  /\ Fold(c, U, {}) = Base(c)
         /\ \A t \in SUBSET U :
              t # {} => Fold(c, U, t) = Step(c, Fold(c, U, t \ {Pick(t)}), Pick(t))
<1> DEFINE g == CHOOSE f : IsFold(f, c, U)
<1>1. IsFold(g, c, U)
  BY FoldExists
<1> HIDE DEF g
<1>2. g[{}] = Base(c) /\ \A t \in SUBSET U : t # {} => g[t] = Step(c, g[t \ {Pick(t)}], Pick(t))
  <2>1. {} \in SUBSET U
    OBVIOUS
  <2> QED
    BY <1>1, <2>1 DEF IsFold
<1> QED
  BY <1>2 DEF Fold, g

\* A fold that takes the largest number first is a loop that counts up.
LEMMA FoldIsLoop ==
  ASSUME NEW c, NEW N \in Nat, \A t : Pick(t) = Max(t)
  PROVE  /\ FoldUpTo(c, N, 0) = Base(c)
         /\ \A k \in 1 .. N :
              FoldUpTo(c, N, k) = Step(c, FoldUpTo(c, N, k - 1), k)
<1>1. IsFiniteSet(1 .. N)
  BY FS_Interval
<1>2. Picks(1 .. N)
  BY <1>1, MaxIsElement DEF Picks
<1>3. 1 .. 0 = {}
  OBVIOUS
<1>4. ASSUME NEW k \in 1 .. N
      PROVE  FoldUpTo(c, N, k) = Step(c, FoldUpTo(c, N, k - 1), k)
  <2>1. 1 .. k \in SUBSET (1 .. N) /\ k \in 1 .. k
    OBVIOUS
  <2>2. Pick(1 .. k) = k
    <3>1. Max(1 .. k) \in 1 .. k /\ \A y \in 1 .. k : Max(1 .. k) >= y
      BY <2>1, MaxIsElement
    <3>2. \A x \in 1 .. k : x >= k => x = k
      OBVIOUS
    <3> QED
      BY <2>1, <3>1, <3>2
  <2>3. (1 .. k) \ {k} = 1 .. (k - 1)
    OBVIOUS
  <2>4. 1 .. k # {}
    BY <2>1
  <2> DEFINE s == 1 .. k
  <2>5. Fold(c, 1 .. N, s) = Step(c, Fold(c, 1 .. N, s \ {Pick(s)}), Pick(s))
    <3> HIDE DEF s
    <3> QED
      BY <1>2, <2>1, <2>4, FoldRecurs DEF s
  <2> QED
    BY <2>2, <2>3, <2>5 DEF FoldUpTo
<1> QED
  BY <1>2, <1>3, <1>4, FoldRecurs DEF FoldUpTo

\* A fold over a part of a set is that of the part.
LEMMA FoldIsLocal ==
  ASSUME NEW c, NEW V, Picks(V), NEW U \in SUBSET V
  PROVE  \A t \in SUBSET U : Fold(c, U, t) = Fold(c, V, t)
<1> DEFINE S == {k \in Nat : \A t \in SUBSET U :
                   Cardinality(t) = k => Fold(c, U, t) = Fold(c, V, t)}
<1>1. Picks(U)
  BY FS_Subset DEF Picks
<1>2. \A t \in SUBSET U : IsFiniteSet(t) /\ Cardinality(t) \in Nat
  BY <1>1, FS_Subset, FS_CardinalityType DEF Picks
<1>3. 0 \in S
  <2>1. Fold(c, U, {}) = Fold(c, V, {})
    BY <1>1, FoldRecurs
  <2> QED
    BY <1>2, <2>1, FS_EmptySet
<1>4. ASSUME NEW k \in Nat, k \in S
      PROVE  k + 1 \in S
  <2> SUFFICES ASSUME NEW t \in SUBSET U, Cardinality(t) = k + 1
               PROVE  Fold(c, U, t) = Fold(c, V, t)
    OBVIOUS
  <2>1. t # {}
    BY FS_EmptySet
  <2>2. Pick(t) \in t
    BY <1>1, <2>1 DEF Picks
  <2>3. Cardinality(t \ {Pick(t)}) = k
    BY <1>2, <2>2, OneLess
  <2>4. t \ {Pick(t)} \in SUBSET U /\ t \in SUBSET V
    OBVIOUS
  <2>5. Fold(c, U, t \ {Pick(t)}) = Fold(c, V, t \ {Pick(t)})
    BY <1>4, <2>3, <2>4
  <2>6. Fold(c, U, t) = Step(c, Fold(c, U, t \ {Pick(t)}), Pick(t))
    BY <1>1, <2>1, FoldRecurs
  <2>7. Fold(c, V, t) = Step(c, Fold(c, V, t \ {Pick(t)}), Pick(t))
    BY <2>1, <2>4, FoldRecurs
  <2> QED
    BY <2>5, <2>6, <2>7
<1> HIDE DEF S
<1>5. \A k \in Nat : k \in S
  BY <1>3, <1>4, Induction
<1> QED
  BY <1>2, <1>5 DEF S

\* When steps commute, any element may be taken first.
LEMMA FoldIsUnordered ==
  ASSUME NEW c, NEW V, Picks(V), NEW A, Commutes(c, V, A)
  PROVE  /\ Fold(c, {}, {}) = Base(c)
         /\ \A t \in SUBSET V : Fold(c, t, t) \in A
         /\ \A t \in SUBSET V : \A x \in t :
              Fold(c, t, t) = Step(c, Fold(c, t \ {x}, t \ {x}), x)
<1> DEFINE F(t) == Fold(c, V, t)
           Law(t) == F(t) \in A /\ \A x \in t : F(t) = Step(c, F(t \ {x}), x)
           S == {k \in Nat : \A t \in SUBSET V : Cardinality(t) <= k => Law(t)}
<1>1. \A t \in SUBSET V : IsFiniteSet(t) /\ Cardinality(t) \in Nat
  BY FS_Subset, FS_CardinalityType DEF Picks
<1>2. F({}) = Base(c)
  BY FoldRecurs
<1>3. \A t \in SUBSET V : t # {} => Pick(t) \in t /\ F(t) = Step(c, F(t \ {Pick(t)}), Pick(t))
  BY FoldRecurs DEF Picks
<1> HIDE DEF F
<1>4. 0 \in S
  <2>1. Law({})
    BY <1>2 DEF Commutes
  <2>2. \A t \in SUBSET V : Cardinality(t) <= 0 => t = {}
    BY <1>1, FS_EmptySet
  <2> HIDE DEF Law
  <2> QED
    BY <2>1, <2>2
<1>5. ASSUME NEW k \in Nat, k \in S
      PROVE  k + 1 \in S
  <2> SUFFICES ASSUME NEW t \in SUBSET V, Cardinality(t) <= k + 1
               PROVE  Law(t)
    OBVIOUS
  <2>1. \A x \in t : t \ {x} \in SUBSET V /\ Cardinality(t \ {x}) <= k
    BY <1>1, OneLess
  <2>2. \A x \in t : Law(t \ {x})
    BY <1>5, <2>1
  <2>3. CASE t = {}
    BY <1>2, <2>3 DEF Commutes
  <2>4. CASE t # {}
    <3> DEFINE p == Pick(t)
    <3>1. p \in t /\ F(t) = Step(c, F(t \ {p}), p)
      BY <1>3, <2>4
    <3> HIDE DEF p
    <3>2. F(t) \in A
      BY <2>2, <3>1 DEF Commutes
    <3>3. ASSUME NEW x \in t, x # p
          PROVE  F(t) = Step(c, F(t \ {x}), x)
      <4> DEFINE s == (t \ {x}) \ {p}
      <4>1. s = (t \ {p}) \ {x} /\ x \in t \ {p} /\ p \in t \ {x}
        BY <3>1, <3>3
      <4>2. F(t \ {p}) = Step(c, F(s), x) /\ F(t \ {x}) = Step(c, F(s), p)
        BY <2>2, <3>1, <4>1
      <4>3. F(s) \in A
        <5>1. s \in SUBSET V
          OBVIOUS
        <5>2. Cardinality(s) <= k
          <6>1. IsFiniteSet(t \ {x}) /\ Cardinality(t \ {x}) <= k /\ p \in t \ {x}
            BY <1>1, <2>1, <4>1
          <6>2. Cardinality(s) = Cardinality(t \ {x}) - 1 /\ Cardinality(t \ {x}) \in Nat
            BY <6>1, OneLess
          <6> QED
            BY <6>1, <6>2
        <5>3. Law(s)
          BY <1>5, <5>1, <5>2
        <5> QED
          BY <5>3
      <4> HIDE DEF s
      <4>4. Step(c, Step(c, F(s), x), p) = Step(c, Step(c, F(s), p), x)
        BY <3>1, <4>3 DEF Commutes
      <4> QED
        BY <3>1, <4>2, <4>4
    <3> QED
      BY <3>1, <3>2, <3>3
  <2> QED
    BY <2>3, <2>4
<1> HIDE DEF S, Law
<1>6. \A k \in Nat : k \in S
  BY <1>4, <1>5, Induction
<1>7. \A t \in SUBSET V : Law(t)
  <2> TAKE t \in SUBSET V
  <2>1. Cardinality(t) \in S /\ Cardinality(t) <= Cardinality(t)
    BY <1>1, <1>6
  <2> QED
    BY <2>1 DEF S
<1>8. \A t \in SUBSET V : Fold(c, t, t) = F(t)
  BY FoldIsLocal DEF F
<1>9. \A t \in SUBSET V : \A x \in t : t \ {x} \in SUBSET V
  OBVIOUS
<1> QED
  BY <1>2, <1>7, <1>8, <1>9 DEF Law
=============================================================================
