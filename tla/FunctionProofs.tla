--------------------------- MODULE FunctionProofs ---------------------------
(***************************************************************************)
(* Proofs about the pure functions: matchSeg and matchSegs accept what     *)
(* globs mean, messages cross hops as they should, and draws do not        *)
(* confuse their coordinates, for all inputs.                              *)
(***************************************************************************)
EXTENDS MCFunctions, Numbers, SequenceTheorems, FiniteSetTheorems, TLAPS

---------------------------------------------------------------------------
(* Runs: what the elements of a pattern take. *)

\* Element k takes the run of the input from behind cut[k] up to cut[k+1].
\* Wilds has the places of the wildcards, Fits the pairs of a plain element and
\* an input element that it takes.
TakesRun(cut, Wilds, Fits, k) ==
  /\ cut[k] <= cut[k+1]
  /\ k \in Wilds \/ (cut[k+1] = cut[k] + 1 /\ <<k, cut[k+1]>> \in Fits)

\* A pattern of n elements, from element i on, takes an input of l elements,
\* from element j on.
Takes(n, l, Wilds, Fits, i, j) ==
  \E cut \in [i .. n + 1 -> 0 .. l] :
     /\ cut[i] = j - 1 /\ cut[n+1] = l
     /\ \A k \in i .. n : TakesRun(cut, Wilds, Fits, k)

\* An empty pattern takes the empty input.
LEMMA NothingTakes ==
  ASSUME NEW n \in Nat, NEW l \in Nat, NEW Wilds, NEW Fits, NEW j \in 1 .. l + 1
  PROVE  Takes(n, l, Wilds, Fits, n + 1, j) <=> j = l + 1
<1>1. ASSUME j = l + 1
      PROVE  Takes(n, l, Wilds, Fits, n + 1, j)
  <2> DEFINE cut == [k \in n + 1 .. n + 1 |-> l]
  <2>1. cut \in [n + 1 .. n + 1 -> 0 .. l] /\ cut[n+1] = j - 1 /\ cut[n+1] = l
    BY <1>1
  <2>2. n + 1 .. n = {}
    OBVIOUS
  <2> HIDE DEF cut
  <2> QED
    BY <2>1, <2>2 DEF Takes
<1>2. ASSUME Takes(n, l, Wilds, Fits, n + 1, j)
      PROVE  j = l + 1
  BY <1>2 DEF Takes
<1> QED
  BY <1>1, <1>2

\* Whether an element takes its run depends on where that is.
LEMMA SameRun ==
  ASSUME NEW cut, NEW other, NEW Wilds, NEW Fits, NEW k,
         other[k] = cut[k], other[k+1] = cut[k+1]
  PROVE  TakesRun(other, Wilds, Fits, k) <=> TakesRun(cut, Wilds, Fits, k)
BY DEF TakesRun

\* The first element takes a run, and the others take the rest.
LEMMA FirstTakes ==
  ASSUME NEW n \in Nat, NEW l \in Nat, NEW Wilds, NEW Fits,
         NEW i \in 1 .. n, NEW j \in 1 .. l + 1
  PROVE  Takes(n, l, Wilds, Fits, i, j)
           <=> \E x \in j .. l + 1 :
                 /\ i \in Wilds \/ (x = j + 1 /\ <<i, j>> \in Fits)
                 /\ Takes(n, l, Wilds, Fits, i + 1, x)
<1>1. /\ i \in i .. n /\ i + 1 \in i .. n + 1
      /\ n + 1 \in i + 1 .. n + 1 /\ i + 1 \in i + 1 .. n + 1
  OBVIOUS
<1>2. ASSUME Takes(n, l, Wilds, Fits, i, j)
      PROVE  \E x \in j .. l + 1 :
               /\ i \in Wilds \/ (x = j + 1 /\ <<i, j>> \in Fits)
               /\ Takes(n, l, Wilds, Fits, i + 1, x)
  <2>1. PICK cut \in [i .. n + 1 -> 0 .. l] :
          /\ cut[i] = j - 1 /\ cut[n+1] = l
          /\ \A k \in i .. n : TakesRun(cut, Wilds, Fits, k)
    BY <1>2 DEF Takes
  <2> DEFINE rest == [k \in i + 1 .. n + 1 |-> cut[k]]
             x == cut[i+1] + 1
  <2>2. rest \in [i + 1 .. n + 1 -> 0 .. l] /\ \A k \in i + 1 .. n + 1 : rest[k] = cut[k]
    BY <2>1
  <2>3. cut[i+1] \in 0 .. l /\ TakesRun(cut, Wilds, Fits, i)
    BY <1>1, <2>1
  <2>4. x \in j .. l + 1 /\ (i \in Wilds \/ (x = j + 1 /\ <<i, j>> \in Fits))
    <3>1. cut[i+1] >= j - 1
      BY <2>1, <2>3 DEF TakesRun
    <3>2. cut[i+1] = cut[i] + 1 => cut[i+1] = j
      BY <2>1
    <3> QED
      BY <2>1, <2>3, <3>1, <3>2 DEF TakesRun
  <2>5. rest[i+1] = x - 1 /\ rest[n+1] = l
    BY <1>1, <2>1, <2>2, <2>3
  <2> HIDE DEF rest, x
  <2>6. ASSUME NEW k \in i + 1 .. n
        PROVE  TakesRun(rest, Wilds, Fits, k)
    <3>1. k \in i .. n /\ rest[k] = cut[k] /\ rest[k+1] = cut[k+1]
      BY <2>2
    <3> QED
      BY <2>1, <3>1, SameRun
  <2>7. Takes(n, l, Wilds, Fits, i + 1, x)
    BY <2>2, <2>5, <2>6 DEF Takes
  <2> QED
    BY <2>4, <2>7
<1>3. ASSUME NEW x \in j .. l + 1,
             i \in Wilds \/ (x = j + 1 /\ <<i, j>> \in Fits),
             Takes(n, l, Wilds, Fits, i + 1, x)
      PROVE  Takes(n, l, Wilds, Fits, i, j)
  <2>1. PICK cut \in [i + 1 .. n + 1 -> 0 .. l] :
          /\ cut[i+1] = x - 1 /\ cut[n+1] = l
          /\ \A k \in i + 1 .. n : TakesRun(cut, Wilds, Fits, k)
    BY <1>3 DEF Takes
  <2> DEFINE all == [k \in i .. n + 1 |-> IF k = i THEN j - 1 ELSE cut[k]]
  <2>2. /\ all \in [i .. n + 1 -> 0 .. l] /\ all[i] = j - 1
        /\ \A k \in i + 1 .. n + 1 : all[k] = cut[k]
    BY <2>1
  <2> HIDE DEF all
  <2>3. all[n+1] = l /\ all[i+1] = x - 1
    BY <1>1, <2>1, <2>2
  <2>4. TakesRun(all, Wilds, Fits, i)
    <3>1. all[i] <= all[i+1]
      BY <2>2, <2>3
    <3>2. x = j + 1 => all[i+1] = j /\ all[i+1] = all[i] + 1
      BY <2>2, <2>3
    <3> QED
      BY <1>3, <3>1, <3>2 DEF TakesRun
  <2>5. ASSUME NEW k \in i + 1 .. n
        PROVE  TakesRun(all, Wilds, Fits, k)
    <3>1. all[k] = cut[k] /\ all[k+1] = cut[k+1]
      BY <2>2
    <3> QED
      BY <2>1, <3>1, SameRun
  <2>6. \A k \in i .. n : k = i \/ k \in i + 1 .. n
    OBVIOUS
  <2>7. \A k \in i .. n : TakesRun(all, Wilds, Fits, k)
    BY <2>4, <2>5, <2>6
  <2> QED
    BY <2>2, <2>3, <2>7 DEF Takes
<1> QED
  BY <1>2, <1>3

\* A wildcard takes any run.
LEMMA WildcardTakes ==
  ASSUME NEW n \in Nat, NEW l \in Nat, NEW Wilds, NEW Fits,
         NEW i \in 1 .. n, NEW j \in 1 .. l + 1, i \in Wilds
  PROVE  Takes(n, l, Wilds, Fits, i, j)
           <=> \E x \in j .. l + 1 : Takes(n, l, Wilds, Fits, i + 1, x)
BY FirstTakes

\* A plain element takes one that fits.
LEMMA PlainTakes ==
  ASSUME NEW n \in Nat, NEW l \in Nat, NEW Wilds, NEW Fits,
         NEW i \in 1 .. n, NEW j \in 1 .. l + 1, i \notin Wilds
  PROVE  Takes(n, l, Wilds, Fits, i, j)
           <=> j <= l /\ <<i, j>> \in Fits /\ Takes(n, l, Wilds, Fits, i + 1, j + 1)
<1>1. j + 1 \in j .. l + 1 <=> j <= l
  OBVIOUS
<1>2. Takes(n, l, Wilds, Fits, i, j)
        <=> \E x \in j .. l + 1 :
              x = j + 1 /\ <<i, j>> \in Fits /\ Takes(n, l, Wilds, Fits, i + 1, x)
  BY FirstTakes
<1> QED
  BY <1>1, <1>2, Zenon

\* A run of plain elements takes its elements one by one.
LEMMA PlainRunTakes ==
  ASSUME NEW n \in Nat, NEW l \in Nat, NEW Wilds, NEW Fits,
         NEW i \in 1 .. n + 1, NEW end \in i .. n + 1, NEW j \in 1 .. l + 1,
         \A k \in i .. end - 1 : k \notin Wilds
  PROVE  Takes(n, l, Wilds, Fits, i, j)
           <=> /\ j + (end - i) <= l + 1
               /\ \A k \in i .. end - 1 : <<k, j + (k - i)>> \in Fits
               /\ Takes(n, l, Wilds, Fits, end, j + (end - i))
<1> DEFINE T(x, y) == Takes(n, l, Wilds, Fits, x, y)
           Fit(d) == \A k \in i .. i + d - 1 : <<k, j + (k - i)>> \in Fits
           Law(d) == T(i, j) <=> j + d <= l + 1 /\ Fit(d) /\ T(i + d, j + d)
           S == {d \in Nat : i + d <= end => Law(d)}
<1>1. 0 \in S
  <2>1. Fit(0) /\ j + 0 <= l + 1 /\ i + 0 = i /\ j + 0 = j
    OBVIOUS
  <2> HIDE DEF T, Fit
  <2> QED
    BY <2>1
<1>2. ASSUME NEW d \in Nat, d \in S
      PROVE  d + 1 \in S
  <2> SUFFICES ASSUME i + (d + 1) <= end
               PROVE  Law(d + 1)
    OBVIOUS
  <2>1. Law(d) /\ i + d \in 1 .. n /\ i + d \notin Wilds
    <3>1. i + d <= end /\ i + d \in 1 .. n /\ i + d \in i .. end - 1
      OBVIOUS
    <3> HIDE DEF Law
    <3> QED
      BY <1>2, <3>1
  <2>2. /\ (i + d) + 1 = i + (d + 1) /\ (j + d) + 1 = j + (d + 1)
        /\ j + d <= l <=> j + (d + 1) <= l + 1
        /\ j + (d + 1) <= l + 1 => j + d <= l + 1
        /\ j + d <= l + 1 => j + d \in 1 .. l + 1
    OBVIOUS
  <2>3. j + d <= l + 1 =>
          (T(i + d, j + d) <=> j + d <= l /\ <<i + d, j + d>> \in Fits
                               /\ T(i + (d + 1), j + (d + 1)))
    <3> SUFFICES ASSUME j + d <= l + 1
                 PROVE  T(i + d, j + d) <=> j + d <= l /\ <<i + d, j + d>> \in Fits
                               /\ T(i + (d + 1), j + (d + 1))
      OBVIOUS
    <3> DEFINE x == i + d
               y == j + d
    <3>1. x \in 1 .. n /\ y \in 1 .. l + 1 /\ x \notin Wilds
          /\ x + 1 = i + (d + 1) /\ y + 1 = j + (d + 1)
      BY <2>1, <2>2
    <3> HIDE DEF x, y
    <3>2. Takes(n, l, Wilds, Fits, x, y)
            <=> y <= l /\ <<x, y>> \in Fits /\ Takes(n, l, Wilds, Fits, x + 1, y + 1)
      BY <3>1, PlainTakes
    <3> QED
      BY <3>1, <3>2 DEF x, y
  <2>4. Fit(d + 1) <=> Fit(d) /\ <<i + d, j + d>> \in Fits
    <3>1. \A k : k \in i .. i + (d + 1) - 1 <=> k \in i .. i + d - 1 \/ k = i + d
      OBVIOUS
    <3>2. j + ((i + d) - i) = j + d
      OBVIOUS
    <3> QED
      BY <3>1, <3>2
  <2> HIDE DEF T, Fit
  <2> QED
    BY <2>1, <2>2, <2>3, <2>4
<1> DEFINE D == end - i
<1>3. D \in S
  <2> HIDE DEF S
  <2>1. D \in Nat
    OBVIOUS
  <2> HIDE DEF D
  <2> QED
    BY <1>1, <1>2, <2>1, Induction
<1>4. i + D = end /\ i + D - 1 = end - 1 /\ end <= end
  OBVIOUS
<1>5. Law(D)
  <2> HIDE DEF Law, D
  <2> QED
    BY <1>3, <1>4
<1> QED
  BY <1>4, <1>5

---------------------------------------------------------------------------
(* The search of matchSegs. *)

\* The places of the double wildcards, and what the other segments match.
DoubleWilds(pattern) == {k \in 1 .. Len(pattern) : pattern[k] = DoubleWild}
SegFits(pattern, segs) ==
  {f \in (1 .. Len(pattern)) \X (1 .. Len(segs)) : matchSeg(pattern[f[1]], segs[f[2]])}

\* matchSegs is the search for the runs.
LEMMA SearchTakes ==
  ASSUME NEW pattern, NEW segs, Len(pattern) \in Nat, Len(segs) \in Nat
  PROVE  matchSegs(pattern, segs)
           <=> Takes(Len(pattern), Len(segs), DoubleWilds(pattern),
                     SegFits(pattern, segs), 1, 1)
<1> DEFINE n == Len(pattern)
           l == Len(segs)
           T(i, j) == Takes(n, l, DoubleWilds(pattern), SegFits(pattern, segs), i, j)
           Rec(f, i) ==
             IF i > n THEN {l + 1}
             ELSE IF pattern[i] = DoubleWild
                  THEN {j \in 1 .. l + 1 : \E split \in f[i+1] : j <= split}
             ELSE {j \in 1 .. l : matchSeg(pattern[i], segs[j]) /\ j + 1 \in f[i+1]}
           m == CHOOSE f : f = [i \in 1 .. n + 1 |-> Rec(f, i)]
           M == [i \in 1 .. n + 1 |-> {j \in 1 .. l + 1 : T(i, j)}]
<1>1. ASSUME NEW i \in 1 .. n + 1
      PROVE  M[i] = Rec(M, i)
  <2>1. M[i] = {j \in 1 .. l + 1 : T(i, j)}
    OBVIOUS
  <2>2. i <= n => i \in 1 .. n /\ M[i+1] = {j \in 1 .. l + 1 : T(i + 1, j)}
    OBVIOUS
  <2> HIDE DEF M
  <2>3. CASE i > n
    <3>1. i = n + 1
      BY <2>3
    <3>2. \A j \in 1 .. l + 1 : T(n + 1, j) <=> j = l + 1
      BY NothingTakes
    <3>3. l + 1 \in 1 .. l + 1
      OBVIOUS
    <3> HIDE DEF T
    <3> QED
      BY <2>1, <2>3, <3>1, <3>2, <3>3
  <2>4. CASE i <= n /\ pattern[i] = DoubleWild
    <3>1. i \in DoubleWilds(pattern)
      BY <2>2, <2>4 DEF DoubleWilds
    <3>2. \A j \in 1 .. l + 1 : T(i, j) <=> \E x \in j .. l + 1 : T(i + 1, x)
      BY <2>2, <2>4, <3>1, WildcardTakes
    <3>3. \A j \in 1 .. l + 1 : \A x : x \in j .. l + 1 <=> x \in 1 .. l + 1 /\ j <= x
      OBVIOUS
    <3> HIDE DEF T
    <3>4. \A j \in 1 .. l + 1 : T(i, j) <=> \E x \in M[i+1] : j <= x
      BY <2>2, <2>4, <3>2, <3>3
    <3> QED
      BY <2>1, <2>4, <3>4
  <2>5. CASE i <= n /\ pattern[i] # DoubleWild
    <3>1. i \notin DoubleWilds(pattern) /\ i \in 1 .. n
      BY <2>2, <2>5 DEF DoubleWilds
    <3>2. \A j \in 1 .. l + 1 :
             T(i, j) <=> j <= l /\ <<i, j>> \in SegFits(pattern, segs) /\ T(i + 1, j + 1)
      BY <3>1, PlainTakes
    <3>3. \A j \in 1 .. l : /\ j \in 1 .. l + 1 /\ j + 1 \in 1 .. l + 1
                            /\ <<i, j>> \in SegFits(pattern, segs) <=> matchSeg(pattern[i], segs[j])
      BY <3>1 DEF SegFits
    <3>4. \A j \in 1 .. l + 1 : j <= l <=> j \in 1 .. l
      OBVIOUS
    <3> HIDE DEF T
    <3>5. \A j \in 1 .. l : j + 1 \in M[i+1] <=> T(i + 1, j + 1)
      BY <2>2, <3>1, <3>3
    <3>6. \A j \in 1 .. l + 1 :
             T(i, j) <=> j \in 1 .. l /\ matchSeg(pattern[i], segs[j]) /\ j + 1 \in M[i+1]
      <4> TAKE j \in 1 .. l + 1
      <4>1. T(i, j) <=> j <= l /\ <<i, j>> \in SegFits(pattern, segs) /\ T(i + 1, j + 1)
        BY <3>2
      <4>2. j \in 1 .. l =>
              /\ <<i, j>> \in SegFits(pattern, segs) <=> matchSeg(pattern[i], segs[j])
              /\ j + 1 \in M[i+1] <=> T(i + 1, j + 1)
        BY <3>3, <3>5
      <4> QED
        BY <3>4, <4>1, <4>2, Zenon
    <3>7. {j \in 1 .. l + 1 : T(i, j)}
            = {j \in 1 .. l : matchSeg(pattern[i], segs[j]) /\ j + 1 \in M[i+1]}
      BY <3>3, <3>6
    <3> QED
      BY <2>1, <2>5, <3>1, <3>7
  <2> QED
    BY <2>3, <2>4, <2>5
<1>2. M = [i \in 1 .. n + 1 |-> Rec(M, i)]
  <2>1. PICK f : f = M
    OBVIOUS
  <2>2. f = [i \in 1 .. n + 1 |-> f[i]]
    BY <2>1
  <2> HIDE DEF M, Rec
  <2>3. \A i \in 1 .. n + 1 : f[i] = Rec(f, i)
    BY <1>1, <2>1
  <2>4. f = [i \in 1 .. n + 1 |-> Rec(f, i)]
    BY <2>2, <2>3
  <2> QED
    BY <2>1, <2>4
<1>3. m = [i \in 1 .. n + 1 |-> Rec(m, i)]
  <2> HIDE DEF M, Rec
  <2> QED
    BY <1>2
<1>4. matchSegs(pattern, segs) <=> 1 \in m[1]
  BY DEF matchSegs
<1> HIDE DEF m
<1>5. \A i \in 1 .. n + 1 : m[i] = Rec(m, i) /\ M[i] = Rec(M, i)
  <2> HIDE DEF M, Rec
  <2> QED
    BY <1>1, <1>3
<1> HIDE DEF M
<1>6. m[1] = M[1]
  <2> DEFINE S == {d \in Nat : d <= n => m[n+1-d] = M[n+1-d]}
  <2>1. 0 \in S
    <3>1. n + 1 - 0 = n + 1 /\ n + 1 \in 1 .. n + 1
      OBVIOUS
    <3>2. ~(n + 1 <= n) /\ n + 1 > n
      OBVIOUS
    <3>3. Rec(m, n + 1) = {l + 1} /\ Rec(M, n + 1) = {l + 1}
      BY <3>2
    <3> HIDE DEF Rec
    <3>4. m[n+1] = M[n+1]
      BY <1>5, <3>1, <3>3
    <3> QED
      BY <3>1, <3>4
  <2>2. ASSUME NEW d \in Nat, d \in S
        PROVE  d + 1 \in S
    <3> SUFFICES ASSUME d + 1 <= n
                 PROVE  m[n+1-(d+1)] = M[n+1-(d+1)]
      OBVIOUS
    <3> DEFINE i == n + 1 - (d + 1)
    <3>1. i \in 1 .. n + 1 /\ i + 1 = n + 1 - d
      OBVIOUS
    <3> HIDE DEF i
    <3>2. m[i+1] = M[i+1]
      BY <2>2, <3>1
    <3>3. Rec(m, i) = Rec(M, i)
      BY <3>2
    <3> HIDE DEF Rec
    <3> QED
      BY <1>5, <3>1, <3>3 DEF i
  <2>3. n \in S
    <3> HIDE DEF S
    <3> QED
      BY <2>1, <2>2, Induction
  <2>4. n + 1 - n = 1
    OBVIOUS
  <2> QED
    BY <2>3, <2>4
<1>7. 1 \in M[1] <=> T(1, 1)
  <2>1. 1 \in 1 .. n + 1 /\ 1 \in 1 .. l + 1
    OBVIOUS
  <2> HIDE DEF T
  <2> QED
    BY <2>1 DEF M
<1> QED
  BY <1>4, <1>6, <1>7

---------------------------------------------------------------------------
(* Sequences. *)

\* Two sequences with the same elements are the same.
LEMMA SameSequence ==
  ASSUME NEW V, NEW s \in Seq(V), NEW t \in Seq(V),
         Len(s) = Len(t), \A i \in 1 .. Len(s) : s[i] = t[i]
  PROVE  s = t
  BY SeqEqual

\* The parts of a sequence that is not empty.
LEMMA FirstAndLast ==
  ASSUME NEW V, NEW s \in Seq(V), Len(s) # 0
  PROVE  /\ Front(s) \in Seq(V) /\ Len(Front(s)) = Len(s) - 1
         /\ \A i \in 1 .. Len(s) - 1 : Front(s)[i] = s[i]
         /\ Last(s) = s[Len(s)] /\ Last(s) \in V
         /\ Tail(s) \in Seq(V) /\ Len(Tail(s)) = Len(s) - 1
         /\ \A i \in 1 .. Len(s) - 1 : Tail(s)[i] = s[i + 1]
         /\ s[1] \in V
         /\ <<s[1]>> \o Tail(s) = s
         /\ Front(s) \o <<Last(s)>> = s
<1> DEFINE l == Len(s)
<1>1. l \in Nat /\ 1 <= l /\ DOMAIN s = 1 .. l /\ \A i \in 1 .. l : s[i] \in V
  BY LenProperties, ElementOfSeq
<1>2. Front(s) \in Seq(V) /\ Len(Front(s)) = l - 1 /\ \A i \in 1 .. l - 1 : Front(s)[i] = s[i]
  BY <1>1 DEF Front
<1>3. Tail(s) \in Seq(V) /\ Len(Tail(s)) = l - 1 /\ \A i \in 1 .. l - 1 : Tail(s)[i] = s[i + 1]
  BY <1>1
<1>4. Last(s) = s[l] /\ s[l] \in V /\ s[1] \in V
  BY <1>1 DEF Last
<1>5. <<s[1]>> \o Tail(s) = s
  <2> DEFINE t == <<s[1]>> \o Tail(s)
  <2>1. t \in Seq(V) /\ Len(t) = l /\ \A i \in 1 .. l : t[i] = s[i]
    BY <1>1, <1>3, <1>4
  <2> QED
    BY <2>1, SameSequence
<1>6. Front(s) \o <<Last(s)>> = s
  <2> DEFINE f == Front(s)
             e == <<Last(s)>>
             t == f \o e
  <2>1. e \in Seq(V) /\ Len(e) = 1 /\ e[1] = s[l]
    BY <1>4
  <2>2. f \in Seq(V) /\ Len(f) = l - 1 /\ \A i \in 1 .. l - 1 : f[i] = s[i]
    BY <1>2
  <2> HIDE DEF f, e, l
  <2>3. /\ t \in Seq(V) /\ Len(t) = Len(f) + Len(e)
        /\ \A i \in 1 .. Len(f) + Len(e) : t[i] = IF i <= Len(f) THEN f[i] ELSE e[i - Len(f)]
    BY <2>1, <2>2, ConcatProperties
  <2>4. Len(f) + Len(e) = l /\ \A i \in 1 .. l : i <= Len(f) <=> i \in 1 .. l - 1
    BY <1>1, <2>1, <2>2
  <2>5. \A i \in 1 .. l : i \in 1 .. l - 1 \/ (i = l /\ i - Len(f) = 1)
    BY <1>1, <2>2
  <2> HIDE DEF t
  <2>6. t \in Seq(V) /\ Len(t) = l /\ \A i \in 1 .. l : t[i] = s[i]
    BY <1>1, <2>1, <2>2, <2>3, <2>4, <2>5
  <2> QED
    BY <2>6, SameSequence DEF f, e, l, t
<1> QED
  BY <1>2, <1>3, <1>4, <1>5, <1>6



\* Two elements appended are two elements more.
LEMMA TwoMore ==
  ASSUME NEW s, NEW V, s \in Seq(V), NEW a, NEW b
  PROVE  Append(Append(s, a), b) = s \o <<a, b>>
<1> DEFINE W == V \cup {a, b}
<1>1. s \in Seq(W) /\ a \in W /\ b \in W
  OBVIOUS
<1> HIDE DEF W
<1> QED
  BY <1>1

\* Short sequences.
LEMMA ShortSequences ==
  ASSUME NEW V, NEW x \in V, NEW y \in V
  PROVE  <<>> \in Seq(V) /\ <<x>> \in Seq(V) /\ <<x, y>> \in Seq(V)
  OBVIOUS

\* A part of a part is a part.
LEMMA PartOfPart ==
  ASSUME NEW S, NEW s \in Seq(S), NEW j \in 1 .. Len(s) + 1, NEW b \in j - 1 .. Len(s),
         NEW u \in Nat \ {0}, NEW v \in 0 .. b - j + 1
  PROVE  SubSeq(SubSeq(s, j, b), u, v) = SubSeq(s, j + u - 1, j + v - 1)
<1> DEFINE t == SubSeq(s, j, b)
           x == SubSeq(t, u, v)
           y == SubSeq(s, j + u - 1, j + v - 1)
<1>1. Len(s) \in Nat /\ \A i \in 1 .. Len(s) : s[i] \in S
  BY LenProperties, ElementOfSeq
<1>2. \A i \in j .. b : s[i] \in S
  BY <1>1
<1>3. /\ t \in Seq(S) /\ Len(t) = b - j + 1
      /\ \A i \in 1 .. b - j + 1 : t[i] = s[j + i - 1]
  <2>1. (IF j <= b THEN b - j + 1 ELSE 0) = b - j + 1
    BY <1>1
  <2> QED
    BY <1>1, <1>2, <2>1, SubSeqProperties
<1>4. \A i \in u .. v : t[i] = s[j + i - 1] /\ t[i] \in S
  BY <1>1, <1>3
<1>5. \A i \in j + u - 1 .. j + v - 1 : s[i] \in S
  BY <1>1
<1> HIDE DEF t
<1>6. /\ x \in Seq(S) /\ Len(x) = IF u <= v THEN v - u + 1 ELSE 0
      /\ \A i \in 1 .. v - u + 1 : x[i] = t[u + i - 1]
  BY <1>1, <1>4, SubSeqProperties
<1>7. /\ y \in Seq(S) /\ Len(y) = IF u <= v THEN v - u + 1 ELSE 0
      /\ \A i \in 1 .. v - u + 1 : y[i] = s[j + u - 1 + i - 1]
  <2>1. j + u - 1 \in Int /\ j + v - 1 \in Int
    BY <1>1
  <2>2. /\ j + u - 1 <= j + v - 1 <=> u <= v
        /\ (j + v - 1) - (j + u - 1) + 1 = v - u + 1
    BY <1>1
  <2> DEFINE lo == j + u - 1
             hi == j + v - 1
  <2> HIDE DEF lo, hi
  <2>3. \A i \in lo .. hi : s[i] \in S
    BY <1>5 DEF lo, hi
  <2>4. lo \in Int /\ hi \in Int /\ (lo <= hi <=> u <= v) /\ hi - lo + 1 = v - u + 1 /\ y = SubSeq(s, lo, hi)
    BY <2>1, <2>2 DEF lo, hi
  <2> HIDE DEF y
  <2>5. /\ y \in Seq(S) /\ Len(y) = IF lo <= hi THEN hi - lo + 1 ELSE 0
        /\ \A i \in 1 .. hi - lo + 1 : y[i] = s[lo + i - 1]
    BY <2>3, <2>4, SubSeqProperties
  <2> QED
    BY <2>4, <2>5 DEF lo
<1> HIDE DEF x, y
<1>8. \A i \in 1 .. Len(x) : x[i] = y[i]
  <2> TAKE i \in 1 .. Len(x)
  <2>1. i \in 1 .. v - u + 1 /\ u + i - 1 \in u .. v /\ j + (u + i - 1) - 1 = j + u - 1 + i - 1
    BY <1>6, <1>1
  <2> QED
    BY <1>4, <1>6, <1>7, <2>1
<1> QED
  BY <1>6, <1>7, <1>8, SeqEqual DEF t, x, y

\* part occurs in s, from j on.
Occurs(part, s, j) == \A y \in 1 .. Len(part) : part[y] = s[j + y - 1]

\* A prefix occurs at the beginning.
LEMMA PrefixOccurs ==
  ASSUME NEW S, NEW part \in Seq(S), NEW s \in Seq(S)
  PROVE  IsPrefix(part, s) <=> Len(part) <= Len(s) /\ Occurs(part, s, 1)
<1> DEFINE L == Len(part)
           x == SubSeq(part, 1, L)
           y == SubSeq(s, 1, L)
<1>1. /\ L \in Nat /\ Len(s) \in Nat
      /\ \A i \in 1 .. L : part[i] \in S
      /\ \A i \in 1 .. Len(s) : s[i] \in S
  BY LenProperties, ElementOfSeq
<1>2. ASSUME L <= Len(s)
      PROVE  x = y <=> Occurs(part, s, 1)
  <2>1. \A i \in 1 .. L : s[i] \in S
    BY <1>1, <1>2
  <2>2. (IF 1 <= L THEN L - 1 + 1 ELSE 0) = L /\ L - 1 + 1 = L /\ \A i \in 1 .. L : 1 + i - 1 = i
    BY <1>1
  <2>3. /\ x \in Seq(S) /\ Len(x) = L
        /\ \A i \in 1 .. L : x[i] = part[i]
    <3> HIDE DEF L
    <3> QED
      BY <1>1, <2>2, SubSeqProperties
  <2>4. /\ y \in Seq(S) /\ Len(y) = L
        /\ \A i \in 1 .. L : y[i] = s[i]
    <3> HIDE DEF L
    <3> QED
      BY <1>1, <2>1, <2>2, SubSeqProperties
  <2> HIDE DEF x, y
  <2>5. Occurs(part, s, 1) <=> \A i \in 1 .. L : part[i] = s[i]
    BY <2>2 DEF Occurs
  <2> QED
    BY <2>3, <2>4, <2>5, SeqEqual
<1> QED
  BY <1>2 DEF IsPrefix

\* A suffix occurs at the end.
LEMMA SuffixOccurs ==
  ASSUME NEW S, NEW part \in Seq(S), NEW s \in Seq(S)
  PROVE  IsSuffix(part, s)
           <=> Len(part) <= Len(s) /\ Occurs(part, s, Len(s) - Len(part) + 1)
<1> DEFINE L == Len(part)
           l == Len(s)
           x == Reverse(part)
           y == Reverse(s)
<1>1. /\ L \in Nat /\ l \in Nat
      /\ \A i \in 1 .. L : part[i] \in S
      /\ \A i \in 1 .. l : s[i] \in S
  BY LenProperties, ElementOfSeq
<1>2. x \in Seq(S) /\ Len(x) = L /\ \A i \in 1 .. L : x[i] = part[(L - i) + 1]
  <2>1. \A i \in 1 .. L : (L - i) + 1 \in 1 .. L
    BY <1>1
  <2> QED
    BY <1>1, <2>1 DEF Reverse
<1>3. y \in Seq(S) /\ Len(y) = l /\ \A i \in 1 .. l : y[i] = s[(l - i) + 1]
  <2>1. \A i \in 1 .. l : (l - i) + 1 \in 1 .. l
    BY <1>1
  <2> QED
    BY <1>1, <2>1 DEF Reverse
<1>4. IsSuffix(part, s) <=> L <= l /\ Occurs(x, y, 1)
  <2> HIDE DEF x, y
  <2>1. IsPrefix(x, y) <=> L <= l /\ Occurs(x, y, 1)
    BY <1>2, <1>3, PrefixOccurs
  <2> QED
    BY <2>1 DEF IsSuffix, x, y
<1> HIDE DEF x, y
<1>5. ASSUME L <= l, Occurs(x, y, 1)
      PROVE  Occurs(part, s, l - L + 1)
  <2> SUFFICES ASSUME NEW i \in 1 .. L
               PROVE  part[i] = s[l - L + 1 + i - 1]
    BY DEF Occurs
  <2> DEFINE k == (L - i) + 1
  <2>1. k \in 1 .. L /\ (L - k) + 1 = i /\ 1 + k - 1 = k /\ k \in 1 .. l
        /\ (l - k) + 1 = l - L + 1 + i - 1
    BY <1>1, <1>5
  <2> HIDE DEF k
  <2>2. x[k] = y[k]
    BY <1>2, <1>5, <2>1 DEF Occurs
  <2> QED
    BY <1>2, <1>3, <2>1, <2>2
<1>6. ASSUME L <= l, Occurs(part, s, l - L + 1)
      PROVE  Occurs(x, y, 1)
  <2> SUFFICES ASSUME NEW k \in 1 .. L
               PROVE  x[k] = y[1 + k - 1]
    BY <1>2 DEF Occurs
  <2> DEFINE i == (L - k) + 1
  <2>1. i \in 1 .. L /\ 1 + k - 1 = k /\ k \in 1 .. l
        /\ (l - k) + 1 = l - L + 1 + i - 1
    BY <1>1, <1>6
  <2>2. part[i] = s[l - L + 1 + i - 1]
    <3> HIDE DEF i
    <3> QED
      BY <1>6, <2>1 DEF Occurs
  <2> QED
    BY <1>2, <1>3, <2>1, <2>2
<1> QED
  BY <1>4, <1>5, <1>6

\* What occurs in a part occurs in the whole.
LEMMA OccursInPart ==
  ASSUME NEW S, NEW s \in Seq(S), NEW j \in 1 .. Len(s) + 1, NEW b \in j - 1 .. Len(s),
         NEW part, Len(part) \in Nat,
         NEW i \in Nat \ {0}, i + Len(part) - 1 <= b - j + 1
  PROVE  Occurs(part, SubSeq(s, j, b), i) <=> Occurs(part, s, j + i - 1)
<1> DEFINE t == SubSeq(s, j, b)
           L == Len(part)
<1>1. Len(s) \in Nat /\ \A x \in 1 .. Len(s) : s[x] \in S
  BY LenProperties, ElementOfSeq
<1>2. \A x \in j .. b : s[x] \in S
  BY <1>1
<1>3. \A x \in 1 .. b - j + 1 : t[x] = s[j + x - 1]
  BY <1>1, <1>2, SubSeqProperties
<1> HIDE DEF t
<1>4. \A y \in 1 .. L : i + y - 1 \in 1 .. b - j + 1 /\ j + (i + y - 1) - 1 = (j + i - 1) + y - 1
  BY <1>1
<1>5. \A y \in 1 .. L : t[i + y - 1] = s[(j + i - 1) + y - 1]
  BY <1>3, <1>4
<1> QED
  BY <1>5 DEF Occurs, t

\* A nonempty set of numbers has a least one.
LEMMA MinIsElement ==
  ASSUME NEW t \in SUBSET Nat, t # {}
  PROVE  Min(t) \in t /\ \A y \in t : Min(t) <= y
<1> DEFINE Least(s) == \E x \in s : \A y \in s : x <= y
           S == {k \in Nat : \A s \in SUBSET Nat : (\E z \in s : z <= k) => Least(s)}
<1>1. 0 \in S
  <2>1. \A s \in SUBSET Nat : (\E z \in s : z <= 0) => 0 \in s /\ \A y \in s : 0 <= y
    OBVIOUS
  <2> QED
    BY <2>1
<1>2. ASSUME NEW k \in Nat, k \in S
      PROVE  k + 1 \in S
  <2> SUFFICES ASSUME NEW s \in SUBSET Nat, NEW z \in s, z <= k + 1
               PROVE  Least(s)
    OBVIOUS
  <2>1. CASE \E w \in s : w <= k
    BY <1>2, <2>1
  <2>2. CASE ~ \E w \in s : w <= k
    BY <2>2
  <2> QED
    BY <2>1, <2>2
<1> HIDE DEF S
<1>3. \A k \in Nat : k \in S
  BY <1>1, <1>2, Induction
<1>4. \E x \in t : \A y \in t : x <= y
  <2>1. PICK z \in t : TRUE
    OBVIOUS
  <2>2. z \in S /\ z <= z
    BY <1>3
  <2> QED
    BY <2>2 DEF S
<1> QED
  BY <1>4 DEF Min
---------------------------------------------------------------------------
(* The greedy search of matchSeg. *)

\* What is left of the input from place j on is taken from the star before
\* part x on if <<x, j>> \in R.  Behind the last part nothing may be left, and
\* the run of a star ends where the next part occurs.
Continues(R, parts, s) ==
  LET l == Len(s)
      m == Len(parts)
  IN  /\ \A j \in 1 .. l + 1 : <<m + 1, j>> \in R <=> j = l + 1
      /\ \A x \in 2 .. m, j \in 1 .. l + 1 :
           <<x, j>> \in R <=>
             \E y \in j .. l + 1 : /\ y + Len(parts[x]) <= l + 1
                                   /\ Occurs(parts[x], s, y)
                                   /\ <<x + 1, y + Len(parts[x])>> \in R

\* A star can begin earlier.
LEMMA BeginsEarlier ==
  ASSUME NEW R, NEW parts, NEW s, Len(s) \in Nat, Len(parts) \in Nat,
         Continues(R, parts, s),
         NEW x \in 2 .. Len(parts), NEW j \in 1 .. Len(s) + 1, NEW k \in 1 .. j,
         <<x, j>> \in R
  PROVE  <<x, k>> \in R
<1>1. PICK y \in j .. Len(s) + 1 : /\ y + Len(parts[x]) <= Len(s) + 1
                                   /\ Occurs(parts[x], s, y)
                                   /\ <<x + 1, y + Len(parts[x])>> \in R
  BY DEF Continues
<1>2. y \in k .. Len(s) + 1 /\ k \in 1 .. Len(s) + 1
  OBVIOUS
<1> QED
  BY <1>1, <1>2 DEF Continues

\* The last part is at the end.
LEMMA LastPart ==
  ASSUME NEW R, NEW parts, NEW s, Len(s) \in Nat, Len(parts) \in Nat, Len(parts) >= 2,
         Len(parts[Len(parts)]) \in Nat, Continues(R, parts, s),
         NEW j \in 1 .. Len(s) + 1
  PROVE  LET last == parts[Len(parts)]
             b == Len(s) + 1 - Len(last)
         IN  <<Len(parts), j>> \in R <=> j <= b /\ Occurs(last, s, b)
<1> DEFINE l == Len(s)
           m == Len(parts)
           last == parts[m]
           L == Len(last)
           b == l + 1 - L
<1>1. <<m, j>> \in R <=> \E y \in j .. l + 1 : /\ y + L <= l + 1
                                               /\ Occurs(last, s, y)
                                               /\ <<m + 1, y + L>> \in R
  <2>1. m \in 2 .. m
    OBVIOUS
  <2> QED
    BY <2>1 DEF Continues
<1>2. \A y \in 1 .. l + 1 : y + L <= l + 1 => (<<m + 1, y + L>> \in R <=> y = b)
  <2> TAKE y \in 1 .. l + 1
  <2> HAVE y + L <= l + 1
  <2>1. y + L \in 1 .. l + 1 /\ (y + L = l + 1 <=> y = b)
    OBVIOUS
  <2>2. \A k \in 1 .. l + 1 : <<m + 1, k>> \in R <=> k = l + 1
    BY DEF Continues
  <2> DEFINE k == y + L
  <2> HIDE DEF L, k
  <2>3. <<m + 1, k>> \in R <=> k = l + 1
    BY <2>1, <2>2 DEF k
  <2> QED
    BY <2>1, <2>3 DEF k
<1>3. \A y \in j .. l + 1 : y \in 1 .. l + 1
  OBVIOUS
<1>4. j <= b => b \in j .. l + 1 /\ b + L <= l + 1
  <2>1. l \in Nat /\ L \in Nat /\ j \in 1 .. l + 1
    OBVIOUS
  <2> HIDE DEF l, L
  <2> QED
    BY <2>1
<1>5. \A y \in j .. l + 1 : j <= y
  OBVIOUS
<1> HIDE DEF L, b, last
<1>6. ASSUME <<m, j>> \in R
      PROVE  j <= b /\ Occurs(last, s, b)
  BY <1>1, <1>2, <1>3, <1>5, <1>6
<1>7. ASSUME j <= b, Occurs(last, s, b)
      PROVE  <<m, j>> \in R
  BY <1>1, <1>2, <1>3, <1>4, <1>7
<1> QED
  BY <1>6, <1>7 DEF L, b, last

\* Whatever remains to be taken, the last part comes behind it.
LEMMA BeforeLast ==
  ASSUME NEW R, NEW parts, NEW s, Len(s) \in Nat, Len(parts) \in Nat, Len(parts) >= 2,
         \A x \in 1 .. Len(parts) : Len(parts[x]) \in Nat,
         Continues(R, parts, s),
         NEW x \in 2 .. Len(parts), NEW j \in 1 .. Len(s) + 1, <<x, j>> \in R
  PROVE  LET last == parts[Len(parts)]
             b == Len(s) + 1 - Len(last)
         IN  j <= b /\ Occurs(last, s, b)
<1> DEFINE l == Len(s)
           m == Len(parts)
           b == l + 1 - Len(parts[m])
           Ends2(k) == \A i \in 1 .. l + 1 : <<m - k, i>> \in R => i <= b /\ Occurs(parts[m], s, b)
           S == {k \in Nat : m - k >= 2 => Ends2(k)}
<1>1. m \in 1 .. m /\ m - 0 = m
  OBVIOUS
<1>2. 0 \in S
  <2>1. Len(parts[m]) \in Nat
    BY <1>1
  <2>2. \A i \in 1 .. l + 1 : <<m, i>> \in R => i <= b /\ Occurs(parts[m], s, b)
    BY <2>1, LastPart
  <2> QED
    BY <1>1, <2>2
<1>3. ASSUME NEW k \in Nat, k \in S
      PROVE  k + 1 \in S
  <2> DEFINE u == m - (k + 1)
  <2> SUFFICES ASSUME u >= 2
               PROVE  Ends2(k + 1)
    <3> HIDE DEF Ends2
    <3> QED
      OBVIOUS
  <2> SUFFICES ASSUME NEW i \in 1 .. l + 1, <<u, i>> \in R
               PROVE  i <= b /\ Occurs(parts[m], s, b)
    <3> HIDE DEF b
    <3> QED
      OBVIOUS
  <2>1. u \in 2 .. m /\ u + 1 = m - k /\ m - k >= 2 /\ u \in 1 .. m
    OBVIOUS
  <2> HIDE DEF u
  <2>2. PICK y \in i .. l + 1 : /\ y + Len(parts[u]) <= l + 1
                                /\ <<u + 1, y + Len(parts[u])>> \in R
    BY <2>1 DEF Continues
  <2>3. y + Len(parts[u]) \in 1 .. l + 1 /\ y + Len(parts[u]) >= i /\ b \in Int
    BY <1>1, <2>1, <2>2
  <2>4. y + Len(parts[u]) <= b /\ Occurs(parts[m], s, b)
    <3>1. Ends2(k)
      BY <1>3, <2>1
    <3> HIDE DEF b
    <3> QED
      BY <2>1, <2>2, <2>3, <3>1
  <2> HIDE DEF b
  <2> QED
    BY <2>1, <2>2, <2>3, <2>4
<1> DEFINE k == m - x
<1>4. k \in Nat /\ m - k = x /\ x >= 2
  OBVIOUS
<1> HIDE DEF k
<1>5. k \in S
  <2> HIDE DEF S
  <2> QED
    BY <1>2, <1>3, <1>4, Induction
<1>6. Ends2(k)
  <2> HIDE DEF Ends2
  <2> QED
    BY <1>4, <1>5
<1> QED
  BY <1>4, <1>6

\* Where what can be cut off with mid ends.
LEMMA EndsOccur ==
  ASSUME NEW S, NEW mid \in Seq(S), NEW s \in Seq(S),
         NEW j \in 1 .. Len(s) + 1, NEW b \in j .. Len(s) + 1
  PROVE  LET text == SubSeq(s, j, b - 1)
         IN  /\ Ends(mid, text) \in SUBSET Nat
             /\ \A e \in Nat : e \in Ends(mid, text)
                  <=> Len(mid) <= e /\ j + e <= b /\ Occurs(mid, s, j + e - Len(mid))
             /\ \A e \in 0 .. b - j : DropPrefix(text, e) = SubSeq(s, j + e, b - 1)
<1> DEFINE text == SubSeq(s, j, b - 1)
           L == Len(mid)
           l == Len(s)
           d == b - j
<1>1. l \in Nat /\ L \in Nat /\ \A x \in 1 .. l : s[x] \in S
  BY LenProperties, ElementOfSeq
<1>2. text \in Seq(S) /\ Len(text) = d
  <2>1. \A x \in j .. b - 1 : s[x] \in S
    BY <1>1
  <2>2. (IF j <= b - 1 THEN (b - 1) - j + 1 ELSE 0) = d
    BY <1>1
  <2> HIDE DEF d
  <2> QED
    BY <1>1, <2>1, <2>2, SubSeqProperties
<1>3. ASSUME NEW e \in 0 .. d
      PROVE  /\ SubSeq(text, 1, e) = SubSeq(s, j, j + e - 1)
             /\ DropPrefix(text, e) = SubSeq(s, j + e, b - 1)
             /\ SubSeq(s, j, j + e - 1) \in Seq(S) /\ Len(SubSeq(s, j, j + e - 1)) = e
  <2>1. b - 1 \in j - 1 .. l /\ e \in 0 .. (b - 1) - j + 1 /\ d \in 0 .. (b - 1) - j + 1
        /\ e + 1 \in Nat \ {0} /\ j + 1 - 1 = j /\ j + (e + 1) - 1 = j + e /\ j + d - 1 = b - 1
        /\ d \in Nat /\ 1 \in Nat \ {0}
    BY <1>1
  <2>2. SubSeq(text, 1, e) = SubSeq(s, j + 1 - 1, j + e - 1)
    <3> DEFINE c == b - 1
    <3> HIDE DEF c, d
    <3> QED
      BY <2>1, PartOfPart DEF c
  <2>3. SubSeq(text, e + 1, d) = SubSeq(s, j + (e + 1) - 1, j + d - 1)
    <3> DEFINE c == b - 1
               u == e + 1
    <3> HIDE DEF c, d, u
    <3> QED
      BY <2>1, PartOfPart DEF c, u
  <2>4. \A x \in j .. j + e - 1 : s[x] \in S
    BY <1>1
  <2>5. (IF j <= j + e - 1 THEN (j + e - 1) - j + 1 ELSE 0) = e /\ j + e - 1 \in Int
    BY <1>1
  <2>6. SubSeq(s, j, j + e - 1) \in Seq(S) /\ Len(SubSeq(s, j, j + e - 1)) = e
    <3> DEFINE c == j + e - 1
    <3> HIDE DEF c
    <3> QED
      BY <1>1, <2>4, <2>5, SubSeqProperties DEF c
  <2> HIDE DEF d, text
  <2> QED
    BY <1>2, <2>1, <2>2, <2>3, <2>6 DEF DropPrefix
<1>4. ASSUME NEW e \in 0 .. d
      PROVE  IsSuffix(mid, SubSeq(text, 1, e)) <=> L <= e /\ Occurs(mid, s, j + e - L)
  <2> DEFINE u == SubSeq(s, j, j + e - 1)
  <2>1. SubSeq(text, 1, e) = u /\ u \in Seq(S) /\ Len(u) = e
    BY <1>3
  <2> HIDE DEF text, u
  <2>2. IsSuffix(mid, u) <=> L <= e /\ Occurs(mid, u, e - L + 1)
    BY <2>1, SuffixOccurs
  <2>3. ASSUME L <= e
        PROVE  Occurs(mid, u, e - L + 1) <=> Occurs(mid, s, j + e - L)
    <3> DEFINE i == e - L + 1
               c == j + e - 1
    <3>1. c \in j - 1 .. l /\ i \in Nat \ {0} /\ i + L - 1 <= c - j + 1 /\ j + i - 1 = j + e - L
      BY <1>1, <2>3
    <3>2. u = SubSeq(s, j, c)
      BY DEF u
    <3> HIDE DEF i, c
    <3>3. Occurs(mid, SubSeq(s, j, c), i) <=> Occurs(mid, s, j + i - 1)
      BY <1>1, <3>1, OccursInPart
    <3> QED
      BY <3>1, <3>2, <3>3 DEF i
  <2> QED
    BY <2>1, <2>2, <2>3
<1>5. \A e \in Nat : e \in 0 .. d <=> j + e <= b
  BY <1>1
<1>6. Ends(mid, text) = {e \in 0 .. d : IsSuffix(mid, SubSeq(text, 1, e))}
  BY <1>2 DEF Ends
<1> HIDE DEF text, d
<1>7. \A e \in Nat : e \in Ends(mid, text)
                  <=> L <= e /\ j + e <= b /\ Occurs(mid, s, j + e - L)
  BY <1>4, <1>5, <1>6
<1>8. Ends(mid, text) \in SUBSET Nat
  BY <1>6 DEF d
<1> QED
  BY <1>3, <1>7, <1>8 DEF d, text

WholeText(c) == {c[2]}
CutAll(mid, left) ==
  {DropPrefix(s, Min(Ends(mid, s))) : s \in {t \in left : Ends(mid, t) # {}}}
CutOff(c, left, k) == CutAll(c[1][k], left)

Floating == INSTANCE FoldLaws WITH Base <- WholeText, Step <- CutOff, Pick <- Max

\* A run without its first elements.
LEMMA RestOfRun ==
  ASSUME NEW S, NEW s \in Seq(S), NEW j \in 1 .. Len(s) + 1, NEW b \in j .. Len(s) + 1
  PROVE  \A i \in 0 .. b - j : DropPrefix(SubSeq(s, j, b - 1), i) = SubSeq(s, j + i, b - 1)
<1>1. <<>> \in Seq(S)
  BY EmptySeq
<1> QED
  BY <1>1, EndsOccur

\* What is left of a text once the first k parts have been cut off.
LeftAfter(mids, text, k) == Floating!FoldUpTo(<<mids, text>>, Len(mids), k)

\* Floats cuts off all parts.
LEMMA FloatsIsFold ==
  ASSUME NEW mids, NEW text, Len(mids) \in Nat, DOMAIN mids = 1 .. Len(mids)
  PROVE  Floats(mids, text) <=> LeftAfter(mids, text, Len(mids)) # {}
  BY DEF Floats, FoldLeft, MapThenFoldSet, LeftAfter, Floating!FoldUpTo, Floating!Fold,
         Floating!IsFold, WholeText, CutOff, CutAll

\* Part by part.
LEMMA FloatsPartByPart ==
  ASSUME NEW mids, NEW text, Len(mids) \in Nat
  PROVE  /\ LeftAfter(mids, text, 0) = {text}
         /\ \A k \in 1 .. Len(mids) :
              LeftAfter(mids, text, k) = CutAll(mids[k], LeftAfter(mids, text, k - 1))
<1> DEFINE call == <<mids, text>>
<1>1. /\ Floating!FoldUpTo(call, Len(mids), 0) = WholeText(call)
      /\ \A k \in 1 .. Len(mids) :
           Floating!FoldUpTo(call, Len(mids), k)
             = CutOff(call, Floating!FoldUpTo(call, Len(mids), k - 1), k)
  BY Floating!FoldIsLoop DEF Max, Floating!Max
<1> QED
  BY <1>1 DEF WholeText, CutOff, LeftAfter

\* One part at its leftmost occurrence: the rest of the parts can be taken
\* from j on exactly if they can be taken from behind that occurrence on.
LEMMA LeftmostWillDo ==
  ASSUME NEW S, NEW s \in Seq(S), NEW parts \in Seq(Seq(S)),
         NEW R, Continues(R, parts, s),
         NEW x \in 2 .. Len(parts) - 1, NEW j \in 1 .. Len(s) + 1,
         NEW b \in j .. Len(s) + 1,
         \A y \in 1 .. Len(s) + 1 : <<x + 1, y>> \in R => y <= b
  PROVE  LET ends == Ends(parts[x], SubSeq(s, j, b - 1))
         IN  /\ ends = {} => <<x, j>> \notin R
             /\ ends # {} => /\ Min(ends) \in 0 .. b - j
                             /\ <<x, j>> \in R <=> <<x + 1, j + Min(ends)>> \in R
<1> DEFINE l == Len(s)
           m == Len(parts)
           L == Len(parts[x])
           ends == Ends(parts[x], SubSeq(s, j, b - 1))
<1>1. /\ l \in Nat /\ m \in Nat /\ \A k \in 1 .. m : parts[k] \in Seq(S) /\ Len(parts[k]) \in Nat
  BY LenProperties, ElementOfSeq
<1>2. /\ parts[x] \in Seq(S) /\ L \in Nat /\ x \in 2 .. m /\ x + 1 \in 2 .. m /\ m >= 2
  BY <1>1
<1>3. /\ ends \in SUBSET Nat
      /\ \A e \in Nat : e \in ends <=> L <= e /\ j + e <= b /\ Occurs(parts[x], s, j + e - L)
  BY <1>2, EndsOccur
<1>4. <<x, j>> \in R <=>
        \E y \in j .. l + 1 : /\ y + L <= l + 1
                              /\ Occurs(parts[x], s, y)
                              /\ <<x + 1, y + L>> \in R
  BY <1>2 DEF Continues
<1>5. \A y \in 1 .. l + 1 : <<x + 1, y>> \in R => y <= b
  OBVIOUS
<1>6. ASSUME NEW y \in j .. l + 1, y + L <= l + 1, Occurs(parts[x], s, y), <<x + 1, y + L>> \in R
      PROVE  (y + L) - j \in ends /\ y + L \in 1 .. l + 1
  <2> DEFINE z == y + L
             e == z - j
  <2>1. z \in 1 .. l + 1 /\ e \in Nat /\ L <= e /\ j + e = z /\ j + e - L = y
    BY <1>1, <1>2, <1>6
  <2>2. z <= b
    <3> HIDE DEF z
    <3> QED
      BY <1>5, <1>6, <2>1 DEF z
  <2> HIDE DEF ends, L, e, z
  <2> QED
    BY <1>3, <1>6, <2>1, <2>2 DEF z, e
<1> HIDE DEF ends
<1>7. CASE ends = {}
  BY <1>4, <1>6, <1>7 DEF ends
<1>8. CASE ends # {}
  <2> DEFINE e == Min(ends)
  <2>1. e \in ends /\ \A k \in ends : e <= k
    BY <1>3, <1>8, MinIsElement
  <2> HIDE DEF e
  <2>2. e \in Nat /\ L <= e /\ j + e <= b /\ Occurs(parts[x], s, j + e - L)
    BY <1>3, <2>1
  <2>3. /\ e \in 0 .. b - j /\ j + e \in 1 .. l + 1
        /\ j + e - L \in j .. l + 1 /\ (j + e - L) + L = j + e /\ j + e <= l + 1
    <3>1. L \in Nat /\ l \in Nat /\ j \in 1 .. l + 1 /\ b \in j .. l + 1
      BY <1>1, <1>2
    <3>2. e \in Nat /\ L <= e /\ j + e <= b
      BY <2>2
    <3>3. b <= l + 1 /\ j >= 1 /\ j \in Int /\ b \in Int
      BY <3>1
    <3> HIDE DEF l, L
    <3> QED
      BY <3>1, <3>2, <3>3
  <2>4. ASSUME <<x + 1, j + e>> \in R
        PROVE  <<x, j>> \in R
    <3> DEFINE y == j + e - L
    <3>1. y \in j .. l + 1 /\ y + L = j + e /\ Occurs(parts[x], s, y)
      BY <2>2, <2>3
    <3> HIDE DEF y, L
    <3> QED
      BY <1>4, <2>3, <2>4, <3>1
  <2>5. ASSUME <<x, j>> \in R
        PROVE  <<x + 1, j + e>> \in R
    <3>1. PICK y \in j .. l + 1 : /\ y + L <= l + 1
                                  /\ Occurs(parts[x], s, y)
                                  /\ <<x + 1, y + L>> \in R
      BY <1>4, <2>5
    <3> DEFINE z == y + L
    <3>2. z - j \in ends /\ z \in 1 .. l + 1 /\ <<x + 1, z>> \in R
      BY <1>6, <3>1
    <3> HIDE DEF z
    <3>3. e <= z - j
      BY <2>1, <3>2
    <3>4. j + e \in 1 .. z
      BY <2>3, <3>2, <3>3
    <3> QED
      BY <1>1, <1>2, <3>2, <3>4, BeginsEarlier
  <2> QED
    BY <1>8, <2>3, <2>4, <2>5 DEF e, ends
<1> QED
  BY <1>7, <1>8

\* The leftmost occurrences of the middle parts, between the anchored ends,
\* are as good as any.
LEMMA GreedyIsExact ==
  ASSUME NEW S, NEW s \in Seq(S), NEW parts \in Seq(Seq(S)), Len(parts) >= 2,
         NEW R, Continues(R, parts, s), NEW a \in 1 .. Len(s) + 1
  PROVE  LET last == parts[Len(parts)]
             b == Len(s) + 1 - Len(last)
         IN  <<2, a>> \in R <=> /\ a <= b /\ Occurs(last, s, b)
                                /\ Floats(SubSeq(parts, 2, Len(parts) - 1), SubSeq(s, a, b - 1))
<1> DEFINE l == Len(s)
           m == Len(parts)
           last == parts[m]
           b == l + 1 - Len(last)
           mids == SubSeq(parts, 2, m - 1)
           text == SubSeq(s, a, b - 1)
           Left(k) == LeftAfter(mids, text, k)
           Greedy(k) == \/ Left(k) = {} /\ <<2, a>> \notin R
                        \/ \E j \in a .. b : /\ Left(k) = {SubSeq(s, j, b - 1)}
                                             /\ <<2, a>> \in R <=> <<k + 2, j>> \in R
<1>1. /\ l \in Nat /\ m \in Nat /\ \A k \in 1 .. m : parts[k] \in Seq(S) /\ Len(parts[k]) \in Nat
  BY LenProperties, ElementOfSeq
<1>2. /\ mids \in Seq(Seq(S)) /\ Len(mids) = m - 2 /\ DOMAIN mids = 1 .. Len(mids)
      /\ \A k \in 1 .. m - 2 : mids[k] = parts[k + 1]
  <2>1. \A k \in 2 .. m - 1 : k \in 1 .. m
    BY <1>1
  <2>2. /\ \A k \in 2 .. m - 1 : parts[k] \in Seq(S)
        /\ (IF 2 <= m - 1 THEN (m - 1) - 2 + 1 ELSE 0) = m - 2
        /\ (m - 1) - 2 + 1 = m - 2 /\ \A k \in 1 .. m - 2 : 2 + k - 1 = k + 1
    <3>1. m \in Nat /\ m >= 2
      BY <1>1
    <3>2. \A k \in 2 .. m - 1 : parts[k] \in Seq(S)
      BY <1>1, <2>1
    <3> HIDE DEF m
    <3> QED
      BY <3>1, <3>2
  <2>3. /\ mids \in Seq(Seq(S)) /\ Len(mids) = m - 2
        /\ \A k \in 1 .. m - 2 : mids[k] = parts[2 + k - 1]
    <3> DEFINE u == m - 1
    <3>1. u \in Int /\ 2 \in Int
      BY <1>1
    <3> HIDE DEF u
    <3>2. /\ SubSeq(parts, 2, u) \in Seq(Seq(S))
          /\ Len(SubSeq(parts, 2, u)) = IF 2 <= u THEN u - 2 + 1 ELSE 0
          /\ \A k \in 1 .. u - 2 + 1 : SubSeq(parts, 2, u)[k] = parts[2 + k - 1]
      BY <2>2, <3>1, SubSeqProperties DEF u
    <3> QED
      BY <2>2, <3>2 DEF u
  <2> HIDE DEF mids
  <2> QED
    BY <2>2, <2>3, LenProperties
<1>3. m \in 1 .. m /\ 2 \in 2 .. m /\ Len(last) \in Nat /\ b \in Int
  BY <1>1
<1>4. <<2, a>> \in R => a <= b /\ Occurs(last, s, b)
  BY <1>1, <1>3, BeforeLast
<1>5. \A x \in 2 .. m - 1, y \in 1 .. l + 1 : <<x + 1, y>> \in R => y <= b
  <2>1. \A x \in 2 .. m - 1 : x + 1 \in 2 .. m
    BY <1>1
  <2> QED
    BY <1>1, <2>1, BeforeLast
<1>6. \A x \in 2 .. Len(parts) - 1, j \in 1 .. Len(s) + 1 : \A c \in j .. Len(s) + 1 :
        (\A y \in 1 .. Len(s) + 1 : <<x + 1, y>> \in R => y <= c) =>
          LET ends == Ends(parts[x], SubSeq(s, j, c - 1))
          IN  /\ ends = {} => <<x, j>> \notin R
              /\ ends # {} => /\ Min(ends) \in 0 .. c - j
                              /\ <<x, j>> \in R <=> <<x + 1, j + Min(ends)>> \in R
  BY LeftmostWillDo
<1>7. ASSUME a <= b, Occurs(last, s, b)
      PROVE  <<2, a>> \in R <=> Floats(mids, text)
  <2>1. a \in a .. b /\ b \in a .. l + 1 /\ \A j \in a .. b : j \in 1 .. l + 1 /\ b \in j .. l + 1
    <3>1. b \in Int /\ a \in 1 .. l + 1 /\ a <= b /\ b <= l + 1 /\ l \in Nat
      <4>1. Len(last) \in Nat /\ l \in Nat
        BY <1>1, <1>3
      <4> HIDE DEF last, l
      <4> QED
        BY <1>3, <1>7, <4>1
    <3> HIDE DEF b, l
    <3> QED
      BY <3>1
  <2> DEFINE Q == {k \in Nat : k <= m - 2 => Greedy(k)}
  <2>2. Left(0) = {text} /\ \A k \in 1 .. m - 2 : Left(k) = CutAll(mids[k], Left(k - 1))
    <3> HIDE DEF mids, text
    <3>1. Len(mids) \in Nat /\ Len(mids) = m - 2
      BY <1>1, <1>2
    <3>2. /\ LeftAfter(mids, text, 0) = {text}
          /\ \A k \in 1 .. Len(mids) :
               LeftAfter(mids, text, k) = CutAll(mids[k], LeftAfter(mids, text, k - 1))
      BY <3>1, FloatsPartByPart, Zenon
    <3> QED
      BY <3>1, <3>2, Zenon
  <2> HIDE DEF Left, mids, b, last
  <2>3. 0 \in Q
    <3>1. 0 + 2 = 2
      OBVIOUS
    <3> QED
      BY <2>1, <2>2, <3>1
  <2>4. ASSUME NEW k \in Nat, k \in Q
        PROVE  k + 1 \in Q
    <3> SUFFICES ASSUME k + 1 <= m - 2
                 PROVE  Greedy(k + 1)
      <4> HIDE DEF Greedy
      <4> QED
        OBVIOUS
    <3>1. /\ k + 1 \in 1 .. m - 2 /\ (k + 1) - 1 = k /\ k + 2 \in 2 .. m - 1
          /\ (k + 1) + 1 = k + 2 /\ (k + 1) + 2 = (k + 2) + 1 /\ k <= m - 2
      BY <1>1
    <3> DEFINE x == k + 2
               Found(t) == Ends(parts[x], t)
    <3>2. Left(k + 1) = CutAll(parts[x], Left(k))
      <4>1. mids[k + 1] = parts[x]
        BY <1>2, <3>1
      <4> QED
        BY <2>2, <3>1, <4>1
    <3>3. x \in 2 .. m - 1 /\ x \in 1 .. m /\ (k + 1) + 2 = x + 1
      BY <1>1, <3>1
    <3>4. Greedy(k)
      <4> HIDE DEF Greedy
      <4> QED
        BY <2>4, <3>1
    <3>5. CASE Left(k) = {} /\ <<2, a>> \notin R
      <4>1. Left(k + 1) = {}
        BY <3>2, <3>5 DEF CutAll
      <4> QED
        BY <3>5, <4>1
    <3>6. CASE \E j \in a .. b : /\ Left(k) = {SubSeq(s, j, b - 1)}
                                 /\ <<2, a>> \in R <=> <<k + 2, j>> \in R
      <4>1. PICK j \in a .. b : /\ Left(k) = {SubSeq(s, j, b - 1)}
                                /\ <<2, a>> \in R <=> <<x, j>> \in R
        BY <3>6
      <4> DEFINE here == SubSeq(s, j, b - 1)
                 e == Min(Found(here))
      <4>2. j \in 1 .. l + 1 /\ b \in j .. l + 1
        BY <2>1, <4>1
      <4>3. /\ Found(here) = {} => <<x, j>> \notin R
            /\ Found(here) # {} => e \in 0 .. b - j /\ (<<x, j>> \in R <=> <<x + 1, j + e>> \in R)
        <5> HIDE DEF x
        <5>1. /\ x \in 2 .. Len(parts) - 1 /\ j \in 1 .. Len(s) + 1
              /\ b \in j .. Len(s) + 1
              /\ \A y \in 1 .. Len(s) + 1 : <<x + 1, y>> \in R => y <= b
          BY <1>5, <3>3, <4>2
        <5>2. /\ Ends(parts[x], here) = {} => <<x, j>> \notin R
              /\ Ends(parts[x], here) # {} =>
                   /\ Min(Ends(parts[x], here)) \in 0 .. b - j
                   /\ <<x, j>> \in R <=> <<x + 1, j + Min(Ends(parts[x], here))>> \in R
          BY <5>1, <1>6, Zenon
        <5> QED
          BY <5>2
      <4>4. \A i \in 0 .. b - j : DropPrefix(here, i) = SubSeq(s, j + i, b - 1)
        <5>1. j \in 1 .. Len(s) + 1 /\ b \in j .. Len(s) + 1
          BY <4>2
        <5> QED
          BY <5>1, RestOfRun
      <4> HIDE DEF here, Found, x
      <4>5. CASE Found(here) = {}
        <5>1. Left(k + 1) = {}
          BY <3>2, <4>1, <4>5 DEF here, CutAll, Found
        <5> QED
          BY <4>1, <4>3, <4>5, <5>1
      <4>6. CASE Found(here) # {}
        <5>1. Left(k + 1) = {DropPrefix(here, e)}
          BY <3>2, <4>1, <4>6 DEF here, CutAll, Found
        <5>2. e \in 0 .. b - j /\ (<<x, j>> \in R <=> <<x + 1, j + e>> \in R)
          BY <4>3, <4>6
        <5> HIDE DEF e
        <5>3. Left(k + 1) = {SubSeq(s, j + e, b - 1)}
          BY <4>4, <5>1, <5>2
        <5>4. j + e \in a .. b
          <6>1. b \in Int /\ a \in Int /\ j \in a .. b
            BY <1>3, <4>1
          <6> QED
            BY <5>2, <6>1
        <5> QED
          BY <3>3, <4>1, <5>2, <5>3, <5>4
      <4> QED
        BY <4>5, <4>6
    <3> QED
      BY <3>4, <3>5, <3>6
  <2>5. Greedy(m - 2)
    <3> DEFINE k == m - 2
    <3>1. k \in Nat /\ k <= m - 2
      BY <1>1
    <3> HIDE DEF Q
    <3>2. k \in Q
      <4> HIDE DEF k
      <4> QED
        BY <2>3, <2>4, <3>1, Induction
    <3> HIDE DEF Greedy
    <3> QED
      BY <3>1, <3>2 DEF Q
  <2>6. \A j \in a .. b : <<(m - 2) + 2, j>> \in R
    <3>1. \A j \in a .. b : j \in 1 .. l + 1 /\ j <= b
      BY <1>1, <2>1
    <3>2. (m - 2) + 2 = m
      BY <1>1
    <3>3. \A j \in 1 .. l + 1 : <<m, j>> \in R <=> j <= b /\ Occurs(last, s, b)
      BY <1>1, <1>3, LastPart DEF b, last
    <3> QED
      BY <1>7, <3>1, <3>2, <3>3
  <2>7. Floats(mids, text) <=> Left(m - 2) # {}
    <3>1. Len(mids) \in Nat /\ Len(mids) = m - 2 /\ DOMAIN mids = 1 .. Len(mids)
      BY <1>1, <1>2
    <3> HIDE DEF text
    <3>2. Floats(mids, text) <=> LeftAfter(mids, text, Len(mids)) # {}
      BY <3>1, FloatsIsFold, Zenon
    <3> QED
      BY <3>1, <3>2 DEF Left
  <2> QED
    BY <2>5, <2>6, <2>7
<1> QED
  BY <1>4, <1>7

---------------------------------------------------------------------------
(* The parts of a pattern. *)

NoParts(c) == << <<>> >>
NextChar(c, parts, k) ==
  IF c[k] = Wild THEN Append(parts, <<>>)
  ELSE [parts EXCEPT ![Len(parts)] = Append(@, c[k])]

Splitting == INSTANCE FoldLaws WITH Base <- NoParts, Step <- NextChar, Pick <- Max

\* The parts of the first k characters.
PartsUpTo(p, k) == Splitting!FoldUpTo(p, Len(p), k)

\* Parts takes all characters.
LEMMA PartsIsFold ==
  ASSUME NEW p, Len(p) \in Nat, DOMAIN p = 1 .. Len(p)
  PROVE  Parts(p) = PartsUpTo(p, Len(p))
  BY DEF Parts, FoldLeft, MapThenFoldSet, PartsUpTo, Splitting!FoldUpTo, Splitting!Fold,
         Splitting!IsFold, NoParts, NextChar

\* Character by character.
LEMMA PartsCharByChar ==
  ASSUME NEW p, Len(p) \in Nat
  PROVE  /\ PartsUpTo(p, 0) = << <<>> >>
         /\ \A k \in 1 .. Len(p) : PartsUpTo(p, k) = NextChar(p, PartsUpTo(p, k - 1), k)
<1>1. /\ Splitting!FoldUpTo(p, Len(p), 0) = NoParts(p)
      /\ \A k \in 1 .. Len(p) :
           Splitting!FoldUpTo(p, Len(p), k)
             = NextChar(p, Splitting!FoldUpTo(p, Len(p), k - 1), k)
  BY Splitting!FoldIsLoop DEF Max, Splitting!Max
<1> QED
  BY <1>1 DEF NoParts, PartsUpTo

\* The parts of the first k characters of p are what is between the stars, and
\* at has the places of the stars: one before every part but the first.
IsSplit(p, k, parts, at) ==
  LET m == Len(parts)
  IN  /\ at \in [1 .. m + 1 -> 0 .. k + 1] /\ at[1] = 0 /\ at[m + 1] = k + 1
      /\ \A x \in 1 .. m : /\ at[x] < at[x + 1]
                           /\ parts[x] = SubSeq(p, at[x] + 1, at[x + 1] - 1)
                           /\ \A y \in at[x] + 1 .. at[x + 1] - 1 : p[y] # Wild
                           /\ x # 1 => p[at[x]] = Wild

\* A longer run.
LEMMA LongerRun ==
  ASSUME NEW S, NEW p \in Seq(S), NEW i \in 1 .. Len(p), NEW j \in i .. Len(p)
  PROVE  SubSeq(p, i, j) = Append(SubSeq(p, i, j - 1), p[j])
<1>1. Len(p) \in Nat /\ \A x \in 1 .. Len(p) : p[x] \in S
  BY LenProperties, ElementOfSeq
<1>2. \A x \in i .. j - 1 : p[x] \in S
  BY <1>1
<1> DEFINE c == j - 1
<1>3. c \in Int /\ i \in Int
  BY <1>1
<1> HIDE DEF c
<1>4. SubSeq(p, i, c) \in Seq(S)
  BY <1>2, <1>3, SubSeqProperties DEF c
<1>5. p[j] \in S /\ SubSeq(p, i, j) = SubSeq(p, i, c) \o <<p[j]>>
  BY <1>1, SubSeqRecursiveSecond DEF c
<1> QED
  BY <1>4, <1>5, AppendIsConcat DEF c

\* Parts splits the pattern at its stars.
LEMMA PartsSplit ==
  ASSUME NEW S, NEW p \in Seq(S)
  PROVE  Parts(p) \in Seq(Seq(S)) /\ \E at : IsSplit(p, Len(p), Parts(p), at)
<1> DEFINE n == Len(p)
           P(k) == PartsUpTo(p, k)
           Law(k) == P(k) \in Seq(Seq(S)) /\ Len(P(k)) # 0 /\ \E at : IsSplit(p, k, P(k), at)
           Q == {k \in Nat : k <= n => Law(k)}
<1>1. n \in Nat /\ DOMAIN p = 1 .. n /\ \A x \in 1 .. n : p[x] \in S
  BY LenProperties, ElementOfSeq
<1>2. P(0) = << <<>> >> /\ \A k \in 1 .. n : P(k) = NextChar(p, P(k - 1), k)
  BY <1>1, PartsCharByChar
<1> HIDE DEF P
<1>3. 0 \in Q
  <2> DEFINE at == [x \in 1 .. 2 |-> x - 1]
  <2>1. at \in [1 .. 1 + 1 -> 0 .. 0 + 1] /\ at[1] = 0 /\ at[1 + 1] = 0 + 1
    OBVIOUS
  <2> HIDE DEF at
  <2>2. SubSeq(p, 1, 0) = <<>>
    BY SubSeqEmpty
  <2> DEFINE one == << <<>> >>
  <2>3. <<>> \in Seq(S) /\ one \in Seq(Seq(S)) /\ Len(one) = 1 /\ one[1] = <<>>
    BY EmptySeq
  <2> HIDE DEF one
  <2>4. IsSplit(p, 0, one, at)
    <3>1. 1 .. 1 = {1} /\ 0 + 1 = 1 /\ 1 + 1 = 2 /\ 1 - 1 = 0
      OBVIOUS
    <3>2. at \in [1 .. 2 -> 0 .. 1] /\ at[1] = 0 /\ at[2] = 1
      BY <2>1
    <3>3. /\ at[1] < at[2] /\ one[1] = SubSeq(p, at[1] + 1, at[2] - 1)
          /\ \A y \in at[1] + 1 .. at[2] - 1 : p[y] # Wild
      BY <2>2, <2>3, <3>2
    <3> QED
      BY <2>3, <3>1, <3>2, <3>3 DEF IsSplit
  <2>5. P(0) = one /\ Len(one) # 0
    BY <1>2, <2>3 DEF one
  <2>6. Law(0)
    BY <2>3, <2>4, <2>5
  <2> HIDE DEF Law
  <2> QED
    BY <2>6
<1>4. ASSUME NEW k \in Nat, k \in Q
      PROVE  k + 1 \in Q
  <2> SUFFICES ASSUME k + 1 <= n
               PROVE  Law(k + 1)
    <3> HIDE DEF Law
    <3> QED
      OBVIOUS
  <2>1. k + 1 \in 1 .. n /\ (k + 1) - 1 = k /\ k <= n
    BY <1>1
  <2>2. Law(k)
    <3> HIDE DEF Law
    <3> QED
      BY <1>4, <2>1
  <2>3. PICK at : IsSplit(p, k, P(k), at)
    BY <2>2
  <2> DEFINE m == Len(P(k))
             c == p[k + 1]
             new == P(k + 1)
  <2>4. /\ m \in Nat /\ m >= 1 /\ \A x \in 1 .. m : P(k)[x] \in Seq(S)
        /\ DOMAIN P(k) = 1 .. m
    <3>1. m \in Nat \ {0}
      BY <2>2, LenProperties
    <3> QED
      BY <2>2, <3>1, LenProperties, ElementOfSeq
  <2>5. c \in S
    BY <1>1, <2>1
  <2>6. new = NextChar(p, P(k), k + 1)
    BY <1>2, <2>1
  <2>7. /\ at \in [1 .. m + 1 -> 0 .. k + 1] /\ at[1] = 0 /\ at[m + 1] = k + 1
        /\ \A x \in 1 .. m : /\ at[x] < at[x + 1]
                             /\ P(k)[x] = SubSeq(p, at[x] + 1, at[x + 1] - 1)
                             /\ \A y \in at[x] + 1 .. at[x + 1] - 1 : p[y] # Wild
                             /\ x # 1 => p[at[x]] = Wild
    BY <2>3 DEF IsSplit
  <2> HIDE DEF new
  <2>8. CASE c = Wild
    <3>1. /\ new \in Seq(Seq(S)) /\ Len(new) = m + 1
          /\ \A x \in 1 .. m : new[x] = P(k)[x]
          /\ new[m + 1] = <<>>
      <4>1. new = Append(P(k), <<>>)
        BY <2>6, <2>8 DEF NextChar
      <4>2. <<>> \in Seq(S)
        BY EmptySeq
      <4> QED
        BY <2>2, <4>1, <4>2, AppendProperties
    <3> DEFINE to == [x \in 1 .. (m + 1) + 1 |-> IF x <= m + 1 THEN at[x] ELSE k + 2]
    <3>2. /\ to \in [1 .. (m + 1) + 1 -> 0 .. (k + 1) + 1]
          /\ to[1] = 0 /\ to[(m + 1) + 1] = (k + 1) + 1
          /\ \A x \in 1 .. m + 1 : to[x] = at[x]
      BY <2>4, <2>7
    <3> HIDE DEF to
    <3>3. ASSUME NEW x \in 1 .. m
          PROVE  /\ to[x] < to[x + 1]
                 /\ new[x] = SubSeq(p, to[x] + 1, to[x + 1] - 1)
                 /\ \A y \in to[x] + 1 .. to[x + 1] - 1 : p[y] # Wild
                 /\ x # 1 => p[to[x]] = Wild
      <4>1. to[x] = at[x] /\ to[x + 1] = at[x + 1]
        BY <2>4, <3>2
      <4> QED
        BY <2>7, <3>1, <4>1
    <3>4. /\ to[m + 1] < to[(m + 1) + 1]
          /\ new[m + 1] = SubSeq(p, to[m + 1] + 1, to[(m + 1) + 1] - 1)
          /\ \A y \in to[m + 1] + 1 .. to[(m + 1) + 1] - 1 : p[y] # Wild
          /\ m + 1 # 1 => p[to[m + 1]] = Wild
      <4>1. to[m + 1] = k + 1 /\ to[(m + 1) + 1] = k + 2
        BY <2>4, <2>7, <3>2
      <4>2. SubSeq(p, (k + 1) + 1, (k + 2) - 1) = <<>>
        BY SubSeqEmpty
      <4> QED
        BY <2>8, <3>1, <4>1, <4>2
    <3>5. IsSplit(p, k + 1, new, to)
      <4>1. \A x \in 1 .. m + 1 : x \in 1 .. m \/ x = m + 1
        BY <2>4
      <4> QED
        BY <3>1, <3>2, <3>3, <3>4, <4>1 DEF IsSplit
    <3>6. Len(new) # 0
      <4> HIDE DEF m
      <4> QED
        BY <2>4, <3>1
    <3> QED
      BY <3>1, <3>5, <3>6 DEF new
  <2>9. CASE c # Wild
    <3>1. /\ new \in Seq(Seq(S)) /\ Len(new) = m
          /\ \A x \in 1 .. m : x # m => new[x] = P(k)[x]
          /\ new[m] = Append(P(k)[m], c)
      <4> DEFINE e == Append(P(k)[m], c)
      <4>1. m \in 1 .. m /\ e \in Seq(S)
        BY <2>4, <2>5, AppendProperties
      <4>2. new = [P(k) EXCEPT ![m] = e]
        BY <2>6, <2>9 DEF NextChar
      <4> HIDE DEF e
      <4>3. /\ new \in Seq(Seq(S)) /\ Len(new) = m
            /\ \A x \in 1 .. m : new[x] = IF x = m THEN e ELSE P(k)[x]
        BY <2>2, <4>1, <4>2, ExceptSeq
      <4> QED
        BY <4>1, <4>3 DEF e
    <3> DEFINE to == [x \in 1 .. m + 1 |-> IF x <= m THEN at[x] ELSE k + 2]
    <3>2. /\ to \in [1 .. m + 1 -> 0 .. (k + 1) + 1]
          /\ to[1] = 0 /\ to[m + 1] = (k + 1) + 1
          /\ \A x \in 1 .. m : to[x] = at[x]
      BY <2>4, <2>7
    <3> HIDE DEF to
    <3>3. ASSUME NEW x \in 1 .. m, x # m
          PROVE  /\ to[x] < to[x + 1]
                 /\ new[x] = SubSeq(p, to[x] + 1, to[x + 1] - 1)
                 /\ \A y \in to[x] + 1 .. to[x + 1] - 1 : p[y] # Wild
                 /\ x # 1 => p[to[x]] = Wild
      <4>1. x + 1 \in 1 .. m
        <5> HIDE DEF m
        <5> QED
          BY <2>4, <3>3
      <4>2. to[x] = at[x] /\ to[x + 1] = at[x + 1]
        BY <3>2, <4>1
      <4>3. /\ at[x] < at[x + 1]
            /\ P(k)[x] = SubSeq(p, at[x] + 1, at[x + 1] - 1)
            /\ \A y \in at[x] + 1 .. at[x + 1] - 1 : p[y] # Wild
            /\ x # 1 => p[at[x]] = Wild
        BY <2>7, <3>3
      <4>4. new[x] = P(k)[x]
        BY <3>1, <3>3
      <4> QED
        BY <4>2, <4>3, <4>4, Zenon
    <3>4. /\ to[m] < to[m + 1]
          /\ new[m] = SubSeq(p, to[m] + 1, to[m + 1] - 1)
          /\ \A y \in to[m] + 1 .. to[m + 1] - 1 : p[y] # Wild
          /\ m # 1 => p[to[m]] = Wild
      <4>1. /\ m \in 1 .. m /\ at[m] \in 0 .. k + 1 /\ at[m] < k + 1 /\ to[m] = at[m]
            /\ P(k)[m] = SubSeq(p, at[m] + 1, (k + 1) - 1)
            /\ \A y \in at[m] + 1 .. (k + 1) - 1 : p[y] # Wild
            /\ m # 1 => p[at[m]] = Wild
        BY <2>4, <2>7, <3>2
      <4>2. at[m] + 1 \in 1 .. n /\ k + 1 \in at[m] + 1 .. n
        BY <1>1, <2>1, <4>1
      <4>3. SubSeq(p, at[m] + 1, k + 1) = Append(SubSeq(p, at[m] + 1, (k + 1) - 1), c)
        <5> DEFINE i == at[m] + 1
                   j == k + 1
        <5> HIDE DEF i, j
        <5>1. SubSeq(p, i, j) = Append(SubSeq(p, i, j - 1), p[j])
          BY <4>2, LongerRun DEF i, j
        <5> QED
          BY <5>1 DEF i, j
      <4>4. to[m + 1] - 1 = k + 1
        BY <3>2
      <4>5. \A y \in at[m] + 1 .. k + 1 : y \in at[m] + 1 .. (k + 1) - 1 \/ y = k + 1
        BY <4>1
      <4>6. to[m] < to[m + 1]
        BY <3>2, <4>1
      <4> QED
        BY <2>9, <3>1, <4>1, <4>3, <4>4, <4>5, <4>6
    <3>5. IsSplit(p, k + 1, new, to)
      BY <3>1, <3>2, <3>3, <3>4 DEF IsSplit
    <3>6. Len(new) # 0
      <4> HIDE DEF m
      <4> QED
        BY <2>4, <3>1
    <3> QED
      BY <3>1, <3>5, <3>6 DEF new
  <2> QED
    BY <2>8, <2>9
<1>5. Law(n)
  <2> HIDE DEF Law
  <2>1. n \in Q
    <3> HIDE DEF Q
    <3> QED
      BY <1>1, <1>3, <1>4, Induction
  <2> QED
    BY <1>1, <2>1
<1>6. Parts(p) = P(n)
  BY <1>1, PartsIsFold DEF P
<1> QED
  BY <1>5, <1>6

---------------------------------------------------------------------------
(* Segments. *)

\* A cut into runs, as the meaning of a glob has it.
LEMMA CutsTake ==
  ASSUME NEW n \in Nat, NEW l \in Nat, NEW Wilds, NEW Fits
  PROVE  (\E cut \in Cuts(n, l) :
            \A i \in 1 .. n : i \in Wilds \/ (cut[i+1] = cut[i] + 1 /\ <<i, cut[i+1]>> \in Fits))
           <=> Takes(n, l, Wilds, Fits, 1, 1)
<1>1. \A cut : cut \in Cuts(n, l) <=>
        /\ cut \in [1 .. n + 1 -> 0 .. l] /\ cut[1] = 1 - 1 /\ cut[n+1] = l
        /\ \A i \in 1 .. n : cut[i] <= cut[i+1]
  BY DEF Cuts
<1>2. ASSUME NEW cut
      PROVE  (\A i \in 1 .. n : TakesRun(cut, Wilds, Fits, i)) <=>
               /\ \A i \in 1 .. n : cut[i] <= cut[i+1]
               /\ \A i \in 1 .. n : i \in Wilds \/ (cut[i+1] = cut[i] + 1 /\ <<i, cut[i+1]>> \in Fits)
  BY DEF TakesRun
<1>3. ASSUME Takes(n, l, Wilds, Fits, 1, 1)
      PROVE  \E cut \in Cuts(n, l) :
               \A i \in 1 .. n : i \in Wilds \/ (cut[i+1] = cut[i] + 1 /\ <<i, cut[i+1]>> \in Fits)
  <2>1. PICK cut \in [1 .. n + 1 -> 0 .. l] :
          cut[1] = 1 - 1 /\ cut[n+1] = l /\ \A i \in 1 .. n : TakesRun(cut, Wilds, Fits, i)
    BY <1>3 DEF Takes
  <2>2. cut \in Cuts(n, l)
    BY <1>1, <1>2, <2>1, Zenon
  <2> QED
    BY <1>2, <2>1, <2>2, Zenon
<1>4. ASSUME NEW cut \in Cuts(n, l),
             \A i \in 1 .. n : i \in Wilds \/ (cut[i+1] = cut[i] + 1 /\ <<i, cut[i+1]>> \in Fits)
      PROVE  Takes(n, l, Wilds, Fits, 1, 1)
  <2>1. /\ cut \in [1 .. n + 1 -> 0 .. l] /\ cut[1] = 1 - 1 /\ cut[n+1] = l
        /\ \A i \in 1 .. n : cut[i] <= cut[i+1]
    BY <1>1, Zenon
  <2>2. \A i \in 1 .. n : TakesRun(cut, Wilds, Fits, i)
    BY <1>2, <1>4, <2>1, Zenon
  <2> QED
    BY <2>1, <2>2 DEF Takes
<1> QED
  BY <1>3, <1>4

\* The places of the stars, and what the other characters are.
Stars(p) == {k \in 1 .. Len(p) : p[k] = Wild}
CharFits(p, s) == {f \in (1 .. Len(p)) \X (1 .. Len(s)) : p[f[1]] = s[f[2]]}
CharsTake(p, s, i, j) == Takes(Len(p), Len(s), Stars(p), CharFits(p, s), i, j)

\* What a segment glob means, in these terms.
LEMMA SegmentTakes ==
  ASSUME NEW p, NEW s, Len(p) \in Nat, Len(s) \in Nat, DOMAIN p = 1 .. Len(p)
  PROVE  SegMatches(p, s) <=> CharsTake(p, s, 1, 1)
<1> DEFINE n == Len(p)
           l == Len(s)
           Run(cut, i) == i \in Stars(p) \/ (cut[i+1] = cut[i] + 1 /\ <<i, cut[i+1]>> \in CharFits(p, s))
<1>1. SegMatches(p, s) <=>
        \E cut \in Cuts(n, l) :
          \A i \in 1 .. n : p[i] = Wild \/ (cut[i+1] = cut[i] + 1 /\ p[i] = s[cut[i+1]])
  BY DEF SegMatches, GlobMatches, SameChar
<1>2. ASSUME NEW cut \in Cuts(n, l), NEW i \in 1 .. n
      PROVE  Run(cut, i) <=> p[i] = Wild \/ (cut[i+1] = cut[i] + 1 /\ p[i] = s[cut[i+1]])
  <2>1. cut[i] \in 0 .. l /\ cut[i+1] \in 0 .. l
    <3>1. cut \in [1 .. n + 1 -> 0 .. l] /\ i \in 1 .. n + 1 /\ i + 1 \in 1 .. n + 1
      BY DEF Cuts
    <3> QED
      BY <3>1
  <2>2. cut[i+1] = cut[i] + 1 => cut[i+1] \in 1 .. l
    BY <2>1
  <2> DEFINE z == cut[i+1]
  <2> HIDE DEF z
  <2>3. z \in 1 .. l => (<<i, z>> \in CharFits(p, s) <=> p[i] = s[z])
    BY DEF CharFits
  <2>4. i \in Stars(p) <=> p[i] = Wild
    BY DEF Stars
  <2> QED
    BY <2>2, <2>3, <2>4 DEF z
<1>3. SegMatches(p, s) <=> \E cut \in Cuts(n, l) : \A i \in 1 .. n : Run(cut, i)
  <2> HIDE DEF Run
  <2> QED
    BY <1>1, <1>2, Zenon
<1> QED
  BY <1>3, CutsTake DEF CharsTake

\* A part takes its characters, whatever follows takes the rest.
LEMMA PartTakes ==
  ASSUME NEW S, NEW p \in Seq(S), NEW s \in Seq(S), NEW parts, NEW at,
         Len(parts) \in Nat, IsSplit(p, Len(p), parts, at),
         NEW x \in 1 .. Len(parts), NEW j \in 1 .. Len(s) + 1
  PROVE  /\ Len(parts[x]) \in Nat
         /\ CharsTake(p, s, at[x] + 1, j) <=>
              /\ j + Len(parts[x]) <= Len(s) + 1
              /\ Occurs(parts[x], s, j)
              /\ CharsTake(p, s, at[x + 1], j + Len(parts[x]))
<1> DEFINE n == Len(p)
           l == Len(s)
           a == at[x] + 1
           e == at[x + 1]
           L == Len(parts[x])
<1>1. n \in Nat /\ l \in Nat /\ \A y \in 1 .. n : p[y] \in S
  BY LenProperties, ElementOfSeq
<1>2. /\ a \in 1 .. n + 1 /\ e \in a .. n + 1
      /\ parts[x] = SubSeq(p, a, e - 1)
      /\ \A y \in a .. e - 1 : p[y] # Wild
  <2>1. x \in 1 .. Len(parts) + 1 /\ x + 1 \in 1 .. Len(parts) + 1
    OBVIOUS
  <2>2. /\ at \in [1 .. Len(parts) + 1 -> 0 .. n + 1]
        /\ at[x] < at[x + 1] /\ parts[x] = SubSeq(p, at[x] + 1, at[x + 1] - 1)
        /\ \A y \in at[x] + 1 .. at[x + 1] - 1 : p[y] # Wild
    BY DEF IsSplit
  <2>3. at[x] \in 0 .. n + 1 /\ at[x + 1] \in 0 .. n + 1
    BY <2>1, <2>2
  <2> QED
    BY <1>1, <2>2, <2>3
<1> HIDE DEF a, e
<1>3. L = e - a /\ \A y \in 1 .. L : parts[x][y] = p[a + y - 1]
  <2> DEFINE c == e - 1
  <2>1. /\ c \in Int /\ a \in Int /\ \A y \in a .. c : p[y] \in S
        /\ (IF a <= c THEN c - a + 1 ELSE 0) = e - a /\ c - a + 1 = e - a
    BY <1>1, <1>2
  <2>2. parts[x] = SubSeq(p, a, c)
    BY <1>2
  <2> HIDE DEF c
  <2> QED
    BY <2>1, <2>2, SubSeqProperties
<1> HIDE DEF L
<1>4. \A k \in a .. e - 1 : k \notin Stars(p)
  BY <1>2 DEF Stars
<1>5. CharsTake(p, s, a, j) <=>
        /\ j + (e - a) <= l + 1
        /\ \A k \in a .. e - 1 : <<k, j + (k - a)>> \in CharFits(p, s)
        /\ CharsTake(p, s, e, j + (e - a))
  BY <1>1, <1>2, <1>4, PlainRunTakes DEF CharsTake
<1>6. ASSUME j + (e - a) <= l + 1
      PROVE  (\A k \in a .. e - 1 : <<k, j + (k - a)>> \in CharFits(p, s)) <=> Occurs(parts[x], s, j)
  <2>1. ASSUME NEW k \in a .. e - 1
        PROVE  <<k, j + (k - a)>> \in CharFits(p, s) <=> p[k] = s[j + (k - a)]
    <3>1. k \in 1 .. n /\ j + (k - a) \in 1 .. l
      BY <1>1, <1>2, <1>6
    <3> QED
      BY <3>1 DEF CharFits
  <2>2. Occurs(parts[x], s, j) <=> \A y \in 1 .. e - a : p[a + y - 1] = s[j + y - 1]
    BY <1>3 DEF Occurs, L
  <2>3. ASSUME \A k \in a .. e - 1 : p[k] = s[j + (k - a)], NEW y \in 1 .. e - a
        PROVE  p[a + y - 1] = s[j + y - 1]
    <3>1. a + y - 1 \in a .. e - 1 /\ j + ((a + y - 1) - a) = j + y - 1
      BY <1>2
    <3> QED
      BY <2>3, <3>1
  <2>4. ASSUME \A y \in 1 .. e - a : p[a + y - 1] = s[j + y - 1], NEW k \in a .. e - 1
        PROVE  p[k] = s[j + (k - a)]
    <3>1. k - a + 1 \in 1 .. e - a /\ a + (k - a + 1) - 1 = k /\ j + (k - a + 1) - 1 = j + (k - a)
      BY <1>2
    <3> QED
      BY <2>4, <3>1
  <2> QED
    BY <2>1, <2>2, <2>3, <2>4
<1>7. e - a \in Nat
  BY <1>2
<1> QED
  BY <1>3, <1>5, <1>6, <1>7 DEF a, e, L

\* Where a text occurs at the beginning, and as long, it is all there is.
LEMMA OccursWhole ==
  ASSUME NEW S, NEW p \in Seq(S), NEW s \in Seq(S)
  PROVE  p = s <=> Len(p) = Len(s) /\ Occurs(p, s, 1)
<1>1. Len(p) \in Nat /\ \A y \in 1 .. Len(p) : 1 + y - 1 = y
  BY LenProperties
<1>2. Occurs(p, s, 1) <=> \A y \in 1 .. Len(p) : p[y] = s[y]
  BY <1>1 DEF Occurs
<1> QED
  BY <1>2, SeqEqual

\* From each star on, the parts behind it are taken one after the other.
LEMMA StarsContinue ==
  ASSUME NEW S, NEW p \in Seq(S), NEW s \in Seq(S), NEW parts, NEW at,
         Len(parts) \in Nat, IsSplit(p, Len(p), parts, at), NEW R,
         R = {f \in (2 .. Len(parts) + 1) \X (1 .. Len(s) + 1) : CharsTake(p, s, at[f[1]], f[2])}
  PROVE  Continues(R, parts, s)
<1> DEFINE n == Len(p)
           l == Len(s)
           m == Len(parts)
<1>1. n \in Nat /\ l \in Nat /\ m \in Nat
  BY LenProperties
<1>2. \A x \in 2 .. m + 1, j \in 1 .. l + 1 : <<x, j>> \in R <=> CharsTake(p, s, at[x], j)
  OBVIOUS
<1>3. /\ at \in [1 .. m + 1 -> 0 .. n + 1] /\ at[1] = 0 /\ at[m + 1] = n + 1
      /\ \A x \in 1 .. m : at[x] < at[x + 1] /\ (x # 1 => p[at[x]] = Wild)
  BY DEF IsSplit
<1>4. ASSUME NEW j \in 1 .. l + 1, m # 0
      PROVE  <<m + 1, j>> \in R <=> j = l + 1
  <2>1. m + 1 \in 2 .. m + 1
    BY <1>1, <1>4
  <2>2. CharsTake(p, s, n + 1, j) <=> j = l + 1
    BY <1>1, NothingTakes DEF CharsTake
  <2> QED
    BY <1>2, <1>3, <2>1, <2>2
<1>5. ASSUME NEW x \in 2 .. m, NEW j \in 1 .. l + 1
      PROVE  <<x, j>> \in R <=>
               \E y \in j .. l + 1 : /\ y + Len(parts[x]) <= l + 1
                                     /\ Occurs(parts[x], s, y)
                                     /\ <<x + 1, y + Len(parts[x])>> \in R
  <2>1. /\ x \in 2 .. m + 1 /\ x + 1 \in 2 .. m + 1 /\ x \in 1 .. m
        /\ x - 1 \in 1 .. m /\ (x - 1) + 1 = x /\ x # 1 /\ x \in 1 .. m + 1
        /\ x - 1 \in 1 .. m + 1 /\ x + 1 \in 1 .. m + 1
    BY <1>1
  <2>2. at[x] \in 1 .. n
    <3>1. at[x - 1] \in 0 .. n + 1 /\ at[x] \in 0 .. n + 1 /\ at[x + 1] \in 0 .. n + 1
      BY <1>3, <2>1
    <3>2. at[x - 1] < at[x] /\ at[x] < at[x + 1]
      BY <1>3, <2>1
    <3> QED
      BY <1>1, <3>1, <3>2
  <2>3. at[x] \in Stars(p)
    BY <1>3, <2>1, <2>2 DEF Stars
  <2>4. CharsTake(p, s, at[x], j) <=> \E y \in j .. l + 1 : CharsTake(p, s, at[x] + 1, y)
    BY <1>1, <2>2, <2>3, WildcardTakes DEF CharsTake
  <2>5. ASSUME NEW y \in j .. l + 1
        PROVE  CharsTake(p, s, at[x] + 1, y) <=>
                 /\ y + Len(parts[x]) <= l + 1
                 /\ Occurs(parts[x], s, y)
                 /\ <<x + 1, y + Len(parts[x])>> \in R
    <3>1. y \in 1 .. l + 1
      BY <1>1
    <3>2. /\ Len(parts[x]) \in Nat
          /\ CharsTake(p, s, at[x] + 1, y) <=>
               /\ y + Len(parts[x]) <= l + 1
               /\ Occurs(parts[x], s, y)
               /\ CharsTake(p, s, at[x + 1], y + Len(parts[x]))
      BY <2>1, <3>1, PartTakes
    <3>3. y + Len(parts[x]) <= l + 1 => y + Len(parts[x]) \in 1 .. l + 1
      BY <1>1, <3>1, <3>2
    <3> DEFINE z == y + Len(parts[x])
    <3> HIDE DEF z
    <3>4. z \in 1 .. l + 1 => (<<x + 1, z>> \in R <=> CharsTake(p, s, at[x + 1], z))
      BY <1>2, <2>1
    <3> QED
      BY <3>2, <3>3, <3>4 DEF z
  <2>6. <<x, j>> \in R <=> CharsTake(p, s, at[x], j)
    BY <1>2, <2>1
  <2> QED
    BY <2>4, <2>5, <2>6
<1>6. m # 0
  <2>1. m = 0 => at[1] = at[m + 1]
    BY <1>1
  <2> QED
    BY <1>1, <1>3, <2>1
<1> QED
  BY <1>4, <1>5, <1>6 DEF Continues

\* matchSeg accepts exactly the segments that the wildcard language describes,
\* for every pattern and every segment (match.go:106-132).
THEOREM SegmentGlob ==
  ASSUME NEW S, NEW p \in Seq(S), NEW s \in Seq(S)
  PROVE  matchSeg(p, s) <=> SegMatches(p, s)
<1> DEFINE n == Len(p)
           l == Len(s)
           parts == Parts(p)
           m == Len(parts)
           first == parts[1]
           a == 1 + Len(first)
<1>1. /\ n \in Nat /\ l \in Nat /\ DOMAIN p = 1 .. n
      /\ \A y \in 1 .. n : p[y] \in S
      /\ \A y \in 1 .. l : s[y] \in S
  BY LenProperties, ElementOfSeq
<1>2. parts \in Seq(Seq(S)) /\ \E at : IsSplit(p, n, parts, at)
  BY PartsSplit
<1> HIDE DEF parts
<1>3. PICK at : IsSplit(p, n, parts, at)
  BY <1>2
<1>4. m \in Nat /\ \A k \in 1 .. m : parts[k] \in Seq(S) /\ Len(parts[k]) \in Nat
  BY <1>2, LenProperties, ElementOfSeq
<1>5. /\ at[1] = 0 /\ at[m + 1] = n + 1
      /\ \A x \in 1 .. m : parts[x] = SubSeq(p, at[x] + 1, at[x + 1] - 1)
  BY <1>3 DEF IsSplit
<1>6. m >= 1
  <2>1. m = 0 => at[1] = at[m + 1]
    BY <1>4
  <2> QED
    BY <1>1, <1>4, <1>5, <2>1
<1>7. 1 \in 1 .. m /\ first \in Seq(S) /\ Len(first) \in Nat /\ 1 \in 1 .. l + 1
  BY <1>1, <1>4, <1>6
<1>8. SegMatches(p, s) <=>
        a <= l + 1 /\ Occurs(first, s, 1) /\ CharsTake(p, s, at[2], a)
  <2>1. SegMatches(p, s) <=> CharsTake(p, s, at[1] + 1, 1)
    BY <1>1, <1>5, SegmentTakes
  <2> DEFINE x == 1
  <2>2. x \in 1 .. m /\ x + 1 = 2 /\ x \in 1 .. l + 1
    BY <1>7
  <2>3. CharsTake(p, s, at[x] + 1, 1) <=>
          /\ 1 + Len(parts[x]) <= l + 1
          /\ Occurs(parts[x], s, 1)
          /\ CharsTake(p, s, at[x + 1], 1 + Len(parts[x]))
    <3> HIDE DEF x
    <3> QED
      BY <1>3, <1>4, <1>7, <2>2, PartTakes
  <2> QED
    BY <2>1, <2>2, <2>3
<1>9. CASE m = 1
  <2>1. first = p
    <3>1. first = SubSeq(p, 1, n)
      BY <1>1, <1>5, <1>7, <1>9
    <3> QED
      BY <3>1, SubSeqFull
  <2>2. a = 1 + n /\ at[2] = n + 1
    BY <1>5, <1>9, <2>1
  <2>3. a <= l + 1 => a \in 1 .. l + 1 /\ (a = l + 1 <=> n = l)
    BY <1>1, <2>2
  <2>4. a <= l + 1 => (CharsTake(p, s, at[2], a) <=> n = l)
    <3> HIDE DEF a
    <3> QED
      BY <1>1, <2>2, <2>3, NothingTakes DEF CharsTake
  <2>5. n = l => a <= l + 1
    BY <1>1, <2>2
  <2>6. matchSeg(p, s) <=> p = s
    BY <1>9 DEF matchSeg, parts
  <2> QED
    BY <1>8, <2>1, <2>4, <2>5, <2>6, OccursWhole
<1>10. CASE m >= 2
  <2> DEFINE R == {f \in (2 .. m + 1) \X (1 .. l + 1) : CharsTake(p, s, at[f[1]], f[2])}
             last == parts[m]
             L == Len(last)
             b == l + 1 - L
             rest == DropPrefix(s, Len(first))
             mids == SubSeq(parts, 2, m - 1)
             mid == SubSeq(rest, 1, Len(rest) - L)
  <2>1. Continues(R, parts, s)
    BY <1>3, <1>4, StarsContinue
  <2>2. a <= l + 1 => (CharsTake(p, s, at[2], a) <=> <<2, a>> \in R)
    <3>1. a <= l + 1 => a \in 1 .. l + 1
      BY <1>1, <1>7
    <3>2. 2 \in 2 .. m + 1
      BY <1>4, <1>10
    <3> HIDE DEF a
    <3> QED
      BY <3>1, <3>2
  <2>3. matchSeg(p, s) <=> IsPrefix(first, s) /\ IsSuffix(last, rest) /\ Floats(mids, mid)
    <3> HIDE DEF R
    <3>1. m # 1
      BY <1>4, <1>10
    <3>2. matchSeg(p, s) <=>
            IF m = 1 THEN p = s
            ELSE IsPrefix(first, s) /\ IsSuffix(last, rest) /\ Floats(mids, mid)
      BY Zenon DEF matchSeg, parts
    <3> QED
      BY <3>1, <3>2, Zenon
  <2> HIDE DEF R
  <2>4. IsPrefix(first, s) <=> a <= l + 1 /\ Occurs(first, s, 1)
    <3>1. a <= l + 1 <=> Len(first) <= l
      BY <1>1, <1>7
    <3> QED
      BY <1>7, <3>1, PrefixOccurs
  <2>5. last \in Seq(S) /\ L \in Nat
    BY <1>4, <1>6
  <2>6. ASSUME a <= l + 1
        PROVE  /\ IsSuffix(last, rest) <=> a <= b /\ Occurs(last, s, b)
               /\ a <= b => mid = SubSeq(s, a, b - 1)
               /\ <<2, a>> \in R <=> a <= b /\ Occurs(last, s, b) /\ Floats(mids, SubSeq(s, a, b - 1))
    <3>1. a \in 1 .. l + 1 /\ b \in Int /\ a \in Int
      BY <1>1, <1>7, <2>5, <2>6
    <3>2. rest = SubSeq(s, a, l)
      <4>1. Len(first) + 1 = a
        BY <1>7
      <4> QED
        BY <4>1 DEF DropPrefix
    <3>3. rest \in Seq(S) /\ Len(rest) = l + 1 - a
      <4>1. \A y \in a .. l : s[y] \in S
        BY <1>1, <3>1
      <4>2. (IF a <= l THEN l - a + 1 ELSE 0) = l + 1 - a
        BY <1>1, <3>1
      <4> HIDE DEF rest, a
      <4> QED
        BY <1>1, <3>1, <3>2, <4>1, <4>2, SubSeqProperties
    <3> HIDE DEF a, rest
    <3>4. IsSuffix(last, rest) <=> a <= b /\ Occurs(last, s, b)
      <4>1. IsSuffix(last, rest) <=> L <= Len(rest) /\ Occurs(last, rest, Len(rest) - L + 1)
        BY <2>5, <3>3, SuffixOccurs
      <4>2. L <= Len(rest) <=> a <= b
        BY <1>1, <2>5, <3>1, <3>3
      <4>3. ASSUME a <= b
            PROVE  Occurs(last, rest, Len(rest) - L + 1) <=> Occurs(last, s, b)
        <5> DEFINE i == Len(rest) - L + 1
        <5>1. i \in Nat \ {0} /\ i + L - 1 <= l - a + 1 /\ a + i - 1 = b /\ l \in a - 1 .. l
          BY <1>1, <2>5, <3>1, <3>3, <4>3
        <5> HIDE DEF i, b, last
        <5>2. Occurs(last, SubSeq(s, a, l), i) <=> Occurs(last, s, a + i - 1)
          BY <1>1, <2>5, <3>1, <5>1, OccursInPart
        <5> QED
          BY <3>2, <5>1, <5>2 DEF i
      <4> QED
        BY <4>1, <4>2, <4>3
    <3>5. ASSUME a <= b
          PROVE  mid = SubSeq(s, a, b - 1)
      <4> DEFINE v == Len(rest) - L
      <4>1. v \in 0 .. l - a + 1 /\ a + 1 - 1 = a /\ a + v - 1 = b - 1 /\ l \in a - 1 .. l /\ 1 \in Nat \ {0}
        <5>1. /\ l \in Nat /\ L \in Nat /\ Len(rest) = l + 1 - a /\ a \in 1 .. l + 1
              /\ b = l + 1 - L /\ a <= b
          BY <1>1, <2>5, <3>1, <3>3, <3>5
        <5> HIDE DEF l, L, b, last
        <5> QED
          BY <5>1
      <4> HIDE DEF v, b
      <4>2. SubSeq(SubSeq(s, a, l), 1, v) = SubSeq(s, a + 1 - 1, a + v - 1)
        BY <1>1, <3>1, <4>1, PartOfPart
      <4> QED
        BY <3>2, <4>1, <4>2 DEF v
    <3>6. <<2, a>> \in R <=> a <= b /\ Occurs(last, s, b) /\ Floats(mids, SubSeq(s, a, b - 1))
      BY <1>2, <1>10, <2>1, <3>1, GreedyIsExact
    <3> QED
      BY <3>4, <3>5, <3>6
  <2> HIDE DEF a, b, last, mid, mids, rest
  <2> QED
    BY <1>8, <2>2, <2>3, <2>4, <2>6
<1>11. m = 1 \/ m >= 2
  <2> HIDE DEF m
  <2> QED
    BY <1>4, <1>6
<1> QED
  BY <1>9, <1>10, <1>11

---------------------------------------------------------------------------
(* Paths. *)

\* A nonempty set of numbers up to n has a largest one.
LEMMA LargestIsElement ==
  ASSUME NEW n \in Nat, NEW t \in SUBSET (1 .. n), t # {}
  PROVE  Max(t) \in t /\ \A y \in t : Max(t) >= y
  BY Splitting!MaxIsElement DEF Max, Splitting!Max

\* From one place to another.
LEMMA IsStretch ==
  ASSUME NEW p, NEW i \in DOMAIN p, NEW j \in DOMAIN p
  PROVE  SubSeq(p, i, j) \in Stretches(p)
<1> DEFINE D == DOMAIN p
           e == <<i, j>>
<1>1. e \in D \X D /\ e[1] = i /\ e[2] = j
  OBVIOUS
<1>2. Stretches(p) = {SubSeq(p, x[1], x[2]) : x \in D \X D}
  BY Zenon DEF Stretches
<1> HIDE DEF D, e
<1> QED
  BY <1>1, <1>2

\* Trimming the slashes leaves what is between the empty segments at the ends.
LEMMA SplitPathTrims ==
  ASSUME NEW S, NEW p \in Seq(S)
  PROVE  splitPath(p) = NonEmptyEnds(p) /\ splitPath(p) \in Seq(S)
<1> DEFINE n == Len(p)
           full == {i \in DOMAIN p : p[i] # <<>>}
           lo == Min(full)
           hi == Max(full)
<1>1. n \in Nat /\ DOMAIN p = 1 .. n /\ \A i \in 1 .. n : p[i] \in S
  BY LenProperties, ElementOfSeq
<1>2. CASE full = {}
  <2>1. \A i \in DOMAIN p : p[i] = <<>>
    BY <1>2
  <2> QED
    BY <1>2, <2>1, EmptySeq DEF splitPath, NonEmptyEnds
<1>3. CASE full # {}
  <2>1. full \in SUBSET (1 .. n) /\ full \in SUBSET Nat
    BY <1>1
  <2>2. lo \in full /\ (\A i \in full : lo <= i) /\ hi \in full /\ (\A i \in full : hi >= i)
    <3> HIDE DEF full
    <3> QED
      BY <1>1, <1>3, <2>1, MinIsElement, LargestIsElement
  <2> HIDE DEF lo, hi
  <2>3. lo \in 1 .. n /\ hi \in 1 .. n /\ \A k \in 1 .. n : p[k] # <<>> => k \in lo .. hi
    BY <1>1, <2>1, <2>2
  <2>4. HasNonEmptyEnds(p, SubSeq(p, lo, hi)) /\ SubSeq(p, lo, hi) \in Stretches(p)
    <3>1. lo \in DOMAIN p /\ hi \in DOMAIN p /\ p[lo] # <<>> /\ p[hi] # <<>>
      BY <2>2
    <3>2. \A k \in DOMAIN p : p[k] # <<>> => k \in lo .. hi
      BY <1>1, <2>3
    <3>3. HasNonEmptyEnds(p, SubSeq(p, lo, hi))
      BY <3>1, <3>2 DEF HasNonEmptyEnds
    <3>4. SubSeq(p, lo, hi) \in Stretches(p)
      BY <3>1, IsStretch
    <3> QED
      BY <3>3, <3>4
  <2>5. ASSUME NEW t, HasNonEmptyEnds(p, t)
        PROVE  t = SubSeq(p, lo, hi)
    <3>1. PICK i \in 1 .. n, j \in 1 .. n :
            /\ t = SubSeq(p, i, j) /\ p[i] # <<>> /\ p[j] # <<>>
            /\ \A k \in 1 .. n : p[k] # <<>> => k \in i .. j
      BY <1>1, <2>5 DEF HasNonEmptyEnds
    <3>2. lo \in i .. j /\ hi \in i .. j
      BY <2>2, <2>3, <3>1
    <3>3. lo <= i /\ j <= hi
      BY <2>3, <3>1
    <3>4. lo = i /\ hi = j
      BY <1>1, <2>3, <3>1, <3>2, <3>3
    <3> QED
      BY <3>1, <3>4
  <2>6. NonEmptyEnds(p) = CHOOSE t \in Stretches(p) : HasNonEmptyEnds(p, t)
    <3>1. ~ \A i \in DOMAIN p : p[i] = <<>>
      BY <1>3
    <3> QED
      BY <3>1, Zenon DEF NonEmptyEnds
  <2>7. NonEmptyEnds(p) = SubSeq(p, lo, hi)
    BY <2>4, <2>5, <2>6
  <2>8. splitPath(p) = SubSeq(p, lo, hi)
    BY <1>3, Zenon DEF splitPath, lo, hi
  <2>9. SubSeq(p, lo, hi) \in Seq(S)
    <3>1. \A k \in lo .. hi : p[k] \in S
      BY <1>1, <2>3
    <3>2. lo \in Int /\ hi \in Int
      BY <2>3
    <3> QED
      BY <3>1, <3>2, SubSeqProperties
  <2> QED
    BY <2>7, <2>8, <2>9
<1> QED
  BY <1>2, <1>3

\* matchSegs accepts exactly the paths that can be cut into runs of segments.
LEMMA SearchIsExact ==
  ASSUME NEW S, NEW p \in Seq(Seq(S)), NEW s \in Seq(Seq(S))
  PROVE  matchSegs(p, s) <=> GlobMatches(p, s, DoubleWild, SegMatches)
<1> DEFINE n == Len(p)
           l == Len(s)
           Run(cut, i) == \/ i \in DoubleWilds(p)
                          \/ cut[i+1] = cut[i] + 1 /\ <<i, cut[i+1]>> \in SegFits(p, s)
<1>1. /\ n \in Nat /\ l \in Nat /\ DOMAIN p = 1 .. n
      /\ \A i \in 1 .. n : p[i] \in Seq(S)
      /\ \A i \in 1 .. l : s[i] \in Seq(S)
  BY LenProperties, ElementOfSeq
<1>2. GlobMatches(p, s, DoubleWild, SegMatches) <=>
        \E cut \in Cuts(n, l) :
          \A i \in 1 .. n : p[i] = DoubleWild \/ (cut[i+1] = cut[i] + 1 /\ SegMatches(p[i], s[cut[i+1]]))
  BY <1>1 DEF GlobMatches
<1>3. ASSUME NEW cut \in Cuts(n, l), NEW i \in 1 .. n
      PROVE  Run(cut, i) <=>
               p[i] = DoubleWild \/ (cut[i+1] = cut[i] + 1 /\ SegMatches(p[i], s[cut[i+1]]))
  <2>1. cut[i] \in 0 .. l /\ cut[i+1] \in 0 .. l
    <3>1. cut \in [1 .. n + 1 -> 0 .. l] /\ i \in 1 .. n + 1 /\ i + 1 \in 1 .. n + 1
      BY <1>1 DEF Cuts
    <3> QED
      BY <3>1
  <2>2. cut[i+1] = cut[i] + 1 => cut[i+1] \in 1 .. l
    BY <1>1, <2>1
  <2> DEFINE z == cut[i+1]
  <2> HIDE DEF z
  <2>3. ASSUME z \in 1 .. l
        PROVE  <<i, z>> \in SegFits(p, s) <=> SegMatches(p[i], s[z])
    <3>1. <<i, z>> \in SegFits(p, s) <=> matchSeg(p[i], s[z])
      BY <2>3 DEF SegFits
    <3>2. p[i] \in Seq(S) /\ s[z] \in Seq(S)
      BY <1>1, <2>3
    <3> QED
      BY <3>1, <3>2, SegmentGlob
  <2>4. i \in DoubleWilds(p) <=> p[i] = DoubleWild
    BY DEF DoubleWilds
  <2> QED
    BY <2>2, <2>3, <2>4 DEF z
<1>4. GlobMatches(p, s, DoubleWild, SegMatches) <=>
        \E cut \in Cuts(n, l) : \A i \in 1 .. n : Run(cut, i)
  <2> HIDE DEF Run
  <2> QED
    BY <1>2, <1>3, Zenon
<1> QED
  BY <1>1, <1>4, CutsTake, SearchTakes

\* MatchPath accepts exactly the paths that, the slashes at the ends set aside,
\* can be cut into one run of segments per pattern segment, for every pattern
\* and every path (match.go:58-104).
THEOREM PathGlob ==
  ASSUME NEW S, NEW p \in Seq(Seq(S)), NEW s \in Seq(Seq(S))
  PROVE  MatchPath(p, s) <=>
           GlobMatches(NonEmptyEnds(p), NonEmptyEnds(s), DoubleWild, SegMatches)
<1> DEFINE x == splitPath(p)
           y == splitPath(s)
<1>1. x = NonEmptyEnds(p) /\ y = NonEmptyEnds(s) /\ x \in Seq(Seq(S)) /\ y \in Seq(Seq(S))
  BY SplitPathTrims
<1>2. MatchPath(p, s) <=> matchSegs(x, y)
  BY DEF MatchPath
<1> HIDE DEF x, y
<1>3. matchSegs(x, y) <=> GlobMatches(x, y, DoubleWild, SegMatches)
  BY <1>1, SearchIsExact
<1>4. x = NonEmptyEnds(p) /\ y = NonEmptyEnds(s)
  BY <1>1
<1> QED
  BY <1>2, <1>3, <1>4

---------------------------------------------------------------------------
(* The globs of the run. *)

\* What is typed is a pattern and an input of the function that is looked at.
InputsTyped == pat \in Seq(Input[kind].of) /\ seg \in Seq(Input[kind].by)

\* An element more.
LEMMA OneMoreTyped ==
  ASSUME NEW S, NEW s \in Seq(S), NEW c \in S
  PROVE  Append(s, c) \in Seq(S)
  BY AppendProperties

\* The inputs of the functions are of their types (MCFunctions).
LEMMA InputsTypedAlways == Spec => []InputsTyped
<1>1. Init => InputsTyped
  BY EmptySeq DEF Init, InputsTyped
<1>2. InputsTyped /\ [Next]_vars => InputsTyped'
  <2> SUFFICES ASSUME InputsTyped, [Next]_vars PROVE InputsTyped'
    OBVIOUS
  <2>1. CASE TypePattern
    BY <2>1, OneMoreTyped DEF TypePattern, InputsTyped
  <2>2. CASE TypeInput
    BY <2>2, OneMoreTyped DEF TypeInput, InputsTyped
  <2>3. CASE UNCHANGED vars
    BY <2>3 DEF vars, InputsTyped
  <2> QED
    BY <2>1, <2>2, <2>3 DEF Next
<1> QED
  BY <1>1, <1>2, PTL DEF Spec

\* matchSeg's anchored ends and greedy leftmost middle parts accept exactly
\* what the wildcard language describes, in every state of the run (match.go:106-132).
THEOREM SegmentGlobTheorem == Spec => []SegmentGlobIsExact
<1>1. InputsTyped => SegmentGlobIsExact
  <2> SUFFICES ASSUME InputsTyped, kind = "segment"
               PROVE  matchSeg(pat, seg) <=> SegMatches(pat, seg)
    BY DEF SegmentGlobIsExact
  <2> DEFINE S == Letters \cup {Wild}
  <2>1. Input["segment"].of = S /\ Input["segment"].by = Letters
    BY DEF Input
  <2>2. Letters \subseteq S
    OBVIOUS
  <2> HIDE DEF S
  <2>3. pat \in Seq(S) /\ seg \in Seq(S)
    BY <2>1, <2>2 DEF InputsTyped
  <2> QED
    BY <2>3, SegmentGlob
<1> QED
  BY <1>1, InputsTypedAlways, PTL

\* The paths that are typed are of the three characters of the run.
LEMMA PathsTyped ==
  ASSUME InputsTyped, kind = "path"
  PROVE  pat \in Seq(Seq({Wild, "a", "b"})) /\ seg \in Seq(Seq({Wild, "a", "b"}))
<1> DEFINE S == {Wild, "a", "b"}
<1>1. PatSegs \subseteq Seq(S) /\ PathSegs \subseteq Seq(S)
  <2>1. Wild \in S /\ "a" \in S /\ "b" \in S
    OBVIOUS
  <2> HIDE DEF S
  <2>2. /\ <<>> \in Seq(S) /\ DoubleWild \in Seq(S) /\ <<Wild>> \in Seq(S)
        /\ <<"a">> \in Seq(S) /\ <<"b">> \in Seq(S)
        /\ <<"a", Wild>> \in Seq(S) /\ <<"a", "b">> \in Seq(S)
    BY <2>1 DEF DoubleWild
  <2> QED
    BY <2>2 DEF PatSegs, PathSegs
<1> HIDE DEF S
<1>2. Input["path"].of = PatSegs /\ Input["path"].by = PathSegs
  BY DEF Input
<1>3. pat \in Seq(PatSegs) /\ seg \in Seq(PathSegs)
  BY <1>2 DEF InputsTyped
<1>4. pat \in Seq(Seq(S)) /\ seg \in Seq(Seq(S))
  BY <1>1, <1>3
<1> QED
  BY <1>4 DEF S

\* matchSegs' search over the split points of "**" accepts exactly the paths
\* that can be cut into runs of segments, in every state of the run
\* (match.go:58-104).
THEOREM PathGlobTheorem == Spec => []PathGlobIsExact
<1> DEFINE S == {Wild, "a", "b"}
<1> HIDE DEF S
<1>1. InputsTyped => PathGlobIsExact
  <2> SUFFICES ASSUME InputsTyped, kind = "path"
               PROVE  MatchPath(pat, seg) <=>
                        GlobMatches(NonEmptyEnds(pat), NonEmptyEnds(seg), DoubleWild, SegMatches)
    BY DEF PathGlobIsExact
  <2>1. pat \in Seq(Seq(S)) /\ seg \in Seq(Seq(S))
    BY PathsTyped DEF S
  <2> QED
    BY <2>1, PathGlob
<1> QED
  BY <1>1, InputsTypedAlways, PTL

---------------------------------------------------------------------------
(* Header maps. *)

NoLines(c) == NoHeaders
OneLine(c, h, k) == Add(h, Canonical(c[k].name), <<c[k].line>>)
Receiving == INSTANCE FoldLaws WITH Base <- NoLines, Step <- OneLine, Pick <- Max
ReceivedUpTo(lines, k) == Receiving!FoldUpTo(lines, Len(lines), k)

NoneOfName(c) == <<>>
OneOfName(c, own, k) ==
  IF Canonical(c[1][k].name) = c[2] THEN Append(own, c[1][k].line) ELSE own
Collecting == INSTANCE FoldLaws WITH Base <- NoneOfName, Step <- OneOfName, Pick <- Max
LinesUpTo(lines, name, k) == Collecting!FoldUpTo(<<lines, name>>, Len(lines), k)

\* Received and LinesOf take all lines, one after the other.
LEMMA LineByLine ==
  ASSUME NEW lines, NEW name, Len(lines) \in Nat, DOMAIN lines = 1 .. Len(lines)
  PROVE  /\ Received(lines) = ReceivedUpTo(lines, Len(lines))
         /\ ReceivedUpTo(lines, 0) = NoHeaders
         /\ \A k \in 1 .. Len(lines) :
              ReceivedUpTo(lines, k) = OneLine(lines, ReceivedUpTo(lines, k - 1), k)
         /\ LinesOf(lines, name) = LinesUpTo(lines, name, Len(lines))
         /\ LinesUpTo(lines, name, 0) = <<>>
         /\ \A k \in 1 .. Len(lines) :
              LinesUpTo(lines, name, k) =
                IF Canonical(lines[k].name) = name
                THEN Append(LinesUpTo(lines, name, k - 1), lines[k].line)
                ELSE LinesUpTo(lines, name, k - 1)
<1>1. Received(lines) = ReceivedUpTo(lines, Len(lines))
  BY DEF Received, FoldLeft, MapThenFoldSet, ReceivedUpTo, Receiving!FoldUpTo, Receiving!Fold,
         Receiving!IsFold, NoLines, OneLine
<1>2. LinesOf(lines, name) = LinesUpTo(lines, name, Len(lines))
  BY DEF LinesOf, FoldLeft, MapThenFoldSet, LinesUpTo, Collecting!FoldUpTo, Collecting!Fold,
         Collecting!IsFold, NoneOfName, OneOfName
<1>3. /\ Receiving!FoldUpTo(lines, Len(lines), 0) = NoLines(lines)
      /\ \A k \in 1 .. Len(lines) :
           Receiving!FoldUpTo(lines, Len(lines), k)
             = OneLine(lines, Receiving!FoldUpTo(lines, Len(lines), k - 1), k)
  BY Receiving!FoldIsLoop DEF Max, Receiving!Max
<1> DEFINE call == <<lines, name>>
<1>4. /\ Collecting!FoldUpTo(call, Len(lines), 0) = NoneOfName(call)
      /\ \A k \in 1 .. Len(lines) :
           Collecting!FoldUpTo(call, Len(lines), k)
             = OneOfName(call, Collecting!FoldUpTo(call, Len(lines), k - 1), k)
  BY Collecting!FoldIsLoop DEF Max, Collecting!Max
<1>5. /\ LinesUpTo(lines, name, 0) = <<>>
      /\ \A k \in 1 .. Len(lines) :
           LinesUpTo(lines, name, k) = OneOfName(call, LinesUpTo(lines, name, k - 1), k)
  BY <1>4 DEF LinesUpTo, NoneOfName
<1>6. \A own, k : OneOfName(call, own, k) =
        IF Canonical(lines[k].name) = name THEN Append(own, lines[k].line) ELSE own
  BY DEF OneOfName
<1>7. /\ ReceivedUpTo(lines, 0) = NoHeaders
      /\ \A k \in 1 .. Len(lines) :
           ReceivedUpTo(lines, k) = OneLine(lines, ReceivedUpTo(lines, k - 1), k)
  BY <1>3 DEF ReceivedUpTo, NoLines
<1> QED
  BY <1>1, <1>2, <1>5, <1>6, <1>7

\* A message of header lines: each has a name, and a sequence of elements.
IsMessage(lines, U) == \E L : lines \in Seq(L) /\ \A l \in L : l.line \in Seq(U)

\* The header map of a message has its names, each with its lines in order.
LEMMA ReceivedKeeps ==
  ASSUME NEW U, NEW lines, IsMessage(lines, U)
  PROVE  /\ DOMAIN Received(lines) = Sent(lines)
         /\ \A name : /\ Values(Received(lines), name) = LinesOf(lines, name)
                      /\ LinesOf(lines, name) \in Seq(Seq(U))
                      /\ name \in Sent(lines) <=> LinesOf(lines, name) # <<>>
                      /\ Range(LinesOf(lines, name))
                           = {l.line : l \in {m \in Range(lines) : Canonical(m.name) = name}}
<1> DEFINE n == Len(lines)
           C(k) == Canonical(lines[k].name)
           H(k) == ReceivedUpTo(lines, k)
           Of(name, k) == LinesUpTo(lines, name, k)
           Seen(k) == {C(i) : i \in 1 .. k}
           Law(k) == /\ DOMAIN H(k) = Seen(k)
                     /\ \A name : /\ Values(H(k), name) = Of(name, k)
                                  /\ Of(name, k) \in Seq(Seq(U))
                                  /\ name \in Seen(k) <=> Len(Of(name, k)) # 0
                                  /\ Range(Of(name, k)) = {lines[i].line : i \in {j \in 1 .. k : C(j) = name}}
           Q == {k \in Nat : k <= n => Law(k)}
<1>1. n \in Nat /\ DOMAIN lines = 1 .. n /\ \A k \in 1 .. n : lines[k].line \in Seq(U)
  BY LenProperties, ElementOfSeq DEF IsMessage
<1>2. /\ H(0) = NoHeaders
      /\ \A k \in 1 .. n : H(k) = Add(H(k - 1), C(k), <<lines[k].line>>)
      /\ Received(lines) = H(n)
  BY <1>1, LineByLine DEF OneLine
<1>3. ASSUME NEW name
      PROVE  /\ Of(name, 0) = <<>>
             /\ \A k \in 1 .. n :
                  Of(name, k) = IF C(k) = name THEN Append(Of(name, k - 1), lines[k].line)
                                ELSE Of(name, k - 1)
             /\ LinesOf(lines, name) = Of(name, n)
  BY <1>1, LineByLine
<1> HIDE DEF H, Of
<1>4. 0 \in Q
  <2>1. \A name : Values(NoHeaders, name) = <<>> /\ DOMAIN NoHeaders = {}
    BY DEF Values, NoHeaders
  <2>2. <<>> \in Seq(Seq(U)) /\ Range(<<>>) = {} /\ Len(<<>>) = 0
    BY EmptySeq DEF Range
  <2>3. Seen(0) = {} /\ \A name : {lines[i].line : i \in {j \in 1 .. 0 : C(j) = name}} = {}
    OBVIOUS
  <2> HIDE DEF Seen
  <2>4. Law(0)
    BY <1>2, <1>3, <2>1, <2>2, <2>3
  <2> HIDE DEF Law
  <2> QED
    BY <2>4
<1>5. ASSUME NEW k \in Nat, k \in Q
      PROVE  k + 1 \in Q
  <2> SUFFICES ASSUME k + 1 <= n
               PROVE  Law(k + 1)
    <3> HIDE DEF Law
    <3> QED
      OBVIOUS
  <2> DEFINE c == C(k + 1)
             line == lines[k + 1].line
  <2>1. /\ k + 1 \in 1 .. n /\ (k + 1) - 1 = k /\ k <= n
        /\ \A i : i \in 1 .. k + 1 <=> i \in 1 .. k \/ i = k + 1
    BY <1>1
  <2>2. Law(k)
    <3> HIDE DEF Law
    <3> QED
      BY <1>5, <2>1
  <2>3. /\ H(k + 1) = Add(H(k), c, <<line>>) /\ line \in Seq(U)
        /\ \A name : Of(name, k + 1) = IF c = name THEN Append(Of(name, k), line) ELSE Of(name, k)
    BY <1>1, <1>2, <1>3, <2>1
  <2>4. Seen(k + 1) = Seen(k) \cup {c}
    BY <2>1
  <2>5. ASSUME NEW name
        PROVE  {lines[i].line : i \in {j \in 1 .. k + 1 : C(j) = name}}
                 = {lines[i].line : i \in {j \in 1 .. k : C(j) = name}}
                     \cup (IF c = name THEN {line} ELSE {})
    BY <2>1
  <2> HIDE DEF Seen, c, line
  <2>6. DOMAIN H(k + 1) = Seen(k + 1)
    BY <2>2, <2>3, <2>4 DEF Add
  <2>7. ASSUME NEW name
        PROVE  /\ Values(H(k + 1), name) = Of(name, k + 1)
               /\ Of(name, k + 1) \in Seq(Seq(U))
               /\ name \in Seen(k + 1) <=> Len(Of(name, k + 1)) # 0
               /\ Range(Of(name, k + 1)) = {lines[i].line : i \in {j \in 1 .. k + 1 : C(j) = name}}
    <3>1. /\ Values(H(k), name) = Of(name, k)
          /\ Of(name, k) \in Seq(Seq(U))
          /\ name \in Seen(k) <=> Len(Of(name, k)) # 0
          /\ Range(Of(name, k)) = {lines[i].line : i \in {j \in 1 .. k : C(j) = name}}
      BY <2>2
    <3>2. CASE name = c
      <4>1. Of(name, k + 1) = Append(Of(name, k), line)
        BY <2>3, <3>2
      <4>2. /\ Append(Of(name, k), line) \in Seq(Seq(U))
            /\ Len(Append(Of(name, k), line)) = Len(Of(name, k)) + 1
        BY <2>3, <3>1, AppendProperties
      <4>3. Append(Of(name, k), line) = Of(name, k) \o <<line>>
        BY <2>3, <3>1, AppendIsConcat
      <4>4. Len(Of(name, k)) \in Nat
        BY <3>1, LenProperties
      <4>5. Len(Of(name, k + 1)) # 0
        BY <4>1, <4>2, <4>4
      <4>6. Range(Of(name, k + 1)) = Range(Of(name, k)) \cup {line}
        <5> DEFINE s == Of(name, k)
                   L == Len(s)
        <5>1. /\ DOMAIN s = 1 .. L /\ L \in Nat
              /\ DOMAIN Append(s, line) = 1 .. L + 1
              /\ \A i \in 1 .. L : Append(s, line)[i] = s[i]
              /\ Append(s, line)[L + 1] = line
          BY <2>3, <3>1, AppendProperties, LenProperties
        <5>2. \A i : i \in 1 .. L + 1 <=> i \in 1 .. L \/ i = L + 1
          BY <5>1
        <5> HIDE DEF s, L
        <5> QED
          BY <4>1, <5>1, <5>2 DEF Range, s
      <4>7. Values(H(k + 1), name) = Of(name, k) \o <<line>>
        BY <2>3, <3>1, <3>2 DEF Add, Values
      <4>8. name \in Seen(k + 1)
        BY <2>4, <3>2
      <4>9. Range(Of(name, k + 1)) = {lines[i].line : i \in {j \in 1 .. k + 1 : C(j) = name}}
        <5> DEFINE new == {lines[i].line : i \in {j \in 1 .. k + 1 : C(j) = name}}
                   old == {lines[i].line : i \in {j \in 1 .. k : C(j) = name}}
        <5>1. new = old \cup {line} /\ Range(Of(name, k)) = old
          BY <2>5, <3>1, <3>2
        <5> HIDE DEF new, old
        <5>2. Range(Of(name, k + 1)) = new
          BY <4>6, <5>1
        <5> QED
          BY <5>2 DEF new
      <4>10. Of(name, k + 1) \in Seq(Seq(U))
        BY <4>1, <4>2
      <4>11. Values(H(k + 1), name) = Of(name, k + 1)
        BY <4>1, <4>7, <4>3
      <4> QED
        BY <4>5, <4>8, <4>9, <4>10, <4>11
    <3>3. CASE name # c
      <4>1. Of(name, k + 1) = Of(name, k)
        BY <2>3, <3>3
      <4>2. Values(H(k + 1), name) = Values(H(k), name)
        BY <2>3, <3>3 DEF Add, Values
      <4>3. name \in Seen(k + 1) <=> name \in Seen(k)
        BY <2>4, <3>3
      <4>4. Range(Of(name, k + 1)) = {lines[i].line : i \in {j \in 1 .. k + 1 : C(j) = name}}
        <5> DEFINE new == {lines[i].line : i \in {j \in 1 .. k + 1 : C(j) = name}}
                   old == {lines[i].line : i \in {j \in 1 .. k : C(j) = name}}
        <5>1. new = old /\ Range(Of(name, k)) = old
          BY <2>5, <3>1, <3>3
        <5> HIDE DEF new, old
        <5>2. Range(Of(name, k + 1)) = new
          BY <4>1, <5>1
        <5> QED
          BY <5>2 DEF new
      <4>5. Of(name, k + 1) \in Seq(Seq(U))
        BY <3>1, <4>1
      <4> QED
        BY <3>1, <4>1, <4>2, <4>3, <4>4, <4>5
    <3> QED
      BY <3>2, <3>3
  <2> QED
    BY <2>6, <2>7
<1>6. Law(n)
  <2> HIDE DEF Law
  <2>1. n \in Q
    <3> HIDE DEF Q
    <3> QED
      BY <1>1, <1>4, <1>5, Induction
  <2> QED
    BY <1>1, <2>1
<1>7. Sent(lines) = Seen(n)
  BY <1>1 DEF Sent, Range
<1>8. ASSUME NEW name
      PROVE  {l.line : l \in {m \in Range(lines) : Canonical(m.name) = name}}
               = {lines[i].line : i \in {j \in 1 .. n : C(j) = name}}
  BY <1>1 DEF Range
<1>9. \A s \in Seq(Seq(U)) : s # <<>> <=> Len(s) # 0
  BY EmptySeq
<1>10. ASSUME NEW name
       PROVE  /\ Values(Received(lines), name) = LinesOf(lines, name)
              /\ LinesOf(lines, name) \in Seq(Seq(U))
              /\ name \in Sent(lines) <=> LinesOf(lines, name) # <<>>
              /\ Range(LinesOf(lines, name))
                   = {l.line : l \in {m \in Range(lines) : Canonical(m.name) = name}}
  <2> DEFINE of == {lines[i].line : i \in {j \in 1 .. n : C(j) = name}}
             theirs == {l.line : l \in {m \in Range(lines) : Canonical(m.name) = name}}
  <2>1. theirs = of
    BY <1>8
  <2>2. /\ Values(H(n), name) = Of(name, n) /\ Of(name, n) \in Seq(Seq(U))
        /\ name \in Seen(n) <=> Len(Of(name, n)) # 0
        /\ Range(Of(name, n)) = of
    BY <1>6
  <2>3. H(n) = Received(lines) /\ Of(name, n) = LinesOf(lines, name)
    BY <1>2, <1>3
  <2> HIDE DEF of, theirs, Seen
  <2>4. LinesOf(lines, name) # <<>> <=> Len(LinesOf(lines, name)) # 0
    BY <1>9, <2>2, <2>3
  <2> QED
    BY <1>7, <2>1, <2>2, <2>3, <2>4 DEF theirs
<1>11. DOMAIN Received(lines) = Sent(lines)
  BY <1>2, <1>6, <1>7
<1> QED
  BY <1>10, <1>11

---------------------------------------------------------------------------
(* Hops of a request. *)

\* What the Connection lines nominate, with what never crosses a hop, is what
\* the peer sent for this hop.
LEMMA PeerNominates ==
  ASSUME NEW U, NEW lines, IsMessage(lines, U)
  PROVE  Nominated(Received(lines)) \cup hopByHop = ForThisHop(lines)
<1> DEFINE empty == ""
           here == {m \in Range(lines) : Canonical(m.name) = "Connection"}
           Of(line) == {Canonical(e) : e \in Range(line) \ {empty}}
           values == Range(Values(Received(lines), "Connection"))
           nominated == {Canonical(e) : e \in (UNION {Range(line) : line \in values}) \ {empty}}
           meant == UNION {{Canonical(e) : e \in Range(l.line) \ {empty}} : l \in here}
<1>1. Range(Values(Received(lines), "Connection")) = {l.line : l \in here}
  BY ReceivedKeeps
<1>2. Nominated(Received(lines)) = nominated /\ ForThisHop(lines) = hopByHop \cup meant
  BY DEF Nominated, ForThisHop
<1> HIDE DEF empty, here
<1>3. nominated = meant
  <2> DEFINE nominates(e) == \E line \in values : e \in Range(line) \ {empty}
             means(e) == \E l \in here : e \in Range(l.line) \ {empty}
  <2>1. values = {l.line : l \in here}
    BY <1>1
  <2> HIDE DEF values
  <2>2. \A e : e \in (UNION {Range(line) : line \in values}) \ {empty} <=> nominates(e)
    OBVIOUS
  <2> DEFINE all == (UNION {Range(line) : line \in values}) \ {empty}
  <2>3. nominated = {Canonical(e) : e \in all}
    OBVIOUS
  <2> HIDE DEF all, nominates
  <2>4. \A x : x \in nominated <=> \E e : nominates(e) /\ x = Canonical(e)
    BY <2>2, <2>3 DEF all
  <2>5. \A x : x \in meant <=> \E e : means(e) /\ x = Canonical(e)
    OBVIOUS
  <2> HIDE DEF nominated, meant
  <2>6. \A e : nominates(e) <=> means(e)
    BY <2>1 DEF nominates
  <2> HIDE DEF nominates, means
  <2> QED
    BY <2>4, <2>5, <2>6
<1> HIDE DEF nominated, meant
<1> QED
  BY <1>2, <1>3

\* Without a Connection header nothing is nominated.
LEMMA NominatesNothing ==
  ASSUME NEW h, "Connection" \notin DOMAIN h
  PROVE  Nominated(h) = {}
<1>1. Values(h, "Connection") = <<>>
  BY DEF Values
<1>2. Range(<<>>) = {}
  <2> DEFINE none == <<>>
  <2>1. none \in Seq({}) /\ Len(none) = 0
    BY EmptySeq
  <2> HIDE DEF none
  <2>2. DOMAIN none = 1 .. 0
    BY <2>1, LenProperties
  <2>3. DOMAIN none = {}
    BY <2>2
  <2> QED
    BY <2>3 DEF none, Range
<1>3. Range(Values(h, "Connection")) = {}
  BY <1>1, <1>2
<1> QED
  BY <1>3 DEF Nominated

\* The remote address of a connection names a host.
HasHost(remote) == Host(remote) # <<"">>

\* A hop takes away what is nominated and what never crosses a hop, and
\* appends its peer to the path so far.
LEMMA OneHop ==
  ASSUME NEW h, NEW remote, HasHost(remote)
  PROVE  LET g == RelayedRequest(h, remote)
         IN  /\ DOMAIN g = (DOMAIN h \ (Nominated(h) \cup hopByHop)) \cup {"X-Forwarded-For"}
             /\ \A name \in DOMAIN g \ {"X-Forwarded-For"} : g[name] = h[name]
             /\ g["X-Forwarded-For"] = <<Append(FirstLine(h, "X-Forwarded-For"), Host(remote))>>
<1> DEFINE line == Append(FirstLine(h, "X-Forwarded-For"), Host(remote))
           kept == stripHopByHop(h)
<1>1. RelayedRequest(h, remote) = Set(kept, "X-Forwarded-For", line)
  BY DEF RelayedRequest, appendForwardedFor, HasHost
<1>2. /\ DOMAIN kept = DOMAIN h \ (Nominated(h) \cup hopByHop)
      /\ \A name \in DOMAIN kept : kept[name] = h[name]
  BY DEF stripHopByHop, Del
<1> HIDE DEF line, kept
<1>3. /\ DOMAIN Set(kept, "X-Forwarded-For", line) = DOMAIN kept \cup {"X-Forwarded-For"}
      /\ \A name \in DOMAIN kept \ {"X-Forwarded-For"} : Set(kept, "X-Forwarded-For", line)[name] = kept[name]
      /\ Set(kept, "X-Forwarded-For", line)["X-Forwarded-For"] = <<line>>
  BY DEF Set
<1> QED
  BY <1>1, <1>2, <1>3 DEF line

\* What the upstream gets behind two proxies in a row, of the lines a client
\* sent: the end-to-end headers line by line, nothing that was meant for the
\* first connection, and the path of the request, whom it came from as far as
\* the first line told, and the two hosts; and so does an echo tell.
BehindTwo(lines, client, proxy, hosts) ==
  LET h == RelayedRequest(RelayedRequest(Received(lines), client), proxy)
      forwarded == LinesOf(lines, "X-Forwarded-For")
      path == (IF forwarded = <<>> THEN <<>> ELSE forwarded[1]) \o hosts
      endToEnd == Sent(lines) \ (ForThisHop(lines) \cup {"X-Forwarded-For"})
  IN  /\ DOMAIN h = endToEnd \cup {"X-Forwarded-For"}
      /\ \A name \in endToEnd : h[name] = LinesOf(lines, name)
      /\ h["X-Forwarded-For"] = <<path>>
      /\ EchoHandler(h).body = [name \in DOMAIN h |-> h[name][1]]

\* Whatever a client sends, and from wherever, it crosses two proxies in a row
\* (proxy.go:168-175, 215-258).
THEOREM TwoHops ==
  ASSUME NEW U, NEW lines, IsMessage(lines, U),
         NEW client, NEW proxy, HasHost(client), HasHost(proxy)
  PROVE  BehindTwo(lines, client, proxy, <<Host(client), Host(proxy)>>)
<1> DEFINE h0 == Received(lines)
           h1 == RelayedRequest(h0, client)
           h2 == RelayedRequest(h1, proxy)
           forwarded == LinesOf(lines, "X-Forwarded-For")
           first == IF forwarded = <<>> THEN <<>> ELSE forwarded[1]
           endToEnd == Sent(lines) \ (ForThisHop(lines) \cup {"X-Forwarded-For"})
<1>1. /\ DOMAIN h0 = Sent(lines)
      /\ \A name : Values(h0, name) = LinesOf(lines, name)
      /\ forwarded \in Seq(Seq(U))
  BY ReceivedKeeps
<1>2. Nominated(h0) \cup hopByHop = ForThisHop(lines)
  BY PeerNominates
<1>3. /\ DOMAIN h1 = (DOMAIN h0 \ (Nominated(h0) \cup hopByHop)) \cup {"X-Forwarded-For"}
      /\ \A name \in DOMAIN h1 \ {"X-Forwarded-For"} : h1[name] = h0[name]
      /\ h1["X-Forwarded-For"] = <<Append(FirstLine(h0, "X-Forwarded-For"), Host(client))>>
  BY OneHop
<1>4. /\ DOMAIN h2 = (DOMAIN h1 \ (Nominated(h1) \cup hopByHop)) \cup {"X-Forwarded-For"}
      /\ \A name \in DOMAIN h2 \ {"X-Forwarded-For"} : h2[name] = h1[name]
      /\ h2["X-Forwarded-For"] = <<Append(FirstLine(h1, "X-Forwarded-For"), Host(proxy))>>
  BY OneHop
<1>5. "Connection" \in hopByHop /\ "X-Forwarded-For" \notin hopByHop
  BY DEF hopByHop
<1> HIDE DEF h0, h1, h2, forwarded
<1>6. Nominated(h1) = {}
  <2>1. "Connection" \notin DOMAIN h1
    BY <1>3, <1>5
  <2> QED
    BY <2>1, NominatesNothing
<1>7. DOMAIN h2 = endToEnd \cup {"X-Forwarded-For"}
  BY <1>1, <1>2, <1>3, <1>4, <1>5, <1>6
<1>8. ASSUME NEW name \in endToEnd
      PROVE  h2[name] = LinesOf(lines, name)
  <2>1. h2[name] = h0[name]
    BY <1>1, <1>2, <1>3, <1>4, <1>7
  <2>2. name \in DOMAIN h0
    BY <1>1
  <2> QED
    BY <1>1, <2>1, <2>2 DEF Values
<1>9. FirstLine(h0, "X-Forwarded-For") = first /\ first \in Seq(U)
  <2>1. Values(h0, "X-Forwarded-For") = forwarded
    BY <1>1 DEF forwarded
  <2>2. FirstLine(h0, "X-Forwarded-For") = first
    BY <2>1 DEF FirstLine
  <2>3. CASE forwarded = <<>>
    <3>1. first = <<>> /\ <<>> \in Seq(U)
      BY <2>3, EmptySeq
    <3> QED
      BY <2>2, <3>1
  <2>4. CASE forwarded # <<>>
    <3>1. Len(forwarded) \in Nat /\ Len(forwarded) # 0
      BY <1>1, <2>4, EmptySeq, LenProperties
    <3> DEFINE S == Seq(U)
    <3> HIDE DEF S
    <3>2. forwarded \in Seq(S)
      BY <1>1 DEF S
    <3>3. 1 \in 1 .. Len(forwarded)
      <4> DEFINE l == Len(forwarded)
      <4>1. l \in Nat /\ l # 0
        BY <3>1
      <4> HIDE DEF l
      <4>2. 1 \in 1 .. l
        BY <4>1
      <4> QED
        BY <4>2 DEF l
    <3>4. forwarded[1] \in S
      BY <3>2, <3>3, ElementOfSeq
    <3>5. first = forwarded[1]
      BY <2>4
    <3> QED
      BY <2>2, <3>5, <3>4 DEF S
  <2> QED
    BY <2>3, <2>4
<1>10. FirstLine(h1, "X-Forwarded-For") = Append(first, Host(client))
  <2> DEFINE line == Append(first, Host(client))
  <2>1. Values(h1, "X-Forwarded-For") = <<line>>
    BY <1>3, <1>9 DEF Values
  <2> HIDE DEF line
  <2>2. Len(<<line>>) = 1 /\ Len(<<>>) = 0 /\ <<line>>[1] = line
    OBVIOUS
  <2>3. FirstLine(h1, "X-Forwarded-For") = line
    <3>1. <<line>> # <<>>
      BY <2>2
    <3> QED
      BY <2>1, <2>2, <3>1 DEF FirstLine
  <2> QED
    BY <2>3 DEF line
<1>11. h2["X-Forwarded-For"] = <<first \o <<Host(client), Host(proxy)>> >>
  <2> HIDE DEF first
  <2>1. Append(Append(first, Host(client)), Host(proxy)) = first \o <<Host(client), Host(proxy)>>
    BY <1>9, TwoMore
  <2> QED
    BY <1>4, <1>10, <2>1
<1>12. EchoHandler(h2).body = [name \in DOMAIN h2 |-> h2[name][1]]
  <2> DEFINE path == first \o <<Host(client), Host(proxy)>>
  <2>1. h2["X-Forwarded-For"] = <<path>>
    BY <1>11
  <2> HIDE DEF path
  <2>2. <<path>> # <<>>
    <3>1. Len(<<path>>) = 1 /\ Len(<<>>) = 0
      OBVIOUS
    <3> QED
      BY <3>1
  <2>3. \A name \in endToEnd : LinesOf(lines, name) # <<>>
    BY ReceivedKeeps
  <2>4. \A name \in DOMAIN h2 : h2[name] # <<>>
    BY <1>7, <1>8, <2>1, <2>2, <2>3
  <2>5. \A name \in DOMAIN h2 : FirstLine(h2, name) = h2[name][1]
    BY <2>4, Zenon DEF FirstLine, Values
  <2>6. EchoHandler(h2).body = [name \in DOMAIN h2 |-> FirstLine(h2, name)]
    BY DEF EchoHandler
  <2> QED
    BY <2>5, <2>6
<1> QED
  BY <1>7, <1>8, <1>11, <1>12 DEF BehindTwo, h0, h1, h2, forwarded

---------------------------------------------------------------------------
(* The path that is asked for. *)

\* The path that is asked for is the base and the request's path with one
\* slash between them; a base that is only a slash is left out
\* (proxy.go:260-273).
THEOREM OneSlash ==
  ASSUME NEW S, NEW base \in Seq(Seq(S)), NEW path \in Seq(Seq(S)),
         Len(base) # 0, Len(path) # 0
  PROVE  LET b == IF EndsInSlash(base) THEN Front(base) ELSE base
             p == IF StartsWithSlash(path) THEN Tail(path) ELSE path
         IN  singleJoin(base, path) = IF b = << <<>> >> THEN path ELSE b \o p
<1> DEFINE V == Seq(S)
           b == IF EndsInSlash(base) THEN Front(base) ELSE base
           p == IF StartsWithSlash(path) THEN Tail(path) ELSE path
           none == <<>>
           ends == EndsInSlash(base)
           starts == StartsWithSlash(path)
<1>1. none \in V /\ Len(none) = 0 /\ base \in Seq(V) /\ path \in Seq(V)
  BY EmptySeq
<1>2. /\ ends <=> Len(base) > 1 /\ Last(base) = none
      /\ starts <=> Len(path) > 1 /\ path[1] = none
  BY DEF EndsInSlash, StartsWithSlash
<1>3. singleJoin(base, path) =
        IF base = <<none>> \/ base = <<none, none>> THEN path
        ELSE CASE ends /\ starts   -> Concat(base, Tail(path))
               [] ~ends /\ ~starts -> base \o path
               [] OTHER            -> Concat(base, path)
  BY DEF singleJoin
<1>4. \A v \in V : none \o v = v /\ v \o none = v
  BY ConcatEmptySeq
<1>5. b = (IF ends THEN Front(base) ELSE base) /\ p = (IF starts THEN Tail(path) ELSE path)
  OBVIOUS
<1> HIDE DEF none, V, ends, starts, b, p
<1>6. /\ Len(base) \in Nat /\ Len(path) \in Nat
      /\ Len(<<none>>) = 1 /\ Len(<<none, none>>) = 2
      /\ <<none>>[1] = none /\ <<none, none>>[1] = none /\ <<none, none>>[2] = none
      /\ <<none>> \in Seq(V) /\ <<none, none>> \in Seq(V)
  BY <1>1, LenProperties
<1>7. b = <<none>> <=> base = <<none>> \/ base = <<none, none>>
  <2>1. ASSUME ends, b = <<none>>
        PROVE  base = <<none, none>>
    <3>1. Front(base) = <<none>> /\ Last(base) = none
      BY <1>2, <1>5, <2>1
    <3>2. Front(base) \o <<Last(base)>> = base
      BY <1>1, FirstAndLast
    <3> QED
      BY <3>1, <3>2
  <2>2. ASSUME base = <<none, none>>
        PROVE  b = <<none>>
    <3>1. Len(base) = 2 /\ base[1] = none /\ base[2] = none
      BY <1>6, <2>2
    <3>2. ends
      BY <1>1, <1>2, <3>1 DEF Last
    <3>3. b = Front(base)
      BY <1>5, <3>2
    <3>4. /\ Front(base) \in Seq(V) /\ Len(Front(base)) = 1
          /\ Front(base)[1] = none
      <4>1. /\ Front(base) \in Seq(V) /\ Len(Front(base)) = Len(base) - 1
            /\ \A i \in 1 .. Len(base) - 1 : Front(base)[i] = base[i]
        BY <1>1, FirstAndLast
      <4>2. Len(base) - 1 = 1 /\ 1 \in 1 .. Len(base) - 1
        BY <3>1

      <4> QED
        BY <3>1, <4>1, <4>2, Zenon
    <3> QED
      BY <1>6, <3>3, <3>4, SameSequence
  <2>3. base = <<none>> => ~ends
    BY <1>2, <1>6
  <2>4. ~ends => b = base
    BY <1>5
  <2> QED
    BY <2>1, <2>2, <2>3, <2>4
<1>8. CASE b = <<none>>
  BY <1>3, <1>7, <1>8 DEF b, p, ends, starts, none
<1>9. CASE b # <<none>>
  <2>1. singleJoin(base, path) =
          CASE ends /\ starts   -> Concat(base, Tail(path))
            [] ~ends /\ ~starts -> base \o path
            [] OTHER            -> Concat(base, path)
    BY <1>3, <1>7, <1>9
  <2>2. /\ Front(base) \in Seq(V) /\ Last(base) \in V
        /\ Front(base) \o <<Last(base)>> = base
    BY <1>1, FirstAndLast
  <2>3. /\ Tail(path) \in Seq(V) /\ Len(Tail(path)) = Len(path) - 1 /\ path[1] \in V
        /\ <<path[1]>> \o Tail(path) = path
    BY <1>1, FirstAndLast
  <2>4. CASE ends /\ starts
    <3>1. Len(Tail(path)) # 0 /\ Last(base) = none
      <4> DEFINE l == Len(path)
                 m == Len(Tail(path))
      <4>1. l \in Nat /\ l > 1 /\ m = l - 1 /\ Last(base) = none
        BY <1>2, <1>6, <2>3, <2>4
      <4> HIDE DEF l, m
      <4>2. m # 0
        BY <4>1
      <4>3. Len(Tail(path)) # 0
        BY <4>2 DEF m
      <4> QED
        BY <4>1, <4>3
    <3>2. /\ Tail(Tail(path)) \in Seq(V) /\ Tail(path)[1] \in V
          /\ <<Tail(path)[1]>> \o Tail(Tail(path)) = Tail(path)
      BY <2>3, <3>1, FirstAndLast
    <3>3. Concat(base, Tail(path)) = Front(base) \o <<Tail(path)[1]>> \o Tail(Tail(path))
      BY <1>4, <3>1, <3>2 DEF Concat
    <3>4. <<Tail(path)[1]>> \in Seq(V)
      BY <3>2
    <3>5. Concat(base, Tail(path)) = Front(base) \o Tail(path)
      <4> DEFINE front == Front(base)
                 own == <<Tail(path)[1]>>
                 rest == Tail(Tail(path))
      <4>1. front \in Seq(V) /\ own \in Seq(V) /\ rest \in Seq(V)
        BY <2>2, <3>2, <3>4
      <4> HIDE DEF front, own, rest
      <4>2. (front \o own) \o rest = front \o (own \o rest)
        BY <4>1, ConcatAssociative
      <4> QED
        BY <3>2, <3>3, <4>2 DEF front, own, rest
    <3> QED
      BY <1>5, <1>9, <2>1, <2>4, <3>5 DEF b, p, ends, starts, none
  <2>5. CASE ends /\ ~starts
    <3>1. Last(base) = none
      BY <1>2, <2>5
    <3>2. Concat(base, path) = Front(base) \o <<path[1]>> \o Tail(path)
      BY <1>4, <2>3, <3>1 DEF Concat
    <3>3. <<path[1]>> \in Seq(V)
      BY <2>3
    <3>4. Concat(base, path) = Front(base) \o path
      <4> DEFINE front == Front(base)
                 own == <<path[1]>>
                 rest == Tail(path)
      <4>1. front \in Seq(V) /\ own \in Seq(V) /\ rest \in Seq(V)
        BY <2>2, <2>3, <3>3
      <4> HIDE DEF front, own, rest
      <4>2. (front \o own) \o rest = front \o (own \o rest)
        BY <4>1, ConcatAssociative
      <4> QED
        BY <2>3, <3>2, <4>2 DEF front, own, rest
    <3> QED
      BY <1>5, <1>9, <2>1, <2>5, <3>4 DEF b, p, ends, starts, none
  <2>6. CASE ~ends /\ starts
    <3>1. path[1] = none
      BY <1>2, <2>6
    <3>2. Concat(base, path) = base \o Tail(path)
      BY <1>4, <2>2, <3>1 DEF Concat
    <3> QED
      BY <1>5, <1>9, <2>1, <2>6, <3>2 DEF b, p, ends, starts, none
  <2>7. CASE ~ends /\ ~starts
    BY <1>5, <1>9, <2>1, <2>7 DEF b, p, ends, starts, none
  <2> QED
    BY <2>4, <2>5, <2>6, <2>7
<1> QED
  BY <1>8, <1>9

---------------------------------------------------------------------------
(* The requests of the run. *)

\* Addresses, split at the colons, without the port.
LEMMA WithoutPort ==
  ASSUME NEW a, NEW b
  PROVE  Len(<<a, b>>) > 1 /\ Front(<<a, b>>) = <<a>>
<1> DEFINE V == {a, b}
           two == <<a, b>>
           one == <<a>>
<1>1. /\ two \in Seq(V) /\ one \in Seq(V)
      /\ Len(two) = 2 /\ Len(one) = 1 /\ one[1] = two[1]
  OBVIOUS
<1> HIDE DEF V, two, one
<1>2. two \in Seq(V) /\ Len(two) # 0
  BY <1>1
<1>3. /\ Front(two) \in Seq(V) /\ Len(Front(two)) = Len(two) - 1
      /\ \A i \in 1 .. Len(two) - 1 : Front(two)[i] = two[i]
  BY <1>2, FirstAndLast
<1>4. Len(Front(two)) = 1 /\ Front(two)[1] = one[1]
  BY <1>1, <1>3
<1>5. \A i \in 1 .. Len(one) : i = 1
  BY <1>1
<1>6. Front(two) = one
  BY <1>1, <1>3, <1>4, <1>5, SameSequence
<1>7. Len(two) > 1
  BY <1>1
<1> QED
  BY <1>6, <1>7 DEF two, one

\* Longer addresses.
LEMMA LongWithoutPort ==
  ASSUME NEW a, NEW b, NEW c, NEW d
  PROVE  Len(<<a, b, c, d>>) > 1 /\ Front(<<a, b, c, d>>) = <<a, b, c>>
<1> DEFINE V == {a, b, c, d}
           four == <<a, b, c, d>>
           three == <<a, b, c>>
<1>1. /\ four \in Seq(V) /\ three \in Seq(V) /\ Len(four) = 4 /\ Len(three) = 3
      /\ three[1] = four[1] /\ three[2] = four[2] /\ three[3] = four[3]
  OBVIOUS
<1> HIDE DEF V, four, three
<1>2. four \in Seq(V) /\ Len(four) # 0
  BY <1>1
<1>3. /\ Front(four) \in Seq(V) /\ Len(Front(four)) = Len(four) - 1
      /\ \A i \in 1 .. Len(four) - 1 : Front(four)[i] = four[i]
  BY <1>2, FirstAndLast
<1>4. /\ Len(Front(four)) = 3
      /\ \A i \in 1 .. 3 : Front(four)[i] = three[i]
  BY <1>1, <1>3
<1>5. Front(four) = three
  BY <1>1, <1>3, <1>4, SameSequence
<1>6. Len(four) > 1
  BY <1>1
<1> QED
  BY <1>5, <1>6 DEF four, three

\* Texts of one part are the same only if the part is; one of three parts is
\* another.
LEMMA DifferentTexts ==
  ASSUME NEW a, NEW b, NEW c, NEW d
  PROVE  (<<a>> = <<d>> => a = d) /\ <<a, b, c>> # <<d>>
<1>1. <<a, b, c>> # <<d>>
  <2>1. Len(<<a, b, c>>) = 3 /\ Len(<<d>>) = 1
    OBVIOUS
  <2> QED
    BY <2>1
<1> QED
  BY <1>1

\* The client and the first proxy of the run.
LEMMA Hosts ==
  /\ Host(<<"10.0.0.9", "4711">>) = <<"10.0.0.9">>
  /\ Host(<<"", "", "1", "8080">>) = <<"", "", "1">>
  /\ HasHost(<<"10.0.0.9", "4711">>)
  /\ HasHost(<<"", "", "1", "8080">>)
<1> DEFINE none == ""
           host == "10.0.0.9"
           one == "1"
           port == "4711"
           other == "8080"
<1>1. host # none
  OBVIOUS
<1> HIDE DEF none, host, one, port, other
<1>2. <<host>> # <<none>> /\ <<none, none, one>> # <<none>>
  BY <1>1, DifferentTexts
<1>3. Host(<<host, port>>) = <<host>>
  <2>1. Len(<<host, port>>) > 1 /\ Front(<<host, port>>) = <<host>>
    BY WithoutPort, Zenon
  <2> QED
    BY <1>2, <2>1 DEF Host, none
<1>4. Host(<<none, none, one, other>>) = <<none, none, one>>
  <2>1. /\ Len(<<none, none, one, other>>) > 1
        /\ Front(<<none, none, one, other>>) = <<none, none, one>>
    BY LongWithoutPort, Zenon
  <2> QED
    BY <1>2, <2>1 DEF Host, none
<1> QED
  BY <1>2, <1>3, <1>4 DEF HasHost, none, host, one, port, other

\* The header lines of the requests that are typed.
LEMMA RequestLinesTyped ==
  ASSUME NEW lines \in Seq(RequestLines)
  PROVE  \E U : IsMessage(lines, U)
<1> DEFINE U == {"x-user", "", "Connection", "X-Forwarded-For", "trailers", "amy", "bob",
                 "text", "json", <<"c0">>, <<"c1">>}
<1>1. /\ <<"x-user", "">> \in Seq(U) /\ <<"Connection", "X-Forwarded-For">> \in Seq(U)
      /\ <<"trailers">> \in Seq(U) /\ <<"amy">> \in Seq(U) /\ <<"bob">> \in Seq(U)
      /\ <<"text", "json">> \in Seq(U) /\ <<>> \in Seq(U)
      /\ << <<"c0">>, <<"c1">> >> \in Seq(U)
  <2>1. /\ "x-user" \in U /\ "" \in U /\ "Connection" \in U /\ "X-Forwarded-For" \in U
        /\ "trailers" \in U /\ "amy" \in U /\ "bob" \in U /\ "text" \in U /\ "json" \in U
        /\ <<"c0">> \in U /\ <<"c1">> \in U
    BY Zenon
  <2> HIDE DEF U
  <2> QED
    BY <2>1, ShortSequences, Zenon
<1> DEFINE none == ""
<1>2. \A l \in RequestLines :
         l.line \in {<<"x-user", none>>, <<"Connection", "X-Forwarded-For">>, <<"trailers">>,
                     <<"amy">>, <<"bob">>, <<"text", "json">>, <<>>, << <<"c0">>, <<"c1">> >>}
  <2>1. RequestLines =
          {[name |-> "Connection", line |-> <<"x-user", none>>],
           [name |-> "Connection", line |-> <<"Connection", "X-Forwarded-For">>],
           [name |-> "Te", line |-> <<"trailers">>],
           [name |-> "x-user", line |-> <<"amy">>],
           [name |-> "X-User", line |-> <<"bob">>],
           [name |-> "Accept", line |-> <<"text", "json">>],
           [name |-> "X-Forwarded-For", line |-> <<>>],
           [name |-> "X-Forwarded-For", line |-> << <<"c0">>, <<"c1">> >>]}
    BY DEF RequestLines
  <2> HIDE DEF none
  <2> QED
    BY <2>1
<1>3. <<"x-user", none>> \in Seq(U)
  BY <1>1
<1> HIDE DEF U, none
<1>4. \A l \in RequestLines : l.line \in Seq(U)
  BY <1>1, <1>2, <1>3, Zenon
<1> QED
  BY <1>4 DEF IsMessage

\* Behind two proxies in a row the upstream gets every end-to-end header as
\* the client sent it and the whole path of the request, and what is asked for
\* has one slash where the base ends, in every state of the run
\* (proxy.go:168-175, 215-271).
THEOREM RequestCrossesHopsTheorem == Spec => []RequestCrossesHops
<1>1. ASSUME InputsTyped, kind = "request"
      PROVE  BehindTwo(pat, <<"10.0.0.9", "4711">>, <<"", "", "1", "8080">>,
                       << <<"10.0.0.9">>, <<"", "", "1">> >>)
  <2>1. Input["request"].of = RequestLines
    BY DEF Input
  <2>2. pat \in Seq(RequestLines)
    BY <1>1, <2>1 DEF InputsTyped
  <2>3. PICK U : IsMessage(pat, U)
    BY <2>2, RequestLinesTyped
  <2> DEFINE first == <<"10.0.0.9", "4711">>
             second == <<"", "", "1", "8080">>
             firstHost == <<"10.0.0.9">>
             secondHost == <<"", "", "1">>
  <2>4. /\ Host(first) = firstHost /\ HasHost(first)
        /\ Host(second) = secondHost /\ HasHost(second)
    BY Hosts
  <2> HIDE DEF first, second, firstHost, secondHost
  <2>5. BehindTwo(pat, first, second, <<Host(first), Host(second)>>)
    BY <2>3, <2>4, TwoHops
  <2>6. BehindTwo(pat, first, second, <<firstHost, secondHost>>)
    BY <2>4, <2>5
  <2> QED
    BY <2>6, Zenon DEF first, second, firstHost, secondHost
<1> DEFINE S == {Wild, "a", "b"}
<1>2. ASSUME InputsTyped, kind = "path", pat # <<>>, seg # <<>>
      PROVE  LET base == IF EndsInSlash(pat) THEN Front(pat) ELSE pat
                 path == IF StartsWithSlash(seg) THEN Tail(seg) ELSE seg
             IN  singleJoin(pat, seg) = IF base = << <<>> >> THEN seg ELSE base \o path
  <2>1. pat \in Seq(Seq(S)) /\ seg \in Seq(Seq(S))
    BY <1>2, PathsTyped
  <2> HIDE DEF S
  <2>2. Len(pat) # 0 /\ Len(seg) # 0
    BY <1>2, <2>1, EmptySeq
  <2> QED
    BY <2>1, <2>2, OneSlash
<1>3. InputsTyped => RequestCrossesHops
  BY <1>1, <1>2, Zenon DEF RequestCrossesHops, BehindTwo
<1> QED
  BY <1>3, InputsTypedAlways, PTL

---------------------------------------------------------------------------
(* What a hop does to a response. *)

\* A header map takes names to sequences of lines.
IsHeader(h) == \E X : \A name \in DOMAIN h : h[name] \in Seq(X)

\* The names a relay does not pass on, those it annotates, and those slowlane
\* or an upstream of its own may use.
Gone(h) == Nominated(h) \cup hopByHop
Marks == {"X-Slowlane-Request", "X-Slowlane-Delay", "X-Slowlane-Throttled"}
Own == {"X-Slowlane-Request", "X-Slowlane-Delay", "X-Slowlane-Throttled",
        "X-Slowlane-Injected", "X-Slowlane-Upstream-Error", "Content-Type"}

\* Setting a header leaves the others.
LEMMA SetKeeps ==
  ASSUME NEW h, NEW name, NEW line
  PROVE  /\ DOMAIN Set(h, name, line) = DOMAIN h \cup {name}
         /\ Values(Set(h, name, line), name) = <<line>>
         /\ \A other : other # name => Values(Set(h, name, line), other) = Values(h, other)
         /\ IsHeader(h) => IsHeader(Set(h, name, line))
<1> DEFINE g == Set(h, name, line)
           own == <<line>>
<1>1. /\ DOMAIN g = DOMAIN h \cup {name} /\ g[name] = own
      /\ \A other \in DOMAIN h : other # name => g[other] = h[other]
  BY DEF Set
<1>2. \A X : X \subseteq X \cup {line} /\ line \in X \cup {line}
  OBVIOUS
<1>3. \A W : line \in W => own \in Seq(W)
  OBVIOUS
<1> HIDE DEF g, own
<1>4. ASSUME IsHeader(h)
      PROVE  IsHeader(g)
  <2>1. PICK X : \A other \in DOMAIN h : h[other] \in Seq(X)
    BY <1>4 DEF IsHeader
  <2> DEFINE W == X \cup {line}
  <2>2. X \subseteq W /\ line \in W
    OBVIOUS
  <2> HIDE DEF W
  <2>3. \A other \in DOMAIN h : h[other] \in Seq(W)
    BY <2>1, <2>2, SeqMonotonic
  <2>4. \A other \in DOMAIN g : g[other] \in Seq(W)
    BY <1>1, <1>3, <2>2, <2>3
  <2> QED
    BY <2>4 DEF IsHeader
<1> QED
  BY <1>1, <1>4 DEF Values, g, own

\* Annotations leave the headers that are none.
LEMMA AnnotatedKeeps ==
  ASSUME NEW h, NEW n, NEW dec
  PROVE  LET g == Annotated(h, n, dec)
         IN  /\ DOMAIN g \ Marks = DOMAIN h \ Marks
             /\ DOMAIN g \subseteq DOMAIN h \cup Marks
             /\ \A name : name \notin Marks => Values(g, name) = Values(h, name)
             /\ Values(g, "X-Slowlane-Request") = << <<n>> >>
             /\ Values(g, "X-Slowlane-Delay")
                  = IF dec.delay > 0 THEN << <<dec.delay>> >> ELSE Values(h, "X-Slowlane-Delay")
             /\ IsHeader(h) => IsHeader(g)
<1> DEFINE h1 == Set(h, "X-Slowlane-Request", <<n>>)
           h2 == setDelayHeader(h1, dec)
           g == setThrottleHeader(h2, dec)
<1>1. /\ DOMAIN h1 = DOMAIN h \cup {"X-Slowlane-Request"}
      /\ Values(h1, "X-Slowlane-Request") = << <<n>> >>
      /\ \A other : other # "X-Slowlane-Request" => Values(h1, other) = Values(h, other)
      /\ IsHeader(h) => IsHeader(h1)
  BY SetKeeps
<1> HIDE DEF h1
<1>2. /\ DOMAIN h2 \subseteq DOMAIN h1 \cup {"X-Slowlane-Delay"}
      /\ DOMAIN h1 \subseteq DOMAIN h2
      /\ Values(h2, "X-Slowlane-Delay")
           = IF dec.delay > 0 THEN << <<dec.delay>> >> ELSE Values(h1, "X-Slowlane-Delay")
      /\ \A other : other # "X-Slowlane-Delay" => Values(h2, other) = Values(h1, other)
      /\ IsHeader(h1) => IsHeader(h2)
  <2>1. CASE dec.delay > 0
    <3>1. h2 = Set(h1, "X-Slowlane-Delay", <<dec.delay>>)
      BY <2>1 DEF setDelayHeader
    <3> DEFINE line == <<dec.delay>>
    <3> HIDE DEF line
    <3>2. /\ DOMAIN Set(h1, "X-Slowlane-Delay", line) = DOMAIN h1 \cup {"X-Slowlane-Delay"}
          /\ Values(Set(h1, "X-Slowlane-Delay", line), "X-Slowlane-Delay") = <<line>>
          /\ \A other : other # "X-Slowlane-Delay" =>
               Values(Set(h1, "X-Slowlane-Delay", line), other) = Values(h1, other)
          /\ IsHeader(h1) => IsHeader(Set(h1, "X-Slowlane-Delay", line))
      BY SetKeeps
    <3>3. h2 = Set(h1, "X-Slowlane-Delay", line)
      BY <3>1 DEF line
    <3> HIDE DEF h2
    <3>4. Values(h2, "X-Slowlane-Delay") = << <<dec.delay>> >>
      BY <3>2, <3>3 DEF line
    <3> QED
      BY <2>1, <3>2, <3>3, <3>4
  <2>2. CASE ~(dec.delay > 0)
    <3>1. h2 = h1
      BY <2>2 DEF setDelayHeader
    <3> QED
      BY <2>2, <3>1
  <2> QED
    BY <2>1, <2>2
<1> HIDE DEF h2
<1>3. /\ DOMAIN g \subseteq DOMAIN h2 \cup {"X-Slowlane-Throttled"}
      /\ DOMAIN h2 \subseteq DOMAIN g
      /\ \A other : other # "X-Slowlane-Throttled" => Values(g, other) = Values(h2, other)
      /\ IsHeader(h2) => IsHeader(g)
  <2>1. CASE dec.throttle_bps > 0
    <3>1. g = Set(h2, "X-Slowlane-Throttled", <<dec.throttleRule>>)
      BY <2>1 DEF setThrottleHeader
    <3> DEFINE line == <<dec.throttleRule>>
    <3> HIDE DEF line
    <3>2. g = Set(h2, "X-Slowlane-Throttled", line)
      BY <3>1 DEF line
    <3> HIDE DEF g
    <3>3. /\ DOMAIN Set(h2, "X-Slowlane-Throttled", line) = DOMAIN h2 \cup {"X-Slowlane-Throttled"}
          /\ Values(Set(h2, "X-Slowlane-Throttled", line), "X-Slowlane-Throttled") = <<line>>
          /\ \A other : other # "X-Slowlane-Throttled" =>
               Values(Set(h2, "X-Slowlane-Throttled", line), other) = Values(h2, other)
          /\ IsHeader(h2) => IsHeader(Set(h2, "X-Slowlane-Throttled", line))
      BY SetKeeps
    <3> QED
      BY <3>2, <3>3
  <2>2. CASE ~(dec.throttle_bps > 0)
    BY <2>2 DEF setThrottleHeader
  <2> QED
    BY <2>1, <2>2
<1>4. Annotated(h, n, dec) = g
  BY DEF Annotated, h1, h2
<1> HIDE DEF g
<1>5. /\ DOMAIN g \ Marks = DOMAIN h \ Marks
      /\ DOMAIN g \subseteq DOMAIN h \cup Marks
  BY <1>1, <1>2, <1>3 DEF Marks
<1>6. \A name : name \notin Marks => Values(g, name) = Values(h, name)
  BY <1>1, <1>2, <1>3 DEF Marks
<1>7. Values(g, "X-Slowlane-Request") = << <<n>> >>
  BY <1>1, <1>2, <1>3
<1>8. Values(g, "X-Slowlane-Delay")
        = IF dec.delay > 0 THEN << <<dec.delay>> >> ELSE Values(h, "X-Slowlane-Delay")
  BY <1>1, <1>2, <1>3
<1> QED
  BY <1>1, <1>2, <1>3, <1>4, <1>5, <1>6, <1>7, <1>8

\* A relay passes on what is not gone, annotated, and nominates nothing.
LEMMA RelayedKeeps ==
  ASSUME NEW h, IsHeader(h), NEW n, NEW dec
  PROVE  LET g == RelayedResponse(h, n, dec)
         IN  /\ DOMAIN g \ Marks = DOMAIN h \ (Gone(h) \cup Marks)
             /\ \A name : name \notin Gone(h) \cup Marks => Values(g, name) = Values(h, name)
             /\ Values(g, "X-Slowlane-Request") = << <<n>> >>
             /\ Values(g, "X-Slowlane-Delay")
                  = IF dec.delay > 0 THEN << <<dec.delay>> >>
                    ELSE IF "X-Slowlane-Delay" \in Gone(h) THEN <<>>
                    ELSE Values(h, "X-Slowlane-Delay")
             /\ IsHeader(g) /\ DOMAIN g \cap hopByHop = {} /\ Nominated(g) = {}
<1> DEFINE copy == copyHeader(NoHeaders, h)
           kept == stripHopByHop(copy)
           g == Annotated(kept, n, dec)
<1>1. PICK X : \A name \in DOMAIN h : h[name] \in Seq(X)
  BY DEF IsHeader
<1>2. DOMAIN copy = DOMAIN h /\ \A name \in DOMAIN h : copy[name] = h[name]
  <2>1. \A name : Values(NoHeaders, name) = <<>>
    BY DEF Values, NoHeaders
  <2>2. DOMAIN copy = DOMAIN h /\ \A name \in DOMAIN h : copy[name] = <<>> \o h[name]
    BY <2>1 DEF copyHeader, NoHeaders, Values
  <2>3. \A name \in DOMAIN h : <<>> \o h[name] = h[name]
    BY <1>1, ConcatEmptySeq
  <2> HIDE DEF copy
  <2> QED
    BY <2>2, <2>3
<1> HIDE DEF copy
<1>3. Gone(copy) = Gone(h)
  <2>1. Values(copy, "Connection") = Values(h, "Connection")
    BY <1>2 DEF Values
  <2> QED
    BY <2>1 DEF Gone, Nominated
<1>4. /\ DOMAIN kept = DOMAIN h \ Gone(h)
      /\ \A name \in DOMAIN kept : kept[name] = h[name]
  BY <1>2, <1>3 DEF stripHopByHop, Del, Gone
<1> HIDE DEF kept
<1>5. IsHeader(kept)
  BY <1>1, <1>4 DEF IsHeader
<1>6. \A name : Values(kept, name) = IF name \in Gone(h) THEN <<>> ELSE Values(h, name)
  BY <1>4 DEF Values
<1>7. RelayedResponse(h, n, dec) = g
  BY DEF RelayedResponse, kept, copy
<1>8. /\ DOMAIN g \ Marks = DOMAIN kept \ Marks
      /\ DOMAIN g \subseteq DOMAIN kept \cup Marks
      /\ \A name : name \notin Marks => Values(g, name) = Values(kept, name)
      /\ Values(g, "X-Slowlane-Request") = << <<n>> >>
      /\ Values(g, "X-Slowlane-Delay")
           = IF dec.delay > 0 THEN << <<dec.delay>> >> ELSE Values(kept, "X-Slowlane-Delay")
      /\ IsHeader(g)
  BY <1>5, AnnotatedKeeps
<1> HIDE DEF g
<1>9. Marks \cap hopByHop = {} /\ "Connection" \in hopByHop
  BY DEF Marks, hopByHop
<1>10. DOMAIN g \cap hopByHop = {}
  BY <1>4, <1>8, <1>9 DEF Gone
<1>11. Nominated(g) = {}
  BY <1>9, <1>10, NominatesNothing
<1>12. DOMAIN g \ Marks = DOMAIN h \ (Gone(h) \cup Marks)
  BY <1>4, <1>8
<1>13. \A name : name \notin Gone(h) \cup Marks => Values(g, name) = Values(h, name)
  BY <1>6, <1>8
<1>14. Values(g, "X-Slowlane-Delay")
         = IF dec.delay > 0 THEN << <<dec.delay>> >>
           ELSE IF "X-Slowlane-Delay" \in Gone(h) THEN <<>>
           ELSE Values(h, "X-Slowlane-Delay")
  BY <1>6, <1>8
<1> QED
  BY <1>7, <1>8, <1>10, <1>11, <1>12, <1>13, <1>14

---------------------------------------------------------------------------
(* What a response tells. *)

\* What a client reads off a response: the number of the proxy, whether a
\* status was injected or the upstream failed, the end-to-end headers, as they
\* were sent, and the delay.
Told(h, n, injected, failed, names, lines, delay) ==
  /\ Values(h, "X-Slowlane-Request") = << <<n>> >>
  /\ "X-Slowlane-Injected" \in DOMAIN h <=> injected
  /\ "X-Slowlane-Upstream-Error" \in DOMAIN h <=> failed
  /\ DOMAIN h \ Own = names
  /\ \A name \in names : Values(h, name) = LinesOf(lines, name)
  /\ Values(h, "X-Slowlane-Delay") = delay

\* The same of what a relay passes on, but for the number.
Passes(h, injected, failed, names, lines, delay) ==
  /\ IsHeader(h)
  /\ "X-Slowlane-Injected" \in DOMAIN h \ Gone(h) <=> injected
  /\ "X-Slowlane-Upstream-Error" \in DOMAIN h \ Gone(h) <=> failed
  /\ DOMAIN h \ (Gone(h) \cup Own) = names
  /\ \A name \in names : Values(h, name) = LinesOf(lines, name)
  /\ delay = IF "X-Slowlane-Delay" \in Gone(h) THEN <<>> ELSE Values(h, "X-Slowlane-Delay")

\* A response that a proxy sends: it nominates nothing.
IsSent(h) == IsHeader(h) /\ DOMAIN h \cap hopByHop = {} /\ Nominated(h) = {}

\* A relay tells what it got, with its own number and its own delay.
LEMMA RelayTells ==
  ASSUME NEW h, NEW injected, NEW failed, NEW names, NEW lines, NEW delay,
         Passes(h, injected, failed, names, lines, delay), NEW n, NEW dec
  PROVE  /\ Told(RelayedResponse(h, n, dec), n, injected, failed, names, lines,
                 IF dec.delay > 0 THEN << <<dec.delay>> >> ELSE delay)
         /\ IsSent(RelayedResponse(h, n, dec))
<1> DEFINE g == RelayedResponse(h, n, dec)
           told == IF dec.delay > 0 THEN << <<dec.delay>> >> ELSE delay
<1>1. /\ DOMAIN g \ Marks = DOMAIN h \ (Gone(h) \cup Marks)
      /\ \A name : name \notin Gone(h) \cup Marks => Values(g, name) = Values(h, name)
      /\ Values(g, "X-Slowlane-Request") = << <<n>> >>
      /\ Values(g, "X-Slowlane-Delay")
           = IF dec.delay > 0 THEN << <<dec.delay>> >>
             ELSE IF "X-Slowlane-Delay" \in Gone(h) THEN <<>>
             ELSE Values(h, "X-Slowlane-Delay")
      /\ IsHeader(g) /\ DOMAIN g \cap hopByHop = {} /\ Nominated(g) = {}
  BY RelayedKeeps DEF Passes
<1> HIDE DEF g
<1>2. /\ Marks \subseteq Own
      /\ "X-Slowlane-Injected" \notin Marks /\ "X-Slowlane-Upstream-Error" \notin Marks
  BY DEF Marks, Own
<1>3. Values(g, "X-Slowlane-Delay") = told
  BY <1>1 DEF Passes
<1> HIDE DEF told
<1>4. /\ "X-Slowlane-Injected" \in DOMAIN g <=> injected
      /\ "X-Slowlane-Upstream-Error" \in DOMAIN g <=> failed
  BY <1>1, <1>2 DEF Passes
<1>5. DOMAIN g \ Own = names
  BY <1>1, <1>2 DEF Passes
<1>6. \A name \in names : Values(g, name) = LinesOf(lines, name)
  BY <1>1, <1>2 DEF Passes
<1>7. Told(g, n, injected, failed, names, lines, told)
  BY <1>1, <1>3, <1>4, <1>5, <1>6 DEF Told
<1>8. IsSent(g)
  BY <1>1 DEF IsSent
<1> QED
  BY <1>7, <1>8 DEF g, told

\* What a proxy sends is passed on.
LEMMA SentPasses ==
  ASSUME NEW h, NEW n, NEW injected, NEW failed, NEW names, NEW lines, NEW delay,
         Told(h, n, injected, failed, names, lines, delay), IsSent(h)
  PROVE  Passes(h, injected, failed, names, lines, delay)
<1>1. Gone(h) = hopByHop /\ DOMAIN h \cap Gone(h) = {} /\ IsHeader(h)
  BY DEF IsSent, Gone
<1>2. "X-Slowlane-Delay" \notin Gone(h)
  BY <1>1 DEF hopByHop
<1>3. DOMAIN h \ Gone(h) = DOMAIN h /\ DOMAIN h \ (Gone(h) \cup Own) = DOMAIN h \ Own
  BY <1>1
<1> QED
  BY <1>1, <1>2, <1>3 DEF Told, Passes

\* What an upstream sends is passed on, if it does not claim to be slowlane
\* and does not nominate the delay.
LEMMA UpstreamPasses ==
  ASSUME NEW U, NEW lines, IsMessage(lines, U),
         "X-Slowlane-Injected" \notin Sent(lines),
         "X-Slowlane-Upstream-Error" \notin Sent(lines),
         "X-Slowlane-Delay" \notin ForThisHop(lines)
  PROVE  /\ Passes(Received(lines), FALSE, FALSE, Sent(lines) \ (ForThisHop(lines) \cup Own),
                   lines, LinesOf(lines, "X-Slowlane-Delay"))
         /\ Values(Received(lines), "X-Slowlane-Delay") = LinesOf(lines, "X-Slowlane-Delay")
<1> DEFINE h == Received(lines)
<1>1. /\ DOMAIN h = Sent(lines)
      /\ \A name : Values(h, name) = LinesOf(lines, name) /\ LinesOf(lines, name) \in Seq(Seq(U))
  BY ReceivedKeeps
<1>2. Gone(h) = ForThisHop(lines)
  BY PeerNominates DEF Gone
<1> HIDE DEF h
<1>3. \A name \in DOMAIN h : h[name] \in Seq(Seq(U))
  BY <1>1 DEF Values
<1>4. IsHeader(h)
  BY <1>3 DEF IsHeader
<1> QED
  BY <1>1, <1>2, <1>4 DEF Passes, h

\* A response of slowlane's own, empty but for its mark.
LEMMA WrittenTells ==
  ASSUME NEW mark, mark \in {"X-Slowlane-Injected", "X-Slowlane-Upstream-Error"},
         NEW line, NEW n, NEW lines
  PROVE  LET h == Set(Set(Plain(NoHeaders), mark, line), "X-Slowlane-Request", <<n>>)
         IN  /\ Told(h, n, mark = "X-Slowlane-Injected", mark = "X-Slowlane-Upstream-Error",
                     {}, lines, <<>>)
             /\ IsSent(h) /\ DOMAIN h \subseteq Own
<1> DEFINE h1 == Set(NoHeaders, "Content-Type", <<"text/plain">>)
           h2 == Set(h1, mark, line)
           h == Set(h2, "X-Slowlane-Request", <<n>>)
<1>1. /\ DOMAIN NoHeaders = {} /\ IsHeader(NoHeaders)
      /\ \A name : Values(NoHeaders, name) = <<>>
  BY DEF NoHeaders, IsHeader, Values
<1>2. /\ DOMAIN h1 = DOMAIN NoHeaders \cup {"Content-Type"}
      /\ Values(h1, "Content-Type") = << <<"text/plain">> >>
      /\ \A other : other # "Content-Type" => Values(h1, other) = Values(NoHeaders, other)
      /\ IsHeader(NoHeaders) => IsHeader(h1)
  BY SetKeeps
<1> HIDE DEF h1
<1>3. /\ DOMAIN h2 = DOMAIN h1 \cup {mark}
      /\ Values(h2, mark) = <<line>>
      /\ \A other : other # mark => Values(h2, other) = Values(h1, other)
      /\ IsHeader(h1) => IsHeader(h2)
  BY SetKeeps
<1> HIDE DEF h2
<1>4. /\ DOMAIN h = DOMAIN h2 \cup {"X-Slowlane-Request"}
      /\ Values(h, "X-Slowlane-Request") = << <<n>> >>
      /\ \A other : other # "X-Slowlane-Request" => Values(h, other) = Values(h2, other)
      /\ IsHeader(h2) => IsHeader(h)
  BY SetKeeps
<1> HIDE DEF h
<1>5. DOMAIN h = {"Content-Type", mark, "X-Slowlane-Request"} /\ IsHeader(h)
  BY <1>1, <1>2, <1>3, <1>4
<1>6. Values(h, "X-Slowlane-Delay") = <<>>
  BY <1>1, <1>2, <1>3, <1>4
<1>7. DOMAIN h \subseteq Own /\ DOMAIN h \cap hopByHop = {} /\ "Connection" \in hopByHop
  BY <1>5 DEF Own, hopByHop
<1>8. Nominated(h) = {}
  BY <1>7, NominatesNothing
<1>9. /\ "X-Slowlane-Injected" \in DOMAIN h <=> mark = "X-Slowlane-Injected"
      /\ "X-Slowlane-Upstream-Error" \in DOMAIN h <=> mark = "X-Slowlane-Upstream-Error"
  BY <1>5
<1>10. Told(h, n, mark = "X-Slowlane-Injected", mark = "X-Slowlane-Upstream-Error", {}, lines, <<>>)
  BY <1>4, <1>6, <1>7, <1>9 DEF Told
<1>11. IsSent(h)
  BY <1>5, <1>7, <1>8 DEF IsSent
<1>12. Set(Set(Plain(NoHeaders), mark, line), "X-Slowlane-Request", <<n>>) = h
  BY DEF Plain, h, h1, h2
<1> QED
  BY <1>7, <1>10, <1>11, <1>12

\* A failed upstream is told, and nothing else.
LEMMA UnreachableTells ==
  ASSUME NEW n, NEW lines
  PROVE  /\ Told(UnreachableResponse(n), n, FALSE, TRUE, {}, lines, <<>>)
         /\ IsSent(UnreachableResponse(n))
<1> DEFINE mark == "X-Slowlane-Upstream-Error"
           h == Set(Set(Plain(NoHeaders), mark, <<1>>), "X-Slowlane-Request", <<n>>)
<1>1. mark \in {"X-Slowlane-Injected", "X-Slowlane-Upstream-Error"} /\ mark # "X-Slowlane-Injected"
  OBVIOUS
<1>2. UnreachableResponse(n) = h
  BY DEF UnreachableResponse
<1>3. /\ Told(h, n, mark = "X-Slowlane-Injected", mark = "X-Slowlane-Upstream-Error", {}, lines, <<>>)
      /\ IsSent(h)
  BY <1>1, WrittenTells
<1> HIDE DEF h
<1>4. /\ (mark = "X-Slowlane-Injected") = FALSE
      /\ (mark = "X-Slowlane-Upstream-Error") = TRUE
  OBVIOUS
<1> QED
  BY <1>2, <1>3, <1>4

\* An injected status is told, with the delay of the decision.
LEMMA InjectedTells ==
  ASSUME NEW n, NEW lines, NEW dec
  PROVE  /\ Told(InjectedResponse(n, dec), n, TRUE, FALSE, {}, lines,
                 IF dec.delay > 0 THEN << <<dec.delay>> >> ELSE <<>>)
         /\ IsSent(InjectedResponse(n, dec))
<1> DEFINE mark == "X-Slowlane-Injected"
           line == <<dec.statusRule>>
           h == Set(Set(Plain(NoHeaders), mark, line), "X-Slowlane-Request", <<n>>)
           delayed == Set(h, "X-Slowlane-Delay", <<dec.delay>>)
           g == setDelayHeader(h, dec)
<1>1. mark \in {"X-Slowlane-Injected", "X-Slowlane-Upstream-Error"}
  OBVIOUS
<1>2. InjectedResponse(n, dec) = g
  BY DEF InjectedResponse
<1> HIDE DEF line
<1>3. /\ Told(h, n, mark = "X-Slowlane-Injected", mark = "X-Slowlane-Upstream-Error", {}, lines, <<>>)
      /\ IsSent(h) /\ DOMAIN h \subseteq Own
  BY <1>1, WrittenTells
<1> HIDE DEF h
<1>4. /\ (mark = "X-Slowlane-Injected") = TRUE
      /\ (mark = "X-Slowlane-Upstream-Error") = FALSE
  OBVIOUS
<1>5. Told(h, n, TRUE, FALSE, {}, lines, <<>>)
  BY <1>3, <1>4
<1>6. CASE dec.delay > 0
  <2> DEFINE text == <<dec.delay>>
  <2>1. g = Set(h, "X-Slowlane-Delay", text)
    BY <1>6 DEF setDelayHeader
  <2> HIDE DEF text, g
  <2>2. /\ DOMAIN Set(h, "X-Slowlane-Delay", text) = DOMAIN h \cup {"X-Slowlane-Delay"}
        /\ Values(Set(h, "X-Slowlane-Delay", text), "X-Slowlane-Delay") = <<text>>
        /\ \A other : other # "X-Slowlane-Delay" =>
             Values(Set(h, "X-Slowlane-Delay", text), other) = Values(h, other)
        /\ IsHeader(h) => IsHeader(Set(h, "X-Slowlane-Delay", text))
    BY SetKeeps
  <2>3. "X-Slowlane-Delay" \in Own /\ "X-Slowlane-Delay" \notin hopByHop /\ "Connection" \in hopByHop
    BY DEF Own, hopByHop
  <2>4. Told(g, n, TRUE, FALSE, {}, lines, <<text>>)
    BY <1>5, <2>1, <2>2, <2>3 DEF Told
  <2>5. IsHeader(g) /\ DOMAIN g \cap hopByHop = {}
    BY <1>3, <2>1, <2>2, <2>3 DEF IsSent
  <2>6. IsSent(g)
    BY <2>3, <2>5, NominatesNothing DEF IsSent
  <2> QED
    BY <1>2, <1>6, <2>4, <2>6 DEF text
<1>7. CASE ~(dec.delay > 0)
  <2>1. g = h
    BY <1>7 DEF setDelayHeader
  <2> HIDE DEF g
  <2> QED
    BY <1>2, <1>3, <1>5, <1>7, <2>1
<1> QED
  BY <1>6, <1>7

---------------------------------------------------------------------------
(* The responses of the run. *)

\* The decisions of the run differ.
LEMMA DecisionsDiffer ==
  /\ Relays \cap Injects = {} /\ Unreachable \notin Relays /\ Unreachable \notin Injects
  /\ NoProxy \notin Relays /\ NoProxy \notin Injects /\ NoProxy # Unreachable
  /\ \A dec \in Injects : dec.delay > 0
  /\ ~(NoProxy.delay > 0)
<1>1. \A dec \in Relays : dec.status = 0 /\ dec.throttle_bps \in {0, 50}
  BY DEF Relays, Decision
<1>2. \A dec \in Injects : dec.status = 503 /\ dec.delay = 30
  BY DEF Injects, Decision
<1>3. Unreachable.status = 502
  BY DEF Unreachable, Decision
<1>4. NoProxy.status = 0 /\ NoProxy.throttle_bps = -1 /\ NoProxy.delay = 0
  BY DEF NoProxy, Decision
<1> QED
  BY <1>1, <1>2, <1>3, <1>4

\* What a response tells of two hops, the near and the far one.
OriginTold(lines, near, far) ==
  LET h == Response(Response(Received(lines), 5, far), 9, near)
      writer == IF near \notin Relays THEN near ELSE far
      relayed == writer \in Relays \cup {NoProxy}
      endToEnd == Sent(lines) \ (ForThisHop(lines) \cup Own)
      annotated(dec) == dec.delay > 0 /\ dec # Unreachable
      delay == IF annotated(near) THEN << <<near.delay>> >>
               ELSE IF near \in Relays /\ annotated(far) THEN << <<far.delay>> >>
               ELSE IF relayed THEN LinesOf(lines, "X-Slowlane-Delay") ELSE <<>>
  IN  Told(h, 9, writer \in Injects, writer = Unreachable,
           IF relayed THEN endToEnd ELSE {}, lines, delay)

\* Whatever an upstream sends that does not claim to be slowlane, and whatever
\* the two proxies do, the response tells who made it (proxy.go:142-145, 189-213).
THEOREM OriginIsTold ==
  ASSUME NEW U, NEW lines, IsMessage(lines, U),
         "X-Slowlane-Injected" \notin Sent(lines),
         "X-Slowlane-Upstream-Error" \notin Sent(lines),
         "X-Slowlane-Delay" \notin ForThisHop(lines),
         NEW near \in Relays \cup Injects \cup {Unreachable},
         NEW far \in Relays \cup Injects \cup {Unreachable, NoProxy}
  PROVE  OriginTold(lines, near, far)
<1> DEFINE up == Received(lines)
           endToEnd == Sent(lines) \ (ForThisHop(lines) \cup Own)
           sent == LinesOf(lines, "X-Slowlane-Delay")
           m == Response(up, 5, far)
           h == Response(m, 9, near)
           relayed == far \in Relays \cup {NoProxy}
           names == IF relayed THEN endToEnd ELSE {}
           delayed == IF far.delay > 0 /\ far # Unreachable THEN << <<far.delay>> >>
                      ELSE IF relayed THEN sent ELSE <<>>
           told == IF near.delay > 0 THEN << <<near.delay>> >> ELSE delayed
<1>1. Passes(up, FALSE, FALSE, endToEnd, lines, sent)
  BY UpstreamPasses
<1> HIDE DEF up, endToEnd, sent
<1>2. Passes(m, far \in Injects, far = Unreachable, names, lines, delayed)
  <2>1. CASE far = NoProxy
    <3>1. m = up
      BY <2>1, DecisionsDiffer DEF Response
    <3>2. /\ (far \in Injects) = FALSE /\ (far = Unreachable) = FALSE
          /\ names = endToEnd /\ delayed = sent
      BY <2>1, DecisionsDiffer
    <3> QED
      BY <1>1, <3>1, <3>2
  <2>2. CASE far \in Relays
    <3>1. m = RelayedResponse(up, 5, far)
      BY <2>2, DecisionsDiffer DEF Response
    <3>2. /\ (far \in Injects) = FALSE /\ (far = Unreachable) = FALSE
          /\ names = endToEnd
          /\ delayed = IF far.delay > 0 THEN << <<far.delay>> >> ELSE sent
      BY <2>2, DecisionsDiffer
    <3> HIDE DEF m, names, delayed
    <3>3. /\ Told(m, 5, FALSE, FALSE, endToEnd, lines, delayed)
          /\ IsSent(m)
      BY <1>1, <3>1, <3>2, RelayTells
    <3> QED
      BY <3>2, <3>3, SentPasses
  <2>3. CASE far \in Injects
    <3>1. m = InjectedResponse(5, far)
      BY <2>3, DecisionsDiffer DEF Response
    <3>2. /\ (far \in Injects) = TRUE /\ (far = Unreachable) = FALSE
          /\ names = {}
          /\ delayed = IF far.delay > 0 THEN << <<far.delay>> >> ELSE <<>>
      BY <2>3, DecisionsDiffer
    <3> HIDE DEF m, names, delayed
    <3>3. Told(m, 5, TRUE, FALSE, {}, lines, delayed) /\ IsSent(m)
      BY <3>1, <3>2, InjectedTells
    <3> QED
      BY <3>2, <3>3, SentPasses
  <2>4. CASE far = Unreachable
    <3>1. m = UnreachableResponse(5)
      BY <2>4, DecisionsDiffer DEF Response
    <3>2. /\ (far \in Injects) = FALSE /\ (far = Unreachable) = TRUE
          /\ names = {} /\ delayed = <<>>
      BY <2>4, DecisionsDiffer
    <3> HIDE DEF m, names, delayed
    <3>3. Told(m, 5, FALSE, TRUE, {}, lines, delayed) /\ IsSent(m)
      BY <3>1, <3>2, UnreachableTells
    <3> QED
      BY <3>2, <3>3, SentPasses
  <2> QED
    BY <2>1, <2>2, <2>3, <2>4
<1> HIDE DEF m
<1>3. CASE near \in Relays
  <2>1. h = RelayedResponse(m, 9, near)
    BY <1>3, DecisionsDiffer DEF Response
  <2> HIDE DEF h
  <2>2. near # Unreachable
    BY <1>3, DecisionsDiffer
  <2> HIDE DEF names, delayed
  <2>3. Told(h, 9, far \in Injects, far = Unreachable, names, lines, told)
    BY <1>2, <2>1, RelayTells
  <2> QED
    BY <1>3, <2>2, <2>3 DEF OriginTold, h, m, up, endToEnd, sent, names, delayed
<1>4. CASE near \in Injects
  <2>1. h = InjectedResponse(9, near)
    BY <1>4, DecisionsDiffer DEF Response
  <2> HIDE DEF h
  <2>2. /\ near \notin Relays /\ near # Unreachable /\ near # NoProxy /\ near.delay > 0
        /\ (near \in Injects) = TRUE /\ (near = Unreachable) = FALSE
    BY <1>4, DecisionsDiffer
  <2>3. Told(h, 9, TRUE, FALSE, {}, lines, << <<near.delay>> >>)
    BY <2>1, <2>2, InjectedTells
  <2> QED
    BY <2>2, <2>3 DEF OriginTold, h, m, up
<1>5. CASE near = Unreachable
  <2>1. h = UnreachableResponse(9)
    BY <1>5, DecisionsDiffer DEF Response
  <2> HIDE DEF h
  <2>2. /\ near \notin Relays /\ near # NoProxy
        /\ (near \in Injects) = FALSE /\ (near = Unreachable) = TRUE
    BY <1>5, DecisionsDiffer
  <2>3. Told(h, 9, FALSE, TRUE, {}, lines, <<>>)
    BY <2>1, UnreachableTells
  <2> QED
    BY <2>2, <2>3 DEF OriginTold, h, m, up
<1> QED
  BY <1>3, <1>4, <1>5

\* The header lines of the responses that are typed.
LEMMA ResponseLinesTyped ==
  ASSUME NEW lines \in Seq(ResponseLines)
  PROVE  /\ \E U : IsMessage(lines, U)
         /\ "X-Slowlane-Injected" \notin Sent(lines)
         /\ "X-Slowlane-Upstream-Error" \notin Sent(lines)
         /\ "X-Slowlane-Delay" \notin ForThisHop(lines)
<1> DEFINE U == {"X-Slowlane-Request", "x-user", "5", "amy", "bob", 77, 88, 1}
<1>1. /\ <<"X-Slowlane-Request", "x-user">> \in Seq(U) /\ <<"5">> \in Seq(U)
      /\ <<"amy">> \in Seq(U) /\ <<"bob">> \in Seq(U)
      /\ <<77>> \in Seq(U) /\ <<88>> \in Seq(U) /\ <<1>> \in Seq(U)
  <2>1. /\ "X-Slowlane-Request" \in U /\ "x-user" \in U /\ "5" \in U /\ "amy" \in U
        /\ "bob" \in U /\ 77 \in U /\ 88 \in U /\ 1 \in U
    OBVIOUS
  <2> HIDE DEF U
  <2> QED
    BY <2>1, ShortSequences, Zenon
<1> HIDE DEF U
<1>2. \A l \in ResponseLines :
        /\ l.line \in Seq(U)
        /\ l.name \in {"Connection", "Keep-Alive", "X-User", "X-Slowlane-Request",
                       "X-Slowlane-Delay", "X-Slowlane-Echo"}
        /\ l.name = "Connection" => l.line = <<"X-Slowlane-Request", "x-user">>
  <2>1. \A l \in ResponseLines :
          l.line \in {<<"X-Slowlane-Request", "x-user">>, <<"5">>, <<"amy">>, <<"bob">>,
                      <<77>>, <<88>>, <<1>>}
    BY DEF ResponseLines
  <2>2. \A l \in ResponseLines :
          l.name \in {"Connection", "Keep-Alive", "X-User", "X-Slowlane-Request",
                      "X-Slowlane-Delay", "X-Slowlane-Echo"}
    BY DEF ResponseLines
  <2>3. \A l \in ResponseLines :
          l.name = "Connection" => l.line = <<"X-Slowlane-Request", "x-user">>
    BY DEF ResponseLines
  <2>4. \A l \in ResponseLines : l.line \in Seq(U)
    BY <1>1, <2>1, Zenon
  <2> QED
    BY <2>2, <2>3, <2>4
<1>3. IsMessage(lines, U)
  BY <1>2 DEF IsMessage
<1>4. \A l \in Range(lines) : l \in ResponseLines
  BY DEF Range
<1>5. \A l \in Range(lines) : Canonical(l.name) = l.name
  BY <1>2, <1>4, CanonicalAssumption
<1>6. \A name \in Sent(lines) :
        name \in {"Connection", "Keep-Alive", "X-User", "X-Slowlane-Request",
                  "X-Slowlane-Delay", "X-Slowlane-Echo"}
  BY <1>2, <1>4, <1>5 DEF Sent
<1>7. "X-Slowlane-Delay" \notin ForThisHop(lines)
  <2> SUFFICES ASSUME "X-Slowlane-Delay" \in ForThisHop(lines)
               PROVE  FALSE
    OBVIOUS
  <2>1. "X-Slowlane-Delay" \notin hopByHop
    BY DEF hopByHop
  <2>2. PICK l \in Range(lines) :
          /\ Canonical(l.name) = "Connection"
          /\ \E x \in Range(l.line) : Canonical(x) = "X-Slowlane-Delay"
    BY <2>1, Zenon DEF ForThisHop
  <2>3. PICK e \in Range(l.line) : Canonical(e) = "X-Slowlane-Delay"
    BY <2>2
  <2>4. l.line = <<"X-Slowlane-Request", "x-user">>
    BY <1>2, <1>4, <1>5, <2>2
  <2>5. e = "X-Slowlane-Request" \/ e = "x-user"
    BY <2>4, <2>3 DEF Range
  <2> QED
    BY <2>5, <2>3, CanonicalAssumption
<1> QED
  BY <1>3, <1>6, <1>7

\* A response tells the client who made it, in every state of the run
\* (proxy.go:142-145, 189-213, echo.go:25-27).
THEOREM ResponseTellsItsOriginTheorem == Spec => []ResponseTellsItsOrigin
<1>1. InputsTyped => ResponseTellsItsOrigin
  <2> SUFFICES ASSUME InputsTyped, kind = "response",
                      NEW near \in Relays \cup Injects \cup {Unreachable},
                      NEW far \in Relays \cup Injects \cup {Unreachable, NoProxy}
               PROVE  LET upstream == Received(pat)
                          h == Response(Response(upstream, 5, far), 9, near)
                          writer == IF near \notin Relays THEN near ELSE far
                          relayed == writer \in Relays \cup {NoProxy}
                          own == {"X-Slowlane-Request", "X-Slowlane-Delay", "X-Slowlane-Throttled",
                                  "X-Slowlane-Injected", "X-Slowlane-Upstream-Error", "Content-Type"}
                          endToEnd == Sent(pat) \ (ForThisHop(pat) \cup own)
                          delay == IF near.delay > 0 THEN << <<near.delay>> >>
                                   ELSE IF far.delay > 0 THEN << <<far.delay>> >>
                                   ELSE IF relayed THEN LinesOf(pat, "X-Slowlane-Delay") ELSE <<>>
                      IN  /\ Values(h, "X-Slowlane-Request") = << <<9>> >>
                          /\ "X-Slowlane-Injected" \in DOMAIN h <=> writer \in Injects
                          /\ "X-Slowlane-Upstream-Error" \in DOMAIN h <=> writer = Unreachable
                          /\ DOMAIN h \ own = IF relayed THEN endToEnd ELSE {}
                          /\ relayed => \A name \in endToEnd : h[name] = LinesOf(pat, name)
                          /\ writer # Unreachable => Values(h, "X-Slowlane-Delay") = delay
    BY DEF ResponseTellsItsOrigin
  <2>1. Input["response"].of = ResponseLines
    BY DEF Input
  <2>2. pat \in Seq(ResponseLines)
    BY <2>1 DEF InputsTyped
  <2>3. OriginTold(pat, near, far)
    BY <2>2, ResponseLinesTyped, OriginIsTold
  <2> DEFINE h == Response(Response(Received(pat), 5, far), 9, near)
             writer == IF near \notin Relays THEN near ELSE far
             relayed == writer \in Relays \cup {NoProxy}
             endToEnd == Sent(pat) \ (ForThisHop(pat) \cup Own)
             delay == IF near.delay > 0 /\ near # Unreachable THEN << <<near.delay>> >>
                      ELSE IF near \in Relays /\ far.delay > 0 /\ far # Unreachable
                           THEN << <<far.delay>> >>
                      ELSE IF relayed THEN LinesOf(pat, "X-Slowlane-Delay") ELSE <<>>
  <2>4. Told(h, 9, writer \in Injects, writer = Unreachable,
             IF relayed THEN endToEnd ELSE {}, pat, delay)
    BY <2>3 DEF OriginTold
  <2>5. relayed => \A name \in endToEnd : h[name] = LinesOf(pat, name)
    <3> HIDE DEF h, writer, endToEnd, delay, relayed
    <3>1. relayed => endToEnd = DOMAIN h \ Own
      BY <2>4 DEF Told
    <3> QED
      BY <2>4, <3>1 DEF Told, Values
  <2>6. ASSUME writer # Unreachable
        PROVE  delay = IF near.delay > 0 THEN << <<near.delay>> >>
                       ELSE IF far.delay > 0 THEN << <<far.delay>> >>
                       ELSE IF relayed THEN LinesOf(pat, "X-Slowlane-Delay") ELSE <<>>
    <3>1. near # Unreachable /\ (near \in Relays => far # Unreachable)
      BY <2>6, DecisionsDiffer
    <3>2. near \notin Relays => near.delay > 0
      BY <3>1, DecisionsDiffer
    <3> HIDE DEF relayed
    <3> QED
      BY <3>1, <3>2
  <2> HIDE DEF h, delay
  <2> QED
    BY <2>4, <2>5, <2>6 DEF Told, Own, h
<1> QED
  BY <1>1, InputsTypedAlways, PTL

---------------------------------------------------------------------------
(* Labels. *)

\* A name without the separator.
IsPart(s) == s \in Seq(0 .. 255) /\ \A i \in 1 .. Len(s) : s[i] # 0

\* Parts p, r and u in a label x, with a zero behind p and one behind r.
PartsOf(x, p, r, u, m, k, n) ==
  /\ m = Len(p) /\ k = Len(r) /\ n = Len(u)
  /\ m \in Nat /\ k \in Nat /\ n \in Nat
  /\ Len(x) = m + k + n + 2
  /\ \A i \in 1 .. m : x[i] = p[i] /\ x[i] # 0
  /\ \A i \in 1 .. k : x[m + 1 + i] = r[i] /\ x[m + 1 + i] # 0
  /\ \A i \in 1 .. n : x[m + k + 2 + i] = u[i]
  /\ x[m+1] = 0 /\ x[m+k+2] = 0

\* What is where in a label.
LEMMA ByteByByte ==
  ASSUME NEW p, NEW r, NEW u, IsPart(p), IsPart(r), IsPart(u)
  PROVE  PartsOf(Joined(p, r, u), p, r, u, Len(p), Len(r), Len(u))
<1> DEFINE B == 0 .. 255
           z == <<0>>
           a == p \o z
           b == a \o r
           c == b \o z
           x == c \o u
           m == Len(p)
           k == Len(r)
           o == Len(u)
           n == m + 1 + k
<1>1. /\ p \in Seq(B) /\ r \in Seq(B) /\ u \in Seq(B)
      /\ \A i \in 1 .. Len(p) : p[i] # 0
      /\ \A i \in 1 .. Len(r) : r[i] # 0
  BY DEF IsPart
<1>2. z \in Seq(B) /\ Len(z) = 1 /\ z[1] = 0
  OBVIOUS
<1>3. Len(p) \in Nat /\ Len(r) \in Nat /\ Len(u) \in Nat
  BY <1>1, LenProperties
<1>4. x = Joined(p, r, u)
  BY DEF Joined
<1> HIDE DEF B, z
<1>5. /\ a \in Seq(B) /\ Len(a) = m + 1
      /\ \A i \in 1 .. m : a[i] = p[i]
      /\ a[m+1] = 0
  <2>1. a \in Seq(B) /\ Len(a) = Len(p) + Len(z)
        /\ \A i \in 1 .. Len(p) + Len(z) : a[i] = IF i <= Len(p) THEN p[i] ELSE z[i - Len(p)]
    BY <1>1, <1>2, ConcatProperties
  <2> HIDE DEF a
  <2> QED
    BY <2>1, <1>2, <1>3
<1> HIDE DEF a
<1>6. /\ b \in Seq(B) /\ Len(b) = n
      /\ \A i \in 1 .. m + 1 : b[i] = a[i]
      /\ \A i \in 1 .. Len(r) : b[m + 1 + i] = r[i]
  <2>1. b \in Seq(B) /\ Len(b) = Len(a) + Len(r)
        /\ \A i \in 1 .. Len(a) + Len(r) : b[i] = IF i <= Len(a) THEN a[i] ELSE r[i - Len(a)]
    BY <1>1, <1>5, ConcatProperties
  <2> HIDE DEF b
  <2> QED
    BY <2>1, <1>5, <1>3
<1> HIDE DEF b
<1>7. /\ c \in Seq(B) /\ Len(c) = n + 1
      /\ \A i \in 1 .. n : c[i] = b[i]
      /\ c[n+1] = 0
  <2>1. c \in Seq(B) /\ Len(c) = Len(b) + Len(z)
        /\ \A i \in 1 .. Len(b) + Len(z) : c[i] = IF i <= Len(b) THEN b[i] ELSE z[i - Len(b)]
    BY <1>2, <1>6, ConcatProperties
  <2> HIDE DEF c
  <2> QED
    BY <2>1, <1>2, <1>3, <1>6
<1> HIDE DEF c
<1>8. /\ Len(x) = n + 1 + o
      /\ \A i \in 1 .. n + 1 : x[i] = c[i]
      /\ \A i \in 1 .. o : x[n + 1 + i] = u[i]
  <2>1. x \in Seq(B) /\ Len(x) = Len(c) + Len(u)
        /\ \A i \in 1 .. Len(c) + Len(u) : x[i] = IF i <= Len(c) THEN c[i] ELSE u[i - Len(c)]
    BY <1>1, <1>7, ConcatProperties
  <2> HIDE DEF x
  <2>2. Len(c) = n + 1 /\ Len(u) = o /\ n \in Nat /\ o \in Nat
    BY <1>3, <1>7
  <2> HIDE DEF n, o
  <2> QED
    BY <2>1, <2>2, <1>7
<1> HIDE DEF x
<1>9. \A i \in 1 .. m : x[i] = p[i]
  BY <1>3, <1>5, <1>6, <1>7, <1>8
<1>10. \A i \in 1 .. Len(r) : x[m + 1 + i] = r[i]
  BY <1>3, <1>6, <1>7, <1>8
<1>11. x[m+1] = 0 /\ x[n+1] = 0
  BY <1>3, <1>5, <1>6, <1>7, <1>8
<1>12. \A i \in 1 .. o : x[m + k + 2 + i] = u[i]
  BY <1>3, <1>8
<1>13. x[m+k+2] = 0
  BY <1>3, <1>11
<1> QED
  BY <1>1, <1>3, <1>4, <1>8, <1>9, <1>10, <1>11, <1>12, <1>13 DEF PartsOf

\* Parts of a label cannot move across the separators, so two coordinates have
\* different labels, whatever the names (seeded.go:40-44).
THEOREM LabelsDiffer ==
  ASSUME NEW p, NEW r, NEW u, IsPart(p), IsPart(r), IsPart(u),
         NEW q, NEW s, NEW v, IsPart(q), IsPart(s), IsPart(v),
         Joined(p, r, u) = Joined(q, s, v)
  PROVE  p = q /\ r = s /\ u = v
<1> DEFINE x == Joined(p, r, u)
           m == Len(p)
           k == Len(r)
           n == Len(u)
           l == Len(q)
           j == Len(s)
           o == Len(v)
<1>1. /\ p \in Seq(0 .. 255) /\ r \in Seq(0 .. 255) /\ u \in Seq(0 .. 255)
      /\ q \in Seq(0 .. 255) /\ s \in Seq(0 .. 255) /\ v \in Seq(0 .. 255)
  BY DEF IsPart
<1>2. PartsOf(x, p, r, u, m, k, n)
  BY ByteByByte
<1>3. PartsOf(x, q, s, v, l, j, o)
  BY ByteByByte
<1> HIDE DEF x, m, k, n, l, j, o
<1>4. m = l
  <2>1. ~(m + 1 \in 1 .. l) /\ ~(l + 1 \in 1 .. m)
    BY <1>2, <1>3 DEF PartsOf
  <2> QED
    BY <2>1, <1>2, <1>3 DEF PartsOf
<1>5. k = j
  <2>1. ~(k + 1 \in 1 .. j)
    <3>1. x[m + 1 + (k + 1)] = 0
      BY <1>2 DEF PartsOf
    <3> QED
      BY <3>1, <1>3, <1>4 DEF PartsOf
  <2>2. ~(j + 1 \in 1 .. k)
    <3>1. x[l + 1 + (j + 1)] = 0
      BY <1>3 DEF PartsOf
    <3> QED
      BY <3>1, <1>2, <1>4 DEF PartsOf
  <2> QED
    BY <2>1, <2>2, <1>2, <1>3 DEF PartsOf
<1>6. n = o
  BY <1>2, <1>3, <1>4, <1>5 DEF PartsOf
<1>7. Len(p) = m /\ Len(q) = m /\ Len(r) = k /\ Len(s) = k /\ Len(u) = n /\ Len(v) = n
  BY <1>2, <1>3, <1>4, <1>5, <1>6 DEF PartsOf
<1>8. \A i \in 1 .. m : p[i] = q[i]
  BY <1>2, <1>3, <1>4 DEF PartsOf
<1>9. \A i \in 1 .. k : r[i] = s[i]
  BY <1>2, <1>3, <1>4, <1>5 DEF PartsOf
<1>10. \A i \in 1 .. n : u[i] = v[i]
  BY <1>2, <1>3, <1>4, <1>5, <1>6 DEF PartsOf
<1> QED
  BY <1>1, <1>7, <1>8, <1>9, <1>10, SameSequence

---------------------------------------------------------------------------
(* Sums, carried out digit by digit. *)

\* Sums are made in digits of sixteen bits.
DigitSize == 65536

\* The powers of two in a digit of sixteen bits, and the next one.
LEMMA Powers ==
  /\ 2^0 = 1 /\ 2^1 = 2 /\ 2^2 = 4 /\ 2^3 = 8
  /\ 2^4 = 16 /\ 2^5 = 32 /\ 2^6 = 64 /\ 2^7 = 128
  /\ 2^8 = 256 /\ 2^9 = 512 /\ 2^10 = 1024 /\ 2^11 = 2048
  /\ 2^12 = 4096 /\ 2^13 = 8192 /\ 2^14 = 16384 /\ 2^15 = 32768
  /\ 2^16 = DigitSize
  BY DEF DigitSize

AnyOf(S) == CHOOSE x \in S : TRUE
NoSum(c) == 0
PlusPower(c, sum, i) == c[1][16 * c[2] + i] * 2^i + sum
Powering == INSTANCE FoldLaws WITH Base <- NoSum, Step <- PlusPower, Pick <- AnyOf

\* What digit g of a column gets, without a carry.
DigitSum(column, g) == MapThenSumSet(LAMBDA i : column[16 * g + i] * 2^i, 0 .. 15)

LowByte(c) ==
  c[0] + 2 * c[1] + 4 * c[2] + 8 * c[3] + 16 * c[4] + 32 * c[5] + 64 * c[6] + 128 * c[7]
HighByte(c) ==
  256 * c[8] + 512 * c[9] + 1024 * c[10] + 2048 * c[11] + 4096 * c[12] + 8192 * c[13]
  + 16384 * c[14] + 32768 * c[15]
WrittenOut(c) == LowByte(c) + HighByte(c)

\* Digit g of a column.
DigitOf(column, g) == [i \in 0 .. 15 |-> column[16 * g + i]]

\* The sum of a digit, written out.
LEMMA DigitIsWrittenOut ==
  ASSUME NEW column, NEW g, \A i \in 0 .. 15 : column[16 * g + i] \in Nat
  PROVE  DigitSum(column, g) = WrittenOut(DigitOf(column, g))
<1> DEFINE call == <<column, g>>
           V == 0 .. 15
           F(S) == Powering!Fold(call, S, S)
           U(k) == 0 .. k - 1
           term(i) == column[16 * g + i] * 2^i
<1>1. DigitSum(column, g) = F(V)
  BY DEF DigitSum, MapThenSumSet, MapThenFoldSet, Powering!Fold, Powering!IsFold,
         NoSum, PlusPower, AnyOf
<1>2. Powering!Picks(V)
  <2>1. IsFiniteSet(V)
    BY 0 \in Int, 15 \in Int, FS_Interval
  <2>2. Powering!IsFiniteSet(V)
    BY <2>1 DEF IsFiniteSet, Powering!IsFiniteSet
  <2> QED
    BY <2>2 DEF Powering!Picks, AnyOf
<1>3. \A i \in V : term(i) \in Nat
  <2>1. \A i \in V : i = 0 \/ i = 1 \/ i = 2 \/ i = 3 \/ i = 4 \/ i = 5 \/ i = 6 \/ i = 7
                     \/ i = 8 \/ i = 9 \/ i = 10 \/ i = 11 \/ i = 12 \/ i = 13 \/ i = 14 \/ i = 15
    OBVIOUS
  <2>2. \A i \in V : 2^i \in Nat
    <3> TAKE i \in V
    <3> HIDE DEF V
    <3>1. /\ 2^0 \in Nat /\ 2^1 \in Nat /\ 2^2 \in Nat /\ 2^3 \in Nat
          /\ 2^4 \in Nat /\ 2^5 \in Nat /\ 2^6 \in Nat /\ 2^7 \in Nat
          /\ 2^8 \in Nat /\ 2^9 \in Nat /\ 2^10 \in Nat /\ 2^11 \in Nat
          /\ 2^12 \in Nat /\ 2^13 \in Nat /\ 2^14 \in Nat /\ 2^15 \in Nat
      BY Powers
    <3> QED
      BY <2>1, <3>1, Zenon
  <2>3. \A a, b \in Nat : a * b \in Nat
    OBVIOUS
  <2> QED
    BY <2>2, <2>3
<1>4. \A a, i : PlusPower(call, a, i) = term(i) + a
  BY DEF PlusPower
<1>5. Powering!Commutes(call, V, Nat)
  <2>1. NoSum(call) \in Nat
    BY DEF NoSum
  <2> HIDE DEF call, term, V
  <2> QED
    BY <1>3, <1>4, <2>1 DEF Powering!Commutes
<1> HIDE DEF call, term
<1>6. /\ F({}) = 0
      /\ \A t \in SUBSET V : \A x \in t : F(t) = PlusPower(call, F(t \ {x}), x)
  <2> HIDE DEF V
  <2> QED
    BY <1>2, <1>5, Powering!FoldIsUnordered DEF NoSum
<1>7. F(U(0)) = 0 /\ F(U(16)) = F(V)
  <2>1. U(0) = {} /\ U(16) = V
    OBVIOUS
  <2> HIDE DEF V, U
  <2> QED
    BY <2>1, <1>6
<1>8. \A k \in V : F(U(k + 1)) = term(k) + F(U(k))
  <2> TAKE k \in V
  <2>1. U(k + 1) \in SUBSET V /\ k \in U(k + 1) /\ U(k + 1) \ {k} = U(k)
    OBVIOUS
  <2> HIDE DEF V, U, F
  <2> QED
    BY <2>1, <1>6, <1>4
<1>9. \A i \in V : term(i) = DigitOf(column, g)[i] * 2^i
  BY DEF DigitOf, term
<1> HIDE DEF F
<1> DEFINE S(k) == F(U(k))
           c == DigitOf(column, g)
<1>10. \A i \in V : c[i] \in Nat
  BY DEF DigitOf
<1>11. S(0) = 0 /\ F(V) = S(16) /\ \A k \in V : S(k + 1) = c[k] * 2^k + S(k)
  <2> HIDE DEF U
  <2> QED
    BY <1>7, <1>8, <1>9
<1> HIDE DEF S, c
<1>12. /\ S(1) = c[0] /\ S(2) = c[1] * 2 + S(1) /\ S(3) = c[2] * 4 + S(2)
       /\ S(4) = c[3] * 8 + S(3) /\ S(5) = c[4] * 16 + S(4) /\ S(6) = c[5] * 32 + S(5)
       /\ S(7) = c[6] * 64 + S(6) /\ S(8) = c[7] * 128 + S(7)
  BY <1>10, <1>11, Powers
<1>13. /\ S(9) = c[8] * 256 + S(8) /\ S(10) = c[9] * 512 + S(9) 
       /\ S(11) = c[10] * 1024 + S(10) /\ S(12) = c[11] * 2048 + S(11)
       /\ S(13) = c[12] * 4096 + S(12) /\ S(14) = c[13] * 8192 + S(13)
       /\ S(15) = c[14] * 16384 + S(14) /\ S(16) = c[15] * 32768 + S(15)
  BY <1>10, <1>11, Powers
<1>14. F(V) = WrittenOut(c)
  <2>1. S(8) = LowByte(c) /\ S(8) \in Nat
    <3>1. S(8) = LowByte(c)
      BY <1>10, <1>12 DEF LowByte
    <3>2. LowByte(c) \in Nat
      BY <1>10 DEF LowByte
    <3> QED
      BY <3>1, <3>2
  <2>2. S(16) = S(8) + HighByte(c)
    BY <1>10, <1>13, <2>1 DEF HighByte
  <2> QED
    BY <1>11, <2>1, <2>2 DEF WrittenOut
<1> QED
  BY <1>1, <1>14 DEF c

Places == [g \in 1 .. 64 \div 16 |-> g - 1]
NoDigits(c) == <<0>>
OneDigit(c, digits, k) ==
  LET total == Last(digits) + DigitSum(c, Places[k])
  IN  Append(Front(digits), total % 2^16) \o <<total \div 2^16>>
Carrying == INSTANCE FoldLaws WITH Base <- NoDigits, Step <- OneDigit, Pick <- Max

\* The digits of a sum below digit g, and the carry on top of them.
DigitsBelow(column, g) == Carrying!FoldUpTo(column, 4, g)
Carry(column, g) == Last(DigitsBelow(column, g))
Total(column, g) == Carry(column, g) + WrittenOut(DigitOf(column, g))

Column == [0 .. 63 -> Nat]

\* Carried makes the four digits of a word, one after the other.
LEMMA CarriedIsFold ==
  ASSUME NEW column
  PROVE  Carried(column, 64) =
           {k \in 0 .. 63 :
              (DigitsBelow(column, 4)[k \div 16 + 1] \div 2^(k % 16)) % 2 = 1}
<1> DEFINE n == 64 \div 16
<1>1. n = 4 /\ 64 - 1 = 63
  OBVIOUS
<1>2. Carried(column, 64) =
        LET sum == Carrying!FoldUpTo(column, 64 \div 16, 64 \div 16)
        IN  {k \in 0 .. 64 - 1 : (sum[k \div 16 + 1] \div 2^(k % 16)) % 2 = 1}
  BY Zenon DEF Carried, FoldLeft, MapThenSumSet, MapThenFoldSet, Carrying!FoldUpTo, Carrying!Fold,
         Carrying!IsFold, NoDigits, OneDigit, DigitSum, Places
<1> QED
  BY <1>1, <1>2 DEF DigitsBelow

\* The top digit is replaced by two.
OneMoreDigit(digits, digit, carry) == Append(Front(digits), digit) \o <<carry>>
LEMMA TwoForOne ==
  ASSUME NEW digits \in Seq(Nat), Len(digits) # 0, NEW x \in Nat, NEW y \in Nat
  PROVE  LET more == OneMoreDigit(digits, x, y)
         IN  /\ more \in Seq(Nat) /\ Len(more) = Len(digits) + 1
             /\ \A i \in 1 .. Len(digits) - 1 : more[i] = digits[i]
             /\ more[Len(digits)] = x /\ more[Len(digits) + 1] = y
<1> DEFINE n == Len(digits) - 1
           F == Front(digits)
           A == Append(F, x)
           z == <<y>>
           more == A \o z
<1>7. n \in Nat /\ Len(digits) = n + 1
  OBVIOUS
<1> HIDE DEF n
<1>1. F \in Seq(Nat) /\ Len(F) = n /\ \A i \in 1 .. n : F[i] = digits[i]
  BY <1>7, SubSeqProperties DEF Front
<1> HIDE DEF F
<1>2. A \in Seq(Nat) /\ Len(A) = n + 1 /\ A[n+1] = x /\ \A i \in 1 .. n : A[i] = digits[i]
  BY <1>1, <1>7, AppendProperties
<1>3. z \in Seq(Nat) /\ Len(z) = 1 /\ z[1] = y
  OBVIOUS
<1> HIDE DEF A, z
<1>4. more \in Seq(Nat) /\ Len(more) = Len(A) + Len(z)
      /\ \A i \in 1 .. Len(A) + Len(z) : more[i] = IF i <= Len(A) THEN A[i] ELSE z[i - Len(A)]
  BY <1>2, <1>3, ConcatProperties
<1> HIDE DEF more
<1>5. Len(more) = n + 2 /\ more[n+1] = x /\ more[n+2] = y
      /\ \A i \in 1 .. n : more[i] = digits[i]
  BY <1>2, <1>3, <1>4, <1>7
<1>6. OneMoreDigit(digits, x, y) = more
  BY DEF OneMoreDigit, more, A, z, F
<1> QED
  BY <1>4, <1>5, <1>6, <1>7

\* What a digit gets is a number.
LEMMA WrittenOutIsNumber ==
  ASSUME NEW column \in Column, NEW g \in 0 .. 3
  PROVE  /\ \A i \in 0 .. 15 : column[16 * g + i] \in Nat
         /\ DigitOf(column, g) \in [0 .. 15 -> Nat]
         /\ WrittenOut(DigitOf(column, g)) \in Nat
<1>1. \A i \in 0 .. 15 : column[16 * g + i] \in Nat
  BY DEF Column
<1>2. DigitOf(column, g) \in [0 .. 15 -> Nat]
  BY <1>1 DEF DigitOf
<1> DEFINE c == DigitOf(column, g)
<1>3. /\ c[0] \in Nat /\ c[1] \in Nat /\ c[2] \in Nat /\ c[3] \in Nat
      /\ c[4] \in Nat /\ c[5] \in Nat /\ c[6] \in Nat /\ c[7] \in Nat
      /\ c[8] \in Nat /\ c[9] \in Nat /\ c[10] \in Nat /\ c[11] \in Nat
      /\ c[12] \in Nat /\ c[13] \in Nat /\ c[14] \in Nat /\ c[15] \in Nat
  BY <1>2
<1> HIDE DEF c
<1>4. WrittenOut(c) \in Nat
  <2>1. LowByte(c) \in Nat
    BY <1>3 DEF LowByte
  <2>2. HighByte(c) \in Nat
    BY <1>3 DEF HighByte
  <2> QED
    BY <2>1, <2>2 DEF WrittenOut
<1> QED
  BY <1>1, <1>2, <1>4 DEF c

\* Digits are made one after the other; each takes the carry of the one before.
LEMMA DigitByDigit ==
  ASSUME NEW column \in Column
  PROVE  /\ Carry(column, 0) = 0
         /\ \A g \in 0 .. 3 :
              /\ Total(column, g) \in Nat
              /\ Carry(column, g + 1) = Total(column, g) \div DigitSize
              /\ DigitsBelow(column, 4)[g + 1] = Total(column, g) % DigitSize
<1> DEFINE D(g) == DigitsBelow(column, g)
           T(g) == Total(column, g)
           Typed(g) == D(g) \in Seq(Nat) /\ Len(D(g)) = g + 1
           W(g) == WrittenOut(DigitOf(column, g))
<1>1. /\ D(0) = NoDigits(column)
      /\ \A k \in 1 .. 4 : D(k) = OneDigit(column, D(k - 1), k)
  BY Carrying!FoldIsLoop DEF Max, Carrying!Max, DigitsBelow
<1>2. \A g \in 0 .. 3 : Places[g+1] = g
  <2>1. 64 \div 16 = 4
    OBVIOUS
  <2> QED
    BY <2>1 DEF Places
<1>3. \A g \in 0 .. 3 : DigitSum(column, g) = W(g) /\ W(g) \in Nat
  BY WrittenOutIsNumber, DigitIsWrittenOut
<1>4. \A g : T(g) = Last(D(g)) + W(g) /\ Carry(column, g) = Last(D(g))
  BY DEF Total, Carry
<1> HIDE DEF D, T, W
<1>5. \A g \in 0 .. 3 :
        D(g+1) = Append(Front(D(g)), T(g) % DigitSize) \o <<T(g) \div DigitSize>>
  <2> SUFFICES ASSUME NEW g \in 0 .. 3
               PROVE  D(g+1) = Append(Front(D(g)), T(g) % DigitSize) \o <<T(g) \div DigitSize>>
    OBVIOUS
  <2>1. g + 1 \in 1 .. 4 /\ (g + 1) - 1 = g
    OBVIOUS
  <2>2. D(g+1) = OneDigit(column, D(g), g + 1)
    BY <1>1, <2>1
  <2>3. OneDigit(column, D(g), g + 1)
          = Append(Front(D(g)), T(g) % 2^16) \o <<T(g) \div 2^16>>
    BY <1>2, <1>3, <1>4, Zenon DEF OneDigit
  <2> QED
    <3>1. 2^16 = DigitSize
      BY Powers
    <3> QED
      BY <2>2, <2>3, <3>1, Zenon
<1>6. D(0) = <<0>>
  BY <1>1 DEF NoDigits
<1>7. Typed(0) /\ Last(D(0)) = 0
  <2> DEFINE z == <<0>>
  <2>1. z \in Seq(Nat) /\ Len(z) = 1 /\ z[1] = 0
    OBVIOUS
  <2>2. D(0) = z
    BY <1>6
  <2> HIDE DEF z
  <2> QED
    BY <2>1, <2>2 DEF Last
<1>8. ASSUME NEW g \in 0 .. 3, Typed(g)
      PROVE  /\ Typed(g+1)
             /\ T(g) \in Nat
             /\ \A i \in 1 .. g : D(g+1)[i] = D(g)[i]
             /\ D(g+1)[g+1] = T(g) % DigitSize
             /\ Last(D(g+1)) = T(g) \div DigitSize
  <2>1. Last(D(g)) \in Nat
    BY <1>8, ElementOfSeq DEF Last
  <2>2. T(g) \in Nat
    BY <2>1, <1>3, <1>4
  <2>3. T(g) % DigitSize \in Nat /\ T(g) \div DigitSize \in Nat
    BY <2>2 DEF DigitSize
  <2> DEFINE a == T(g) % DigitSize
             b == T(g) \div DigitSize
  <2>4. D(g+1) = OneMoreDigit(D(g), a, b)
    BY <1>5, Zenon DEF OneMoreDigit
  <2> HIDE DEF a, b
  <2>5. g \in Nat /\ a \in Nat /\ b \in Nat
    BY <2>3 DEF a, b
  <2>6. D(g) \in Seq(Nat) /\ Len(D(g)) = g + 1
    BY <1>8
  <2>7. /\ D(g+1) \in Seq(Nat) /\ Len(D(g+1)) = g + 2
        /\ \A i \in 1 .. g : D(g+1)[i] = D(g)[i]
        /\ D(g+1)[g+1] = a /\ D(g+1)[g+2] = b
    <3>1. Len(D(g)) # 0 /\ Len(D(g)) - 1 = g /\ Len(D(g)) + 1 = g + 2
      BY <2>6
    <3>2. LET more == OneMoreDigit(D(g), a, b)
          IN  /\ more \in Seq(Nat) /\ Len(more) = Len(D(g)) + 1
              /\ \A i \in 1 .. Len(D(g)) - 1 : more[i] = D(g)[i]
              /\ more[Len(D(g))] = a /\ more[Len(D(g)) + 1] = b
      <4>1. \A x, y \in Nat :
              LET more == OneMoreDigit(D(g), x, y)
              IN  /\ more \in Seq(Nat) /\ Len(more) = Len(D(g)) + 1
                  /\ \A i \in 1 .. Len(D(g)) - 1 : more[i] = D(g)[i]
                  /\ more[Len(D(g))] = x /\ more[Len(D(g)) + 1] = y
        BY <2>6, <3>1, TwoForOne
      <4> QED
        BY <2>5, <4>1, Zenon
    <3> QED
      BY <2>4, <2>6, <3>1, <3>2, Zenon
  <2>8. Last(D(g+1)) = b
    BY <2>7 DEF Last
  <2> QED
    BY <2>2, <2>7, <2>8 DEF a, b
<1>9. Typed(1) /\ Typed(2) /\ Typed(3) /\ Typed(4)
  <2> HIDE DEF Typed
  <2>1. Typed(1)
    BY <1>7, <1>8
  <2>2. Typed(2)
    BY <2>1, <1>8
  <2>3. Typed(3)
    BY <2>2, <1>8
  <2>4. Typed(4)
    BY <2>3, <1>8
  <2> QED
    BY <2>1, <2>2, <2>3, <2>4
<1>10. \A g \in 0 .. 3 : Typed(g)
  <2>1. \A g \in 0 .. 3 : g = 0 \/ g = 1 \/ g = 2 \/ g = 3
    OBVIOUS
  <2> HIDE DEF Typed
  <2> QED
    BY <2>1, <1>7, <1>9
<1>11. \A g \in 0 .. 3 : T(g) \in Nat /\ Last(D(g+1)) = T(g) \div DigitSize
                         /\ D(g+1)[g+1] = T(g) % DigitSize
                         /\ \A i \in 1 .. g : D(g+1)[i] = D(g)[i]
  <2> HIDE DEF Typed
  <2> QED
    BY <1>8, <1>10
<1>12. \A g \in 0 .. 3 : D(4)[g+1] = D(g+1)[g+1]
  <2>1. D(4)[1] = D(3)[1] /\ D(3)[1] = D(2)[1] /\ D(2)[1] = D(1)[1]
    BY <1>11
  <2>2. D(4)[2] = D(3)[2] /\ D(3)[2] = D(2)[2]
    BY <1>11
  <2>3. D(4)[3] = D(3)[3]
    BY <1>11
  <2>4. \A g \in 0 .. 3 : g = 0 \/ g = 1 \/ g = 2 \/ g = 3
    OBVIOUS
  <2> QED
    BY <2>1, <2>2, <2>3, <2>4
<1>13. \A g \in 0 .. 3 : T(g) \in Nat /\ Carry(column, g + 1) = T(g) \div DigitSize
                         /\ D(4)[g+1] = T(g) % DigitSize
  BY <1>4, <1>11, <1>12
<1>14. Carry(column, 0) = 0
  BY <1>4, <1>7
<1> QED
  BY <1>13, <1>14 DEF D, T

\* Bit k of the lowest digit of a number.
Bit(t, k) == ((t % DigitSize) \div 2^k) % 2

\* A bit of the lowest digit is a bit of the number.
LEMMA BitOfNumber ==
  ASSUME NEW t \in Nat
  PROVE  \A k \in 0 .. 15 : 2^k \in Nat \ {0} /\ Bit(t, k) = (t \div 2^k) % 2
<1> DEFINE Same(k) == 2^k \in Nat \ {0} /\ Bit(t, k) = (t \div 2^k) % 2
<1>1. Same(0) /\ Same(1)
  BY DEF Bit, DigitSize
<1>2. Same(2) /\ Same(3)
  BY DEF Bit, DigitSize
<1>3. Same(4) /\ Same(5)
  BY DEF Bit, DigitSize
<1>4. Same(6) /\ Same(7)
  BY DEF Bit, DigitSize
<1>5. Same(8) /\ Same(9)
  BY DEF Bit, DigitSize
<1>6. Same(10) /\ Same(11)
  BY DEF Bit, DigitSize
<1>7. Same(12) /\ Same(13)
  BY DEF Bit, DigitSize
<1>8. Same(14) /\ Same(15)
  BY DEF Bit, DigitSize
<1>9. \A k \in 0 .. 15 : k = 0 \/ k = 1 \/ k = 2 \/ k = 3 \/ k = 4 \/ k = 5 \/ k = 6 \/ k = 7
                        \/ k = 8 \/ k = 9 \/ k = 10 \/ k = 11 \/ k = 12 \/ k = 13 \/ k = 14 \/ k = 15
  OBVIOUS
<1> HIDE DEF Same
<1>10. \A k \in 0 .. 15 : Same(k)
  BY <1>1, <1>2, <1>3, <1>4, <1>5, <1>6, <1>7, <1>8, <1>9, Zenon
<1> QED
  BY <1>10, Zenon DEF Same

\* Two sums that differ from a place on, by x there and by y.
DifferFrom(sum, other, place, x, y, rest) == sum = other + 2^place * (x - y + 2 * rest)
SameBit(sum, other, place) == Bit(sum, place) = 1 <=> Bit(other, place) = 1

\* A bit of a sum tells the parity of what is added there, if nothing differs
\* below it.
LEMMA BitTells ==
  ASSUME NEW sum \in Nat, NEW other \in Nat, NEW x \in Nat, NEW y \in Nat, NEW rest \in Int,
         NEW place \in 0 .. 15, DifferFrom(sum, other, place, x, y, rest)
  PROVE  SameBit(sum, other, place) <=> x % 2 = y % 2
<1> DEFINE power == 2^place
           more == x - y + 2 * rest
           p == sum \div power
           r == other \div power
<1>1. power \in Nat \ {0} /\ Bit(sum, place) = p % 2 /\ Bit(other, place) = r % 2
  BY BitOfNumber
<1>2. more \in Int /\ sum = other + power * more
  BY DEF DifferFrom
<1> HIDE DEF power, more
<1>3. p = r + more /\ r \in Int
  <2>1. (other + power * more) \div power = (other \div power) + more /\ other \div power \in Int
    BY <1>1, <1>2, QuotientOfSum
  <2> QED
    BY <1>2, <2>1
<1> HIDE DEF p, r
<1>4. SameBit(sum, other, place) <=> (p % 2 = 1 <=> r % 2 = 1)
  BY <1>1, Zenon DEF SameBit
<1>5. p = r + (x - y + 2 * rest)
  BY <1>3 DEF more
<1>6. (p % 2 = 1 <=> r % 2 = 1) <=> x % 2 = y % 2
  BY <1>3, <1>5
<1> QED
  BY <1>4, <1>6

\* What is left of a sum whose first terms are none.
LEMMA FirstTerm ==
  ASSUME NEW e \in [0 .. 15 -> Int], NEW k \in 0 .. 15, \A i \in 0 .. 15 : i < k => e[i] = 0
  PROVE  \E h \in Int : WrittenOut(e) = 2^k * (e[k] + 2 * h)
<1> DEFINE e0 == e[0]
           e1 == e[1]
           e2 == e[2]
           e3 == e[3]
           e4 == e[4]
           e5 == e[5]
           e6 == e[6]
           e7 == e[7]
           e8 == e[8]
           e9 == e[9]
           e10 == e[10]
           e11 == e[11]
           e12 == e[12]
           e13 == e[13]
           e14 == e[14]
           e15 == e[15]
<1>1. /\ e0 \in Int /\ e1 \in Int /\ e2 \in Int /\ e3 \in Int
      /\ e4 \in Int /\ e5 \in Int /\ e6 \in Int /\ e7 \in Int
      /\ e8 \in Int /\ e9 \in Int /\ e10 \in Int /\ e11 \in Int
      /\ e12 \in Int /\ e13 \in Int /\ e14 \in Int /\ e15 \in Int
  OBVIOUS
<1>2. /\ (k > 0 => e0 = 0) /\ (k > 1 => e1 = 0) /\ (k > 2 => e2 = 0) /\ (k > 3 => e3 = 0)
      /\ (k > 4 => e4 = 0) /\ (k > 5 => e5 = 0) /\ (k > 6 => e6 = 0) /\ (k > 7 => e7 = 0)
      /\ (k > 8 => e8 = 0) /\ (k > 9 => e9 = 0) /\ (k > 10 => e10 = 0) /\ (k > 11 => e11 = 0)
      /\ (k > 12 => e12 = 0) /\ (k > 13 => e13 = 0) /\ (k > 14 => e14 = 0) /\ (k > 15 => e15 = 0)
  OBVIOUS
<1>3. WrittenOut(e) = (e0 + 2 * e1 + 4 * e2 + 8 * e3 + 16 * e4 + 32 * e5 + 64 * e6 + 128 * e7)
                      + (256 * e8 + 512 * e9 + 1024 * e10 + 2048 * e11 + 4096 * e12
                         + 8192 * e13 + 16384 * e14 + 32768 * e15)
  BY DEF WrittenOut, LowByte, HighByte
<1> DEFINE h16 == 0
           h15 == e15 + 2 * h16
           h14 == e14 + 2 * h15
           h13 == e13 + 2 * h14
           h12 == e12 + 2 * h13
           h11 == e11 + 2 * h12
           h10 == e10 + 2 * h11
           h9 == e9 + 2 * h10
           h8 == e8 + 2 * h9
           h7 == e7 + 2 * h8
           h6 == e6 + 2 * h7
           h5 == e5 + 2 * h6
           h4 == e4 + 2 * h5
           h3 == e3 + 2 * h4
           h2 == e2 + 2 * h3
           h1 == e1 + 2 * h2
<1> HIDE DEF e0, e1, e2, e3, e4, e5, e6, e7, e8, e9, e10, e11, e12, e13, e14, e15
<1>4. CASE k = 0
  <2>1. h1 \in Int /\ WrittenOut(e) = 1 * (e0 + 2 * h1)
    BY <1>1, <1>2, <1>3, <1>4
  <2> HIDE DEF h1
  <2> QED
    BY <2>1, <1>4, Powers DEF e0
<1>5. CASE k = 1
  <2>1. h2 \in Int /\ WrittenOut(e) = 2 * (e1 + 2 * h2)
    BY <1>1, <1>2, <1>3, <1>5
  <2> HIDE DEF h2
  <2> QED
    BY <2>1, <1>5, Powers DEF e1
<1>6. CASE k = 2
  <2>1. h3 \in Int /\ WrittenOut(e) = 4 * (e2 + 2 * h3)
    BY <1>1, <1>2, <1>3, <1>6
  <2> HIDE DEF h3
  <2> QED
    BY <2>1, <1>6, Powers DEF e2
<1>7. CASE k = 3
  <2>1. h4 \in Int /\ WrittenOut(e) = 8 * (e3 + 2 * h4)
    BY <1>1, <1>2, <1>3, <1>7
  <2> HIDE DEF h4
  <2> QED
    BY <2>1, <1>7, Powers DEF e3
<1>8. CASE k = 4
  <2>1. h5 \in Int /\ WrittenOut(e) = 16 * (e4 + 2 * h5)
    BY <1>1, <1>2, <1>3, <1>8
  <2> HIDE DEF h5
  <2> QED
    BY <2>1, <1>8, Powers DEF e4
<1>9. CASE k = 5
  <2>1. h6 \in Int /\ WrittenOut(e) = 32 * (e5 + 2 * h6)
    BY <1>1, <1>2, <1>3, <1>9
  <2> HIDE DEF h6
  <2> QED
    BY <2>1, <1>9, Powers DEF e5
<1>10. CASE k = 6
  <2>1. h7 \in Int /\ WrittenOut(e) = 64 * (e6 + 2 * h7)
    BY <1>1, <1>2, <1>3, <1>10
  <2> HIDE DEF h7
  <2> QED
    BY <2>1, <1>10, Powers DEF e6
<1>11. CASE k = 7
  <2>1. h8 \in Int /\ WrittenOut(e) = 128 * (e7 + 2 * h8)
    BY <1>1, <1>2, <1>3, <1>11
  <2> HIDE DEF h8
  <2> QED
    BY <2>1, <1>11, Powers DEF e7
<1>12. CASE k = 8
  <2>1. h9 \in Int /\ WrittenOut(e) = 256 * (e8 + 2 * h9)
    BY <1>1, <1>2, <1>3, <1>12
  <2> HIDE DEF h9
  <2> QED
    BY <2>1, <1>12, Powers DEF e8
<1>13. CASE k = 9
  <2>1. h10 \in Int /\ WrittenOut(e) = 512 * (e9 + 2 * h10)
    BY <1>1, <1>2, <1>3, <1>13
  <2> HIDE DEF h10
  <2> QED
    BY <2>1, <1>13, Powers DEF e9
<1>14. CASE k = 10
  <2>1. h11 \in Int /\ WrittenOut(e) = 1024 * (e10 + 2 * h11)
    BY <1>1, <1>2, <1>3, <1>14
  <2> HIDE DEF h11
  <2> QED
    BY <2>1, <1>14, Powers DEF e10
<1>15. CASE k = 11
  <2>1. h12 \in Int /\ WrittenOut(e) = 2048 * (e11 + 2 * h12)
    BY <1>1, <1>2, <1>3, <1>15
  <2> HIDE DEF h12
  <2> QED
    BY <2>1, <1>15, Powers DEF e11
<1>16. CASE k = 12
  <2>1. h13 \in Int /\ WrittenOut(e) = 4096 * (e12 + 2 * h13)
    BY <1>1, <1>2, <1>3, <1>16
  <2> HIDE DEF h13
  <2> QED
    BY <2>1, <1>16, Powers DEF e12
<1>17. CASE k = 13
  <2>1. h14 \in Int /\ WrittenOut(e) = 8192 * (e13 + 2 * h14)
    BY <1>1, <1>2, <1>3, <1>17
  <2> HIDE DEF h14
  <2> QED
    BY <2>1, <1>17, Powers DEF e13
<1>18. CASE k = 14
  <2>1. h15 \in Int /\ WrittenOut(e) = 16384 * (e14 + 2 * h15)
    BY <1>1, <1>2, <1>3, <1>18
  <2> HIDE DEF h15
  <2> QED
    BY <2>1, <1>18, Powers DEF e14
<1>19. CASE k = 15
  <2>1. h16 \in Int /\ WrittenOut(e) = 32768 * (e15 + 2 * h16)
    BY <1>1, <1>2, <1>3, <1>19
  <2> HIDE DEF h16
  <2> QED
    BY <2>1, <1>19, Powers DEF e15
<1>20. k = 0 \/ k = 1 \/ k = 2 \/ k = 3 \/ k = 4 \/ k = 5 \/ k = 6 \/ k = 7
       \/ k = 8 \/ k = 9 \/ k = 10 \/ k = 11 \/ k = 12 \/ k = 13 \/ k = 14 \/ k = 15
  OBVIOUS
<1> QED
  BY <1>4, <1>5, <1>6, <1>7, <1>8, <1>9, <1>10, <1>11, <1>12, <1>13, <1>14, <1>15,
     <1>16, <1>17, <1>18, <1>19, <1>20

\* A sum of numbers is a number.
LEMMA BytesAreNumbers ==
  ASSUME NEW n
  PROVE  /\ (\A i \in 0 .. 15 : n[i] \in Nat) => LowByte(n) \in Nat /\ HighByte(n) \in Nat
         /\ (\A i \in 0 .. 15 : n[i] \in Int) => LowByte(n) \in Int /\ HighByte(n) \in Int
<1>1. ASSUME \A i \in 0 .. 15 : n[i] \in Nat
      PROVE  LowByte(n) \in Nat /\ HighByte(n) \in Nat
  <2>1. /\ n[0] \in Nat /\ n[1] \in Nat /\ n[2] \in Nat /\ n[3] \in Nat
        /\ n[4] \in Nat /\ n[5] \in Nat /\ n[6] \in Nat /\ n[7] \in Nat
    BY <1>1
  <2>2. /\ n[8] \in Nat /\ n[9] \in Nat /\ n[10] \in Nat /\ n[11] \in Nat
        /\ n[12] \in Nat /\ n[13] \in Nat /\ n[14] \in Nat /\ n[15] \in Nat
    BY <1>1
  <2>3. LowByte(n) \in Nat
    BY <2>1 DEF LowByte
  <2>4. HighByte(n) \in Nat
    BY <2>2 DEF HighByte
  <2> QED
    BY <2>3, <2>4
<1>2. ASSUME \A i \in 0 .. 15 : n[i] \in Int
      PROVE  LowByte(n) \in Int /\ HighByte(n) \in Int
  <2>1. /\ n[0] \in Int /\ n[1] \in Int /\ n[2] \in Int /\ n[3] \in Int
        /\ n[4] \in Int /\ n[5] \in Int /\ n[6] \in Int /\ n[7] \in Int
    BY <1>2
  <2>2. /\ n[8] \in Int /\ n[9] \in Int /\ n[10] \in Int /\ n[11] \in Int
        /\ n[12] \in Int /\ n[13] \in Int /\ n[14] \in Int /\ n[15] \in Int
    BY <1>2
  <2>3. LowByte(n) \in Int
    BY <2>1 DEF LowByte
  <2>4. HighByte(n) \in Int
    BY <2>2 DEF HighByte
  <2> QED
    BY <2>3, <2>4
<1> QED
  BY <1>1, <1>2

\* Two digits that agree below bit k, on the same carry: bit k of the sum tells
\* the parity of what they add there.
LEMMA DigitTells ==
  ASSUME NEW c \in [0 .. 15 -> Nat], NEW d \in [0 .. 15 -> Nat], NEW q \in Nat,
         NEW k \in 0 .. 15,
         \A i \in 0 .. 15 : i < k => c[i] = d[i]
  PROVE  SameBit(q + WrittenOut(c), q + WrittenOut(d), k) <=> c[k] % 2 = d[k] % 2
<1> DEFINE e == [i \in 0 .. 15 |-> c[i] - d[i]]
           Differ(h) == WrittenOut(e) = 2^k * (e[k] + 2 * h)
<1>1. \A i \in 0 .. 15 : /\ e[i] = c[i] - d[i] /\ e[i] \in Int
                         /\ c[i] \in Nat /\ d[i] \in Nat
  OBVIOUS
<1>2. \A i \in 0 .. 15 : i < k => e[i] = 0
  BY <1>1
<1> HIDE DEF e
<1>3. /\ LowByte(c) \in Nat /\ LowByte(d) \in Nat /\ LowByte(e) \in Int
      /\ LowByte(c) = LowByte(d) + LowByte(e)
  <2>1. LowByte(c) \in Nat
    BY <1>1, BytesAreNumbers
  <2>2. LowByte(d) \in Nat
    BY <1>1, BytesAreNumbers
  <2>3. LowByte(e) \in Int
    BY <1>1, BytesAreNumbers
  <2>4. /\ e[0] = c[0] - d[0] /\ e[1] = c[1] - d[1]
        /\ e[2] = c[2] - d[2] /\ e[3] = c[3] - d[3]
        /\ e[4] = c[4] - d[4] /\ e[5] = c[5] - d[5]
        /\ e[6] = c[6] - d[6] /\ e[7] = c[7] - d[7]
        /\ c[0] \in Nat /\ d[0] \in Nat /\ c[1] \in Nat /\ d[1] \in Nat
        /\ c[2] \in Nat /\ d[2] \in Nat /\ c[3] \in Nat /\ d[3] \in Nat
        /\ c[4] \in Nat /\ d[4] \in Nat /\ c[5] \in Nat /\ d[5] \in Nat
        /\ c[6] \in Nat /\ d[6] \in Nat /\ c[7] \in Nat /\ d[7] \in Nat
    BY <1>1
  <2>5. LowByte(c) = LowByte(d) + LowByte(e)
    BY <2>4 DEF LowByte
  <2> QED
    BY <2>1, <2>2, <2>3, <2>5
<1>4. /\ HighByte(c) \in Nat /\ HighByte(d) \in Nat /\ HighByte(e) \in Int
      /\ HighByte(c) = HighByte(d) + HighByte(e)
  <2>1. HighByte(c) \in Nat
    BY <1>1, BytesAreNumbers
  <2>2. HighByte(d) \in Nat
    BY <1>1, BytesAreNumbers
  <2>3. HighByte(e) \in Int
    BY <1>1, BytesAreNumbers
  <2>4. /\ e[8] = c[8] - d[8] /\ e[9] = c[9] - d[9]
        /\ e[10] = c[10] - d[10] /\ e[11] = c[11] - d[11]
        /\ e[12] = c[12] - d[12] /\ e[13] = c[13] - d[13]
        /\ e[14] = c[14] - d[14] /\ e[15] = c[15] - d[15]
        /\ c[8] \in Nat /\ d[8] \in Nat /\ c[9] \in Nat /\ d[9] \in Nat
        /\ c[10] \in Nat /\ d[10] \in Nat /\ c[11] \in Nat /\ d[11] \in Nat
        /\ c[12] \in Nat /\ d[12] \in Nat /\ c[13] \in Nat /\ d[13] \in Nat
        /\ c[14] \in Nat /\ d[14] \in Nat /\ c[15] \in Nat /\ d[15] \in Nat
    BY <1>1
  <2>5. HighByte(c) = HighByte(d) + HighByte(e)
    BY <2>4 DEF HighByte
  <2> QED
    BY <2>1, <2>2, <2>3, <2>5
<1>5. \E h \in Int : Differ(h)
  <2>1. e \in [0 .. 15 -> Int]
    BY DEF e
  <2> QED
    BY <1>1, <1>2, <2>1, FirstTerm
<1>6. PICK h \in Int : Differ(h)
  BY <1>5
<1> DEFINE v == q + WrittenOut(c)
           w == q + WrittenOut(d)
<1>7. v \in Nat /\ w \in Nat /\ v = w + WrittenOut(e)
  BY <1>3, <1>4 DEF WrittenOut
<1>8. v = w + 2^k * (c[k] - d[k] + 2 * h)
  BY <1>1, <1>6, <1>7
<1>9. DifferFrom(v, w, k, c[k], d[k], h)
  BY <1>8 DEF DifferFrom
<1> HIDE DEF v, w
<1> QED
  <2>1. c[k] \in Nat /\ d[k] \in Nat
    BY <1>1
  <2>2. h \in Int /\ k \in 0 .. 15 /\ v \in Nat /\ w \in Nat
    BY <1>7
  <2>3. \A n, z, t, u \in Nat :
          DifferFrom(t, u, k, n, z, h) => (SameBit(t, u, k) <=> n % 2 = z % 2)
    BY <2>2, BitTells
  <2>4. \A n, z, t \in Nat :
          DifferFrom(v, t, k, n, z, h) => (SameBit(v, t, k) <=> n % 2 = z % 2)
    BY <2>2, <2>3, Zenon
  <2> QED
    BY <2>1, <2>2, <2>4, <1>9, Zenon DEF v, w

\* Bit k of a column carried out tells the parity of what the column has there,
\* if nothing differs below.
LEMMA CarriedTells ==
  ASSUME NEW column \in Column, NEW other \in Column, NEW k \in 0 .. 63,
         \A j \in 0 .. 63 : j < k => column[j] = other[j]
  PROVE  (k \in Carried(column, 64) <=> k \in Carried(other, 64))
         <=> column[k] % 2 = other[k] % 2
<1> DEFINE g == k \div 16
           r == k % 16
           c(h) == DigitOf(column, h)
           d(h) == DigitOf(other, h)
           q(h) == Carry(column, h)
           p(h) == Carry(other, h)
<1>1. g \in 0 .. 3 /\ r \in 0 .. 15 /\ k = 16 * g + r
  OBVIOUS
<1>2. /\ k \in Carried(column, 64) <=> (DigitsBelow(column, 4)[g + 1] \div 2^r) % 2 = 1
      /\ k \in Carried(other, 64) <=> (DigitsBelow(other, 4)[g + 1] \div 2^r) % 2 = 1
  BY CarriedIsFold
<1> HIDE DEF g, r
<1>3. \A h \in 0 .. 3 : /\ Total(column, h) = q(h) + WrittenOut(c(h))
                        /\ Total(other, h) = p(h) + WrittenOut(d(h))
  BY DEF Total
<1>4. /\ \A h \in 0 .. 3 : c(h) \in [0 .. 15 -> Nat] /\ d(h) \in [0 .. 15 -> Nat]
      /\ \A h \in 0 .. 3, i \in 0 .. 15 : c(h)[i] = column[16 * h + i] /\ d(h)[i] = other[16 * h + i]
  BY WrittenOutIsNumber DEF DigitOf
<1>5. /\ q(0) = 0 /\ p(0) = 0
      /\ \A h \in 0 .. 3 :
           /\ Total(column, h) \in Nat /\ Total(other, h) \in Nat
           /\ q(h + 1) = Total(column, h) \div DigitSize
           /\ p(h + 1) = Total(other, h) \div DigitSize
           /\ DigitsBelow(column, 4)[h + 1] = Total(column, h) % DigitSize
           /\ DigitsBelow(other, 4)[h + 1] = Total(other, h) % DigitSize
  BY DigitByDigit
<1>6. \A h \in 0 .. 3 : h < g => c(h) = d(h)
  <2> SUFFICES ASSUME NEW h \in 0 .. 3, h < g
               PROVE  c(h) = d(h)
    OBVIOUS
  <2>1. \A i \in 0 .. 15 : column[16 * h + i] = other[16 * h + i]
    <3>1. \A i \in 0 .. 15 : 16 * h + i \in 0 .. 63 /\ 16 * h + i < k
      BY <1>1
    <3> QED
      BY <3>1
  <2> QED
    BY <2>1, Zenon DEF DigitOf
<1> HIDE DEF c, d, q, p
<1> DEFINE Same(h) == q(h) = p(h) /\ q(h) \in Nat
<1>7. Same(0)
  BY <1>5
<1>8. \A h \in 0 .. 3 : h < g /\ Same(h) => Same(h + 1)
  <2> SUFFICES ASSUME NEW h \in 0 .. 3, h < g, Same(h)
               PROVE  Same(h + 1)
    OBVIOUS
  <2>1. Total(column, h) = Total(other, h)
    BY <1>3, <1>6, Zenon
  <2>2. q(h + 1) = p(h + 1)
    BY <1>5, <2>1, Zenon
  <2>3. Total(column, h) \div DigitSize \in Nat
    <3>1. \A t \in Nat : t \div DigitSize \in Nat
      BY DEF DigitSize
    <3> QED
      BY <3>1, <1>5
  <2> QED
    BY <1>5, <2>2, <2>3, Zenon
<1>9. Same(g)
  <2> HIDE DEF Same
  <2>1. g = 0 \/ g = 1 \/ g = 2 \/ g = 3
    BY <1>1
  <2>2. g > 0 => Same(1)
    BY <1>7, <1>8, <1>1
  <2>3. g > 1 => Same(2)
    BY <2>2, <1>8, <1>1
  <2>4. g > 2 => Same(3)
    BY <2>3, <1>8, <1>1
  <2> QED
    BY <2>1, <2>2, <2>3, <2>4, <1>7
<1>10. /\ k \in Carried(column, 64) <=> Bit(q(g) + WrittenOut(c(g)), r) = 1
       /\ k \in Carried(other, 64) <=> Bit(q(g) + WrittenOut(d(g)), r) = 1
  <2>1. /\ DigitsBelow(column, 4)[g + 1] = (q(g) + WrittenOut(c(g))) % DigitSize
        /\ DigitsBelow(other, 4)[g + 1] = (q(g) + WrittenOut(d(g))) % DigitSize
    BY <1>1, <1>3, <1>5, <1>9, Zenon
  <2> QED
    BY <2>1, <1>2, Zenon DEF Bit
<1>11. \A i \in 0 .. 15 : i < r => c(g)[i] = d(g)[i]
  <2> SUFFICES ASSUME NEW i \in 0 .. 15, i < r
               PROVE  c(g)[i] = d(g)[i]
    OBVIOUS
  <2>1. 16 * g + i \in 0 .. 63 /\ 16 * g + i < k
    BY <1>1
  <2> QED
    BY <1>1, <1>4, <2>1
<1>12. SameBit(q(g) + WrittenOut(c(g)), q(g) + WrittenOut(d(g)), r)
         <=> c(g)[r] % 2 = d(g)[r] % 2
  <2>1. c(g) \in [0 .. 15 -> Nat] /\ d(g) \in [0 .. 15 -> Nat] /\ q(g) \in Nat
    BY <1>1, <1>4, <1>9
  <2> QED
    BY <1>1, <1>11, <2>1, DigitTells
<1>13. c(g)[r] = column[k] /\ d(g)[r] = other[k]
  BY <1>1, <1>4
<1> QED
  BY <1>10, <1>12, <1>13, Zenon DEF SameBit

\* The number that eight bits make, or the lower ones of them.
LEMMA LowBits ==
  ASSUME NEW c, \A i \in 0 .. 15 : c[i] \in 0 .. 1
  PROVE  /\ LowByte(c) \in Int /\ LowByte(c) >= 0 /\ LowByte(c) <= 255
         /\ c[7] = 0 => LowByte(c) <= 127
         /\ c[6] = 0 /\ c[7] = 0 => LowByte(c) <= 63
         /\ c[5] = 0 /\ c[6] = 0 /\ c[7] = 0 => LowByte(c) <= 31
         /\ c[4] = 0 /\ c[5] = 0 /\ c[6] = 0 /\ c[7] = 0 => LowByte(c) <= 15
         /\ c[3] = 0 /\ c[4] = 0 /\ c[5] = 0 /\ c[6] = 0 /\ c[7] = 0 => LowByte(c) <= 7
         /\ c[2] = 0 /\ c[3] = 0 /\ c[4] = 0 /\ c[5] = 0 /\ c[6] = 0 /\ c[7] = 0
              => LowByte(c) <= 3
         /\ c[1] = 0 /\ c[2] = 0 /\ c[3] = 0 /\ c[4] = 0 /\ c[5] = 0 /\ c[6] = 0 /\ c[7] = 0
              => LowByte(c) <= 1
         /\ c[0] = 0 /\ c[1] = 0 /\ c[2] = 0 /\ c[3] = 0 /\ c[4] = 0 /\ c[5] = 0 /\ c[6] = 0 /\ c[7] = 0
              => LowByte(c) <= 0
<1>1. \A p, q, r, s, t, u, v, w \in 0 .. 1 :
        LET n == p + 2 * q + 4 * r + 8 * s + 16 * t + 32 * u + 64 * v + 128 * w
        IN  /\ n \in Int /\ n >= 0 /\ n <= 255
            /\ w = 0 => n <= 127
            /\ v = 0 /\ w = 0 => n <= 63
            /\ u = 0 /\ v = 0 /\ w = 0 => n <= 31
            /\ t = 0 /\ u = 0 /\ v = 0 /\ w = 0 => n <= 15
            /\ s = 0 /\ t = 0 /\ u = 0 /\ v = 0 /\ w = 0 => n <= 7
            /\ r = 0 /\ s = 0 /\ t = 0 /\ u = 0 /\ v = 0 /\ w = 0 => n <= 3
            /\ q = 0 /\ r = 0 /\ s = 0 /\ t = 0 /\ u = 0 /\ v = 0 /\ w = 0 => n <= 1
            /\ p = 0 /\ q = 0 /\ r = 0 /\ s = 0 /\ t = 0 /\ u = 0 /\ v = 0 /\ w = 0
                 => n <= 0
  OBVIOUS
<1>2. /\ c[0] \in 0 .. 1 /\ c[1] \in 0 .. 1 /\ c[2] \in 0 .. 1 /\ c[3] \in 0 .. 1
      /\ c[4] \in 0 .. 1 /\ c[5] \in 0 .. 1 /\ c[6] \in 0 .. 1 /\ c[7] \in 0 .. 1
  OBVIOUS
<1> QED
  BY <1>1, <1>2 DEF LowByte

\* The same of the upper eight bits.
LEMMA HighBits ==
  ASSUME NEW c, \A i \in 0 .. 15 : c[i] \in 0 .. 1
  PROVE  /\ HighByte(c) \in Int /\ HighByte(c) >= 0 /\ HighByte(c) <= 65280
         /\ c[15] = 0 => HighByte(c) <= 32512
         /\ c[14] = 0 /\ c[15] = 0 => HighByte(c) <= 16128
         /\ c[13] = 0 /\ c[14] = 0 /\ c[15] = 0 => HighByte(c) <= 7936
         /\ c[12] = 0 /\ c[13] = 0 /\ c[14] = 0 /\ c[15] = 0 => HighByte(c) <= 3840
         /\ c[11] = 0 /\ c[12] = 0 /\ c[13] = 0 /\ c[14] = 0 /\ c[15] = 0
              => HighByte(c) <= 1792
         /\ c[10] = 0 /\ c[11] = 0 /\ c[12] = 0 /\ c[13] = 0 /\ c[14] = 0 /\ c[15] = 0
              => HighByte(c) <= 768
         /\ c[9] = 0 /\ c[10] = 0 /\ c[11] = 0 /\ c[12] = 0 /\ c[13] = 0 /\ c[14] = 0 /\ c[15] = 0
              => HighByte(c) <= 256
         /\ c[8] = 0 /\ c[9] = 0 /\ c[10] = 0 /\ c[11] = 0 /\ c[12] = 0 /\ c[13] = 0 /\ c[14] = 0 /\ c[15] = 0
              => HighByte(c) <= 0
<1>1. \A p, q, r, s, t, u, v, w \in 0 .. 1 :
        LET n == 256 * p + 512 * q + 1024 * r + 2048 * s
               + 4096 * t + 8192 * u + 16384 * v + 32768 * w
        IN  /\ n \in Int /\ n >= 0 /\ n <= 65280
            /\ w = 0 => n <= 32512
            /\ v = 0 /\ w = 0 => n <= 16128
            /\ u = 0 /\ v = 0 /\ w = 0 => n <= 7936
            /\ t = 0 /\ u = 0 /\ v = 0 /\ w = 0 => n <= 3840
            /\ s = 0 /\ t = 0 /\ u = 0 /\ v = 0 /\ w = 0 => n <= 1792
            /\ r = 0 /\ s = 0 /\ t = 0 /\ u = 0 /\ v = 0 /\ w = 0 => n <= 768
            /\ q = 0 /\ r = 0 /\ s = 0 /\ t = 0 /\ u = 0 /\ v = 0 /\ w = 0 => n <= 256
            /\ p = 0 /\ q = 0 /\ r = 0 /\ s = 0 /\ t = 0 /\ u = 0 /\ v = 0 /\ w = 0
                 => n <= 0
  OBVIOUS
<1>2. /\ c[8] \in 0 .. 1 /\ c[9] \in 0 .. 1 /\ c[10] \in 0 .. 1 /\ c[11] \in 0 .. 1
      /\ c[12] \in 0 .. 1 /\ c[13] \in 0 .. 1 /\ c[14] \in 0 .. 1 /\ c[15] \in 0 .. 1
  OBVIOUS
<1> QED
  BY <1>1, <1>2 DEF HighByte

\* A digit of bits, of which those from bit k on are zero.
BitsUpTo(d, k) == \A i \in 0 .. 15 : d[i] \in 0 .. 1 /\ (i >= k => d[i] = 0)

\* Bits below bit k make a number below 2^k.
LEMMA BitsBelow ==
  ASSUME NEW d, NEW k \in 0 .. 15, BitsUpTo(d, k)
  PROVE  WrittenOut(d) < 2^k
<1> DEFINE low == LowByte(d)
           high == HighByte(d)
           sum == low + high
<1>1. /\ (k <= 0 => d[0] = 0) /\ (k <= 1 => d[1] = 0) /\ (k <= 2 => d[2] = 0) /\ (k <= 3 => d[3] = 0)
      /\ (k <= 4 => d[4] = 0) /\ (k <= 5 => d[5] = 0) /\ (k <= 6 => d[6] = 0) /\ (k <= 7 => d[7] = 0)
      /\ (k <= 8 => d[8] = 0) /\ (k <= 9 => d[9] = 0) /\ (k <= 10 => d[10] = 0) /\ (k <= 11 => d[11] = 0)
      /\ (k <= 12 => d[12] = 0) /\ (k <= 13 => d[13] = 0) /\ (k <= 14 => d[14] = 0) /\ (k <= 15 => d[15] = 0)
  BY DEF BitsUpTo
<1>2. low \in Int /\ high \in Int /\ low <= 255
  <2>1. \A i \in 0 .. 15 : d[i] \in 0 .. 1
    BY DEF BitsUpTo
  <2> QED
    BY <2>1, LowBits, HighBits
<1>3. /\ (k <= 0 => low <= 0) /\ (k <= 1 => low <= 1)
      /\ (k <= 2 => low <= 3) /\ (k <= 3 => low <= 7)
      /\ (k <= 4 => low <= 15) /\ (k <= 5 => low <= 31)
      /\ (k <= 6 => low <= 63) /\ (k <= 7 => low <= 127)
  <2>1. \A i \in 0 .. 15 : d[i] \in 0 .. 1
    BY DEF BitsUpTo
  <2> QED
    BY <1>1, <2>1, LowBits
<1>4. /\ (k <= 8 => high <= 0) /\ (k <= 9 => high <= 256)
      /\ (k <= 10 => high <= 768) /\ (k <= 11 => high <= 1792)
      /\ (k <= 12 => high <= 3840) /\ (k <= 13 => high <= 7936)
      /\ (k <= 14 => high <= 16128) /\ (k <= 15 => high <= 32512)
  <2>1. \A i \in 0 .. 15 : d[i] \in 0 .. 1
    BY DEF BitsUpTo
  <2> QED
    BY <1>1, <2>1, HighBits
<1>21. WrittenOut(d) = sum
  BY DEF WrittenOut
<1> HIDE DEF low, high
<1>5. CASE k = 0
  <2>1. sum < 1
    BY <1>2, <1>3, <1>4, <1>5
  <2>2. 2^k = 1
    BY <1>5, Powers
  <2> QED
    BY <1>2, <1>21, <2>1, <2>2
<1>6. CASE k = 1
  <2>1. sum < 2
    BY <1>2, <1>3, <1>4, <1>6
  <2>2. 2^k = 2
    BY <1>6, Powers
  <2> QED
    BY <1>2, <1>21, <2>1, <2>2
<1>7. CASE k = 2
  <2>1. sum < 4
    BY <1>2, <1>3, <1>4, <1>7
  <2>2. 2^k = 4
    BY <1>7, Powers
  <2> QED
    BY <1>2, <1>21, <2>1, <2>2
<1>8. CASE k = 3
  <2>1. sum < 8
    BY <1>2, <1>3, <1>4, <1>8
  <2>2. 2^k = 8
    BY <1>8, Powers
  <2> QED
    BY <1>2, <1>21, <2>1, <2>2
<1>9. CASE k = 4
  <2>1. sum < 16
    BY <1>2, <1>3, <1>4, <1>9
  <2>2. 2^k = 16
    BY <1>9, Powers
  <2> QED
    BY <1>2, <1>21, <2>1, <2>2
<1>10. CASE k = 5
  <2>1. sum < 32
    BY <1>2, <1>3, <1>4, <1>10
  <2>2. 2^k = 32
    BY <1>10, Powers
  <2> QED
    BY <1>2, <1>21, <2>1, <2>2
<1>11. CASE k = 6
  <2>1. sum < 64
    BY <1>2, <1>3, <1>4, <1>11
  <2>2. 2^k = 64
    BY <1>11, Powers
  <2> QED
    BY <1>2, <1>21, <2>1, <2>2
<1>12. CASE k = 7
  <2>1. sum < 128
    BY <1>2, <1>3, <1>4, <1>12
  <2>2. 2^k = 128
    BY <1>12, Powers
  <2> QED
    BY <1>2, <1>21, <2>1, <2>2
<1>13. CASE k = 8
  <2>1. sum < 256
    BY <1>2, <1>3, <1>4, <1>13
  <2>2. 2^k = 256
    BY <1>13, Powers
  <2> QED
    BY <1>2, <1>21, <2>1, <2>2
<1>14. CASE k = 9
  <2>1. sum < 512
    BY <1>2, <1>3, <1>4, <1>14
  <2>2. 2^k = 512
    BY <1>14, Powers
  <2> QED
    BY <1>2, <1>21, <2>1, <2>2
<1>15. CASE k = 10
  <2>1. sum < 1024
    BY <1>2, <1>3, <1>4, <1>15
  <2>2. 2^k = 1024
    BY <1>15, Powers
  <2> QED
    BY <1>2, <1>21, <2>1, <2>2
<1>16. CASE k = 11
  <2>1. sum < 2048
    BY <1>2, <1>3, <1>4, <1>16
  <2>2. 2^k = 2048
    BY <1>16, Powers
  <2> QED
    BY <1>2, <1>21, <2>1, <2>2
<1>17. CASE k = 12
  <2>1. sum < 4096
    BY <1>2, <1>3, <1>4, <1>17
  <2>2. 2^k = 4096
    BY <1>17, Powers
  <2> QED
    BY <1>2, <1>21, <2>1, <2>2
<1>18. CASE k = 13
  <2>1. sum < 8192
    BY <1>2, <1>3, <1>4, <1>18
  <2>2. 2^k = 8192
    BY <1>18, Powers
  <2> QED
    BY <1>2, <1>21, <2>1, <2>2
<1>19. CASE k = 14
  <2>1. sum < 16384
    BY <1>2, <1>3, <1>4, <1>19
  <2>2. 2^k = 16384
    BY <1>19, Powers
  <2> QED
    BY <1>2, <1>21, <2>1, <2>2
<1>20. CASE k = 15
  <2>1. sum < 32768
    BY <1>2, <1>3, <1>4, <1>20
  <2>2. 2^k = 32768
    BY <1>20, Powers
  <2> QED
    BY <1>2, <1>21, <2>1, <2>2
<1>22. k = 0 \/ k = 1 \/ k = 2 \/ k = 3 \/ k = 4 \/ k = 5 \/ k = 6 \/ k = 7
       \/ k = 8 \/ k = 9 \/ k = 10 \/ k = 11 \/ k = 12 \/ k = 13 \/ k = 14 \/ k = 15
  OBVIOUS
<1> QED
  BY <1>5, <1>6, <1>7, <1>8, <1>9, <1>10, <1>11, <1>12, <1>13, <1>14, <1>15, <1>16, <1>17,
     <1>18, <1>19, <1>20, <1>22

\* A digit of bits is written with these bits, and leaves no carry.
LEMMA BitsOfDigit ==
  ASSUME NEW c \in [0 .. 15 -> {0, 1}]
  PROVE  /\ WrittenOut(c) \in Nat /\ WrittenOut(c) < DigitSize
         /\ \A k \in 0 .. 15 : Bit(WrittenOut(c), k) = 1 <=> c[k] = 1
<1>1. WrittenOut(c) \in Nat /\ WrittenOut(c) < DigitSize
  <2>1. \A i \in 0 .. 15 : c[i] \in 0 .. 1
    OBVIOUS
  <2>2. /\ LowByte(c) \in Int /\ LowByte(c) >= 0 /\ LowByte(c) <= 255
        /\ HighByte(c) \in Int /\ HighByte(c) >= 0 /\ HighByte(c) <= 65280
    BY <2>1, LowBits, HighBits
  <2>3. LowByte(c) + HighByte(c) \in Nat /\ LowByte(c) + HighByte(c) < 65536
    BY <2>2
  <2> QED
    BY <2>3 DEF WrittenOut, DigitSize
<1>2. ASSUME NEW k \in 0 .. 15
      PROVE  Bit(WrittenOut(c), k) = 1 <=> c[k] = 1
  <2> DEFINE d == [i \in 0 .. 15 |-> IF i < k THEN c[i] ELSE 0]
  <2>1. /\ c \in [0 .. 15 -> Nat] /\ d \in [0 .. 15 -> Nat]
        /\ \A i \in 0 .. 15 : i < k => c[i] = d[i]
        /\ BitsUpTo(d, k)
        /\ d[k] = 0 /\ c[k] \in {0, 1}
    BY DEF BitsUpTo
  <2> HIDE DEF d
  <2>2. SameBit(0 + WrittenOut(c), 0 + WrittenOut(d), k) <=> c[k] % 2 = d[k] % 2
    BY <2>1, DigitTells
  <2>3. WrittenOut(d) < 2^k
    BY <2>1, BitsBelow
  <2>4. WrittenOut(d) \in Nat /\ WrittenOut(c) \in Nat
    BY <2>1, BytesAreNumbers DEF WrittenOut
  <2>5. Bit(WrittenOut(d), k) = 0
    <3>1. Bit(WrittenOut(d), k) = (WrittenOut(d) \div 2^k) % 2 /\ 2^k \in Nat \ {0}
      BY <2>4, BitOfNumber
    <3>2. \A n \in Nat, m \in Nat \ {0} : n < m => n \div m = 0
      OBVIOUS
    <3>3. WrittenOut(d) \div 2^k = 0
      BY <2>3, <2>4, <3>1, <3>2
    <3> QED
      BY <3>1, <3>3
  <2>6. 0 + WrittenOut(c) = WrittenOut(c) /\ 0 + WrittenOut(d) = WrittenOut(d)
    BY <2>4
  <2>7. SameBit(WrittenOut(c), WrittenOut(d), k) <=> c[k] % 2 = d[k] % 2
    BY <2>2, <2>6
  <2> QED
    BY <2>1, <2>5, <2>7 DEF SameBit
<1> QED
  BY <1>1, <1>2

\* The column of a word.
BitsOf(x) == [k \in Bits |-> IF k \in x THEN 1 ELSE 0]

\* A word is its own column carried out.
LEMMA CarriedOfBits ==
  ASSUME NEW x \in SUBSET Bits
  PROVE  BitsOf(x) \in Column /\ Carried(BitsOf(x), 64) = x
<1> DEFINE column == BitsOf(x)
           c(h) == DigitOf(column, h)
<1>1. column \in Column /\ \A k \in 0 .. 63 : column[k] = IF k \in x THEN 1 ELSE 0
  BY DEF BitsOf, Column, Bits
<1> HIDE DEF column
<1>2. \A h \in 0 .. 3 : c(h) \in [0 .. 15 -> {0, 1}]
  BY <1>1 DEF DigitOf
<1>3. \A h \in 0 .. 3, i \in 0 .. 15 : c(h)[i] = column[16 * h + i]
  BY DEF DigitOf
<1> HIDE DEF c
<1>4. \A h \in 0 .. 3 : /\ WrittenOut(c(h)) \in Nat /\ WrittenOut(c(h)) < DigitSize
                         /\ \A k \in 0 .. 15 : Bit(WrittenOut(c(h)), k) = 1 <=> c(h)[k] = 1
  BY <1>2, BitsOfDigit
<1>5. /\ Carry(column, 0) = 0
      /\ \A h \in 0 .. 3 :
           /\ Total(column, h) = Carry(column, h) + WrittenOut(c(h))
           /\ Carry(column, h + 1) = Total(column, h) \div DigitSize
           /\ DigitsBelow(column, 4)[h + 1] = Total(column, h) % DigitSize
  BY <1>1, DigitByDigit DEF Total, c
<1>6. \A h \in 0 .. 3 : Carry(column, h) = 0 => Carry(column, h + 1) = 0
                                             /\ Total(column, h) = WrittenOut(c(h))
  <2>1. \A t \in Nat : t < DigitSize => t \div DigitSize = 0 /\ 0 + t = t
    BY DEF DigitSize
  <2> QED
    BY <1>4, <1>5, <2>1, Zenon
<1>7. \A h \in 0 .. 3 : Carry(column, h) = 0
  <2>1. Carry(column, 1) = 0
    BY <1>5, <1>6
  <2>2. Carry(column, 2) = 0
    BY <2>1, <1>6
  <2>3. Carry(column, 3) = 0
    BY <2>2, <1>6
  <2>4. \A h \in 0 .. 3 : h = 0 \/ h = 1 \/ h = 2 \/ h = 3
    OBVIOUS
  <2> QED
    BY <1>5, <2>1, <2>2, <2>3, <2>4, Zenon
<1>8. \A k \in 0 .. 63 : k \in Carried(column, 64) <=> k \in x
  <2> SUFFICES ASSUME NEW k \in 0 .. 63
               PROVE  k \in Carried(column, 64) <=> k \in x
    OBVIOUS
  <2> DEFINE g == k \div 16
             r == k % 16
  <2>1. g \in 0 .. 3 /\ r \in 0 .. 15 /\ k = 16 * g + r
    OBVIOUS
  <2>2. k \in Carried(column, 64) <=> (DigitsBelow(column, 4)[g + 1] \div 2^r) % 2 = 1
    BY CarriedIsFold
  <2> HIDE DEF g, r
  <2>3. DigitsBelow(column, 4)[g + 1] = WrittenOut(c(g)) % DigitSize
    BY <1>5, <1>6, <1>7, <2>1, Zenon
  <2>4. k \in Carried(column, 64) <=> Bit(WrittenOut(c(g)), r) = 1
    BY <2>2, <2>3, Zenon DEF Bit
  <2>5. k \in Carried(column, 64) <=> c(g)[r] = 1
    BY <1>4, <2>1, <2>4, Zenon
  <2>6. c(g)[r] = column[k]
    BY <1>3, <2>1
  <2> QED
    BY <1>1, <2>5, <2>6
<1>9. Carried(column, 64) \subseteq 0 .. 63
  BY CarriedIsFold
<1>10. Carried(column, 64) = x
  BY <1>8, <1>9 DEF Bits
<1> QED
  BY <1>1, <1>10 DEF column

---------------------------------------------------------------------------
(* Sums, products, shifts: nothing is lost. *)

\* A word that is shifted by a third of its width or more, and added to itself
\* bit by bit, can be told from the result (seeded.go:35-37).
THEOREM ShiftsLoseNothing ==
  ASSUME NEW x \in SUBSET Bits, NEW y \in SUBSET Bits, NEW k \in 22 .. 63,
         XorShift(x, k) = XorShift(y, k)
  PROVE  x = y
<1> DEFINE Parity(z, i) == (i \in z) # (i + k \in z)
<1>1. \A z \in SUBSET Bits : \A i \in Bits : i \in XorShift(z, k) <=> Parity(z, i)
  <2> TAKE z \in SUBSET Bits
  <2> TAKE i \in Bits
  <2>1. \A j \in z : i = j - k <=> j = i + k
    BY DEF Bits
  <2>2. i + k \in z => i + k >= k
    BY DEF Bits
  <2>3. i \in ShiftRight(z, k) <=> i + k \in z
    BY <2>1, <2>2 DEF ShiftRight, Bits
  <2>4. i \in XorShift(z, k) <=> ~(i \in z <=> i \in ShiftRight(z, k))
    BY Zenon DEF XorShift, Xor
  <2> QED
    BY <2>3, <2>4
<1>2. \A i \in Bits : Parity(x, i) <=> Parity(y, i)
  BY <1>1
<1>3. \A i \in Bits : i >= 64 - k => (i \in x <=> i \in y)
  BY <1>2 DEF Bits
<1>4. \A i \in Bits : i >= 64 - 2 * k => (i \in x <=> i \in y)
  BY <1>2, <1>3 DEF Bits
<1>5. \A i \in Bits : i \in x <=> i \in y
  BY <1>2, <1>4 DEF Bits
<1> QED
  BY <1>5

\* How often the powers of two are taken in a product, and in a sum.
ProductColumn(x, y) == [k \in 0 .. 63 |-> Cardinality({j \in y : k - j \in x})]
SumColumn(x, y) ==
  [k \in Bits |-> (IF k \in x THEN 1 ELSE 0) + (IF k \in y THEN 1 ELSE 0)]

\* Products and sums are carried out, those with zero too.
LEMMA TimesIsCarried ==
  ASSUME NEW x \in SUBSET Bits, NEW y \in SUBSET Bits
  PROVE  ProductColumn(x, y) \in Column /\ Times(x, y) = Carried(ProductColumn(x, y), 64)
<1>1. IsFiniteSet(y)
  <2>1. IsFiniteSet(Bits)
    BY 0 \in Int, 63 \in Int, FS_Interval DEF Bits
  <2> QED
    BY <2>1, FS_Subset
<1>2. \A k \in 0 .. 63 : Cardinality({j \in y : k - j \in x}) \in Nat
  <2> TAKE k \in 0 .. 63
  <2>1. {j \in y : k - j \in x} \subseteq y
    OBVIOUS
  <2> QED
    BY <1>1, <2>1, FS_Subset, FS_CardinalityType
<1>3. ProductColumn(x, y) \in Column
  BY <1>2 DEF ProductColumn, Column
<1>4. 64 - 1 = 63
  OBVIOUS
<1>5. CASE x = {}
  <2>1. \A k \in 0 .. 63 : {j \in y : k - j \in x} = {}
    BY <1>5
  <2>2. ProductColumn(x, y) = BitsOf({})
    BY <2>1, FS_EmptySet DEF ProductColumn, BitsOf, Bits
  <2>3. Carried(BitsOf({}), 64) = {}
    BY CarriedOfBits
  <2>4. Times(x, y) = {}
    BY <1>5 DEF Times, Product
  <2> QED
    BY <1>3, <2>2, <2>3, <2>4
<1>6. CASE x # {}
  BY <1>3, <1>4, <1>6, Zenon DEF Times, Product, ProductColumn
<1> QED
  BY <1>5, <1>6

\* The same of sums.
LEMMA PlusIsCarried ==
  ASSUME NEW x \in SUBSET Bits, NEW y \in SUBSET Bits
  PROVE  SumColumn(x, y) \in Column /\ Plus(x, y) = Carried(SumColumn(x, y), 64)
<1>1. SumColumn(x, y) \in Column
  BY DEF SumColumn, Column, Bits
<1>2. CASE x = {}
  <2>1. SumColumn(x, y) = BitsOf(y)
    <3>1. \A k \in Bits : (IF k \in x THEN 1 ELSE 0) + (IF k \in y THEN 1 ELSE 0)
                          = IF k \in y THEN 1 ELSE 0
      BY <1>2
    <3> QED
      BY <3>1, Zenon DEF SumColumn, BitsOf
  <2>2. Carried(BitsOf(y), 64) = y
    BY CarriedOfBits
  <2> QED
    BY <1>1, <1>2, <2>1, <2>2 DEF Plus
<1>3. CASE x # {}
  BY <1>1, <1>3, Zenon DEF Plus, SumColumn
<1> QED
  BY <1>2, <1>3

\* What products and sums are is a word.
LEMMA CarriedIsWord ==
  ASSUME NEW x \in SUBSET Bits, NEW y \in SUBSET Bits
  PROVE  Times(x, y) \in SUBSET Bits /\ Plus(x, y) \in SUBSET Bits
<1>1. \A column : Carried(column, 64) \in SUBSET Bits
  BY CarriedIsFold DEF Bits
<1> QED
  BY <1>1, TimesIsCarried, PlusIsCarried

\* Words are equal if no bit is the first to differ.
LEMMA NoFirstDifference ==
  ASSUME NEW x \in SUBSET Bits, NEW y \in SUBSET Bits,
         \A k \in Bits : (\A j \in Bits : j < k => (j \in x <=> j \in y)) => (k \in x <=> k \in y)
  PROVE  x = y
<1> DEFINE S == {k \in Nat : \A j \in Bits : j < k => (j \in x <=> j \in y)}
<1>1. 0 \in S
  BY DEF Bits
<1>2. ASSUME NEW k \in Nat, k \in S
      PROVE  k + 1 \in S
  <2>1. \A j \in Bits : j < k + 1 => j < k \/ j = k
    BY DEF Bits
  <2> QED
    BY <1>2, <2>1
<1> HIDE DEF S
<1>3. \A k \in Nat : k \in S
  BY <1>1, <1>2, Induction
<1>4. 64 \in S /\ \A j \in Bits : j < 64
  BY <1>3 DEF Bits
<1>5. \A j \in Bits : j \in x <=> j \in y
  BY <1>4 DEF S
<1> QED
  BY <1>5

\* A product by an odd word tells the other factor.
LEMMA TimesIsOneToOne ==
  ASSUME NEW x \in SUBSET Bits, NEW y \in SUBSET Bits, NEW f \in SUBSET Bits, 0 \in f,
         Times(x, f) = Times(y, f)
  PROVE  x = y
<1> SUFFICES ASSUME NEW k \in Bits, \A j \in Bits : j < k => (j \in x <=> j \in y)
             PROVE  k \in x <=> k \in y
  BY NoFirstDifference
<1> DEFINE Terms(z, i) == {j \in f : i - j \in z}
           A == {j \in f \ {0} : k - j \in x}
           c == ProductColumn(x, f)
           d == ProductColumn(y, f)
<1>1. /\ c \in Column /\ Times(x, f) = Carried(c, 64)
      /\ d \in Column /\ Times(y, f) = Carried(d, 64)
  BY TimesIsCarried
<1>2. \A i \in 0 .. 63 : c[i] = Cardinality(Terms(x, i)) /\ d[i] = Cardinality(Terms(y, i))
  BY DEF ProductColumn
<1>3. k \in 0 .. 63 /\ \A i \in 0 .. 63 : i < k => Terms(x, i) = Terms(y, i)
  <2>1. \A i \in 0 .. 63, j \in f : i < k => (i - j \in x <=> i - j \in y)
    <3> SUFFICES ASSUME NEW i \in 0 .. 63, NEW j \in f, i < k
                 PROVE  i - j \in x <=> i - j \in y
      OBVIOUS
    <3>1. i - j < k /\ (i - j \in Bits \/ (i - j \notin x /\ i - j \notin y))
      BY DEF Bits
    <3> QED
      BY <3>1
  <2> QED
    BY <2>1 DEF Bits
<1> HIDE DEF c, d
<1>4. c[k] % 2 = d[k] % 2
  <2>1. \A i \in 0 .. 63 : i < k => c[i] = d[i]
    BY <1>2, <1>3
  <2>2. k \in Carried(c, 64) <=> k \in Carried(d, 64)
    BY <1>1
  <2> QED
    BY <1>1, <1>3, <2>1, <2>2, CarriedTells
<1>5. /\ Terms(x, k) = IF k \in x THEN A \cup {0} ELSE A
      /\ Terms(y, k) = IF k \in y THEN A \cup {0} ELSE A
  <2>1. \A j \in f \ {0} : j \in Bits /\ (k - j \in x <=> k - j \in y)
    BY DEF Bits
  <2>2. k - 0 = k
    BY DEF Bits
  <2> QED
    BY <2>1, <2>2
<1>6. IsFiniteSet(A) /\ 0 \notin A
  <2>1. IsFiniteSet(Bits)
    BY 0 \in Int, 63 \in Int, FS_Interval DEF Bits
  <2> QED
    BY <2>1, FS_Subset
<1>7. Cardinality(A) \in Nat /\ Cardinality(A \cup {0}) = Cardinality(A) + 1
  <2> HIDE DEF A
  <2> QED
    BY <1>6, FS_AddElement, FS_CardinalityType
<1> HIDE DEF A, Terms
<1>8. \A n \in Nat : n % 2 # (n + 1) % 2
  OBVIOUS
<1>9. /\ c[k] = IF k \in x THEN Cardinality(A) + 1 ELSE Cardinality(A)
      /\ d[k] = IF k \in y THEN Cardinality(A) + 1 ELSE Cardinality(A)
  BY <1>2, <1>3, <1>5, <1>7
<1> QED
  BY <1>4, <1>7, <1>8, <1>9

\* A sum tells its first term, if the second is known.
LEMMA PlusIsOneToOne ==
  ASSUME NEW x \in SUBSET Bits, NEW y \in SUBSET Bits, NEW z \in SUBSET Bits,
         Plus(x, z) = Plus(y, z)
  PROVE  x = y
<1> SUFFICES ASSUME NEW k \in Bits, \A j \in Bits : j < k => (j \in x <=> j \in y)
             PROVE  k \in x <=> k \in y
  BY NoFirstDifference
<1> DEFINE c == SumColumn(x, z)
           d == SumColumn(y, z)
           n == IF k \in z THEN 1 ELSE 0
<1>1. /\ c \in Column /\ Plus(x, z) = Carried(c, 64)
      /\ d \in Column /\ Plus(y, z) = Carried(d, 64)
  BY PlusIsCarried
<1>2. k \in 0 .. 63 /\ \A i \in 0 .. 63 : i < k => c[i] = d[i]
  BY DEF SumColumn, Bits
<1>3. /\ c[k] = (IF k \in x THEN 1 ELSE 0) + n
      /\ d[k] = (IF k \in y THEN 1 ELSE 0) + n
  BY DEF SumColumn
<1> HIDE DEF c, d
<1>4. c[k] % 2 = d[k] % 2
  <2>1. k \in Carried(c, 64) <=> k \in Carried(d, 64)
    BY <1>1
  <2> QED
    BY <1>1, <1>2, <2>1, CarriedTells
<1>5. n \in Nat
  OBVIOUS
<1> HIDE DEF n
<1>6. (1 + n) % 2 # (0 + n) % 2
  BY <1>5
<1> QED
  BY <1>3, <1>4, <1>6

\* What shifts and Xor make of words are words.
LEMMA WordsStayWords ==
  /\ \A x, y \in SUBSET Bits : Xor(x, y) \in SUBSET Bits
  /\ \A x \in SUBSET Bits : \A k \in {27, 30, 31} : XorShift(x, k) \in SUBSET Bits
<1>1. \A x, y \in SUBSET Bits : Xor(x, y) \in SUBSET Bits
  BY DEF Xor
<1>2. \A x \in SUBSET Bits : \A k \in {27, 30, 31} : ShiftRight(x, k) \in SUBSET Bits
  BY DEF ShiftRight, Bits
<1> QED
  BY <1>1, <1>2 DEF XorShift

\* Xor tells either side, if the other is known.
LEMMA XorIsOneToOne ==
  ASSUME NEW x, NEW y, NEW z
  PROVE  /\ Xor(x, z) = Xor(y, z) => x = y
         /\ Xor(z, x) = Xor(z, y) => x = y
<1>1. \A e : /\ e \in Xor(x, z) <=> (e \in x) # (e \in z)
             /\ e \in Xor(y, z) <=> (e \in y) # (e \in z)
             /\ e \in Xor(z, x) <=> (e \in x) # (e \in z)
             /\ e \in Xor(z, y) <=> (e \in y) # (e \in z)
  BY DEF Xor
<1> QED
  BY <1>1

\* The factors are odd, so multiplying by them loses nothing.
LEMMA FactorsAreOdd ==
  /\ Prime \in SUBSET Bits /\ 0 \in Prime
  /\ Factor1 \in SUBSET Bits /\ 0 \in Factor1
  /\ Factor2 \in SUBSET Bits /\ 0 \in Factor2
  /\ Golden \in SUBSET Bits /\ Offset \in SUBSET Bits
<1>1. \A digits : Hex(digits) \in SUBSET Bits
  BY DEF Hex
<1>2. \A digits : digits[16] \in {3, 9, 11} => 0 \in Hex(digits)
  <2> SUFFICES ASSUME NEW digits, digits[16] \in {3, 9, 11}
               PROVE  0 \in Hex(digits)
    OBVIOUS
  <2>1. 0 \in Bits /\ 16 - (0 \div 4) = 16 /\ 0 % 4 = 0
    BY DEF Bits
  <2>2. 2^0 = 1
    BY Powers
  <2>3. (digits[16] \div 1) % 2 = 1
    OBVIOUS
  <2> QED
    BY <2>1, <2>2, <2>3, Zenon DEF Hex
<1>3. 0 \in Prime
  <2> DEFINE digits == <<0,0,0,0, 0,1,0,0, 0,0,0,0, 0,1,11,3>>
  <2>1. digits[16] \in {3, 9, 11}
    OBVIOUS
  <2> HIDE DEF digits
  <2>2. 0 \in Hex(digits)
    BY <1>2, <2>1
  <2> QED
    BY <2>2, Zenon DEF Prime, digits
<1>4. 0 \in Factor1
  <2> DEFINE digits == <<11,15,5,8, 4,7,6,13, 1,12,14,4, 14,5,11,9>>
  <2>1. digits[16] \in {3, 9, 11}
    OBVIOUS
  <2> HIDE DEF digits
  <2>2. 0 \in Hex(digits)
    BY <1>2, <2>1
  <2> QED
    BY <2>2, Zenon DEF Factor1, digits
<1>5. 0 \in Factor2
  <2> DEFINE digits == <<9,4,13,0, 4,9,11,11, 1,3,3,1, 1,1,14,11>>
  <2>1. digits[16] \in {3, 9, 11}
    OBVIOUS
  <2> HIDE DEF digits
  <2>2. 0 \in Hex(digits)
    BY <1>2, <2>1
  <2> QED
    BY <2>2, Zenon DEF Factor2, digits
<1>6. /\ Prime \in SUBSET Bits /\ Factor1 \in SUBSET Bits /\ Factor2 \in SUBSET Bits
      /\ Golden \in SUBSET Bits /\ Offset \in SUBSET Bits
  BY <1>1, Zenon DEF Prime, Factor1, Factor2, Golden, Offset
<1> QED
  BY <1>3, <1>4, <1>5, <1>6

\* mix maps no two words to one: its sums, shifts and products by odd factors
\* all can be undone (seeded.go:33-38).
THEOREM MixIsOneToOne ==
  ASSUME NEW x \in SUBSET Bits, NEW y \in SUBSET Bits, mix(x) = mix(y)
  PROVE  x = y
<1> DEFINE a(z) == Plus(z, Golden)
           b(z) == XorShift(a(z), 30)
           c(z) == Times(b(z), Factor1)
           d(z) == XorShift(c(z), 27)
           e(z) == Times(d(z), Factor2)
<1>1. \A z : mix(z) = XorShift(e(z), 31)
  BY DEF mix
<1>2. \A z \in SUBSET Bits : a(z) \in SUBSET Bits /\ b(z) \in SUBSET Bits
  <2>1. \A z \in SUBSET Bits : a(z) \in SUBSET Bits
    BY FactorsAreOdd, CarriedIsWord
  <2> HIDE DEF a
  <2> QED
    BY <2>1, WordsStayWords
<1> HIDE DEF a, b
<1>3. \A z \in SUBSET Bits : c(z) \in SUBSET Bits /\ d(z) \in SUBSET Bits
  <2>1. \A z \in SUBSET Bits : c(z) \in SUBSET Bits
    BY <1>2, FactorsAreOdd, CarriedIsWord
  <2> HIDE DEF c
  <2> QED
    BY <2>1, WordsStayWords
<1> HIDE DEF c, d
<1>4. \A z \in SUBSET Bits : e(z) \in SUBSET Bits
  BY <1>3, FactorsAreOdd, CarriedIsWord
<1> HIDE DEF e
<1>5. e(x) = e(y)
  BY <1>1, <1>4, ShiftsLoseNothing
<1>6. d(x) = d(y)
  BY <1>3, <1>5, FactorsAreOdd, TimesIsOneToOne DEF e
<1>7. c(x) = c(y)
  BY <1>3, <1>6, ShiftsLoseNothing DEF d
<1>8. b(x) = b(y)
  BY <1>2, <1>7, FactorsAreOdd, TimesIsOneToOne DEF c
<1>9. a(x) = a(y)
  BY <1>2, <1>8, ShiftsLoseNothing DEF b
<1> QED
  BY <1>9, FactorsAreOdd, PlusIsOneToOne DEF a

\* mix makes words of words.
LEMMA MixIsWord ==
  ASSUME NEW x \in SUBSET Bits
  PROVE  mix(x) \in SUBSET Bits
<1>1. Plus(x, Golden) \in SUBSET Bits
  BY FactorsAreOdd, CarriedIsWord
<1>2. \A z \in SUBSET Bits : /\ Times(XorShift(z, 30), Factor1) \in SUBSET Bits
                             /\ Times(XorShift(z, 27), Factor2) \in SUBSET Bits
  <2> TAKE z \in SUBSET Bits
  <2>1. XorShift(z, 30) \in SUBSET Bits /\ XorShift(z, 27) \in SUBSET Bits
    BY WordsStayWords
  <2> QED
    BY <2>1, FactorsAreOdd, CarriedIsWord
<1> QED
  BY <1>1, <1>2, WordsStayWords DEF mix

---------------------------------------------------------------------------
(* Hashes and words. *)

WordOffset(c) == Offset
TakeByte(c, h, k) == Times(Xor(h, FromNat(c[k])), Prime)
Hashing == INSTANCE FoldLaws WITH Base <- WordOffset, Step <- TakeByte, Pick <- Max

\* The hash of the first k bytes.
HashUpTo(s, k) == Hashing!FoldUpTo(s, Len(s), k)

\* fnv1a64 takes all bytes, one after the other.
LEMMA HashIsFold ==
  ASSUME NEW s, Len(s) \in Nat, DOMAIN s = 1 .. Len(s)
  PROVE  fnv1a64(s) = HashUpTo(s, Len(s))
  BY DEF fnv1a64, FoldLeft, MapThenFoldSet, HashUpTo, Hashing!FoldUpTo, Hashing!Fold,
         Hashing!IsFold, WordOffset, TakeByte

\* Byte by byte.
LEMMA HashByteByByte ==
  ASSUME NEW s, Len(s) \in Nat
  PROVE  /\ HashUpTo(s, 0) = Offset
         /\ \A k \in 1 .. Len(s) :
              HashUpTo(s, k) = Times(Xor(HashUpTo(s, k - 1), FromNat(s[k])), Prime)
<1>1. /\ Hashing!FoldUpTo(s, Len(s), 0) = WordOffset(s)
      /\ \A k \in 1 .. Len(s) :
           Hashing!FoldUpTo(s, Len(s), k)
             = TakeByte(s, Hashing!FoldUpTo(s, Len(s), k - 1), k)
  BY Hashing!FoldIsLoop DEF Max, Hashing!Max
<1> QED
  BY <1>1 DEF WordOffset, TakeByte, HashUpTo

\* Hashes are words.
LEMMA HashIsWord ==
  ASSUME NEW s, Len(s) \in Nat, DOMAIN s = 1 .. Len(s)
  PROVE  /\ \A k \in 0 .. Len(s) : HashUpTo(s, k) \in SUBSET Bits
         /\ fnv1a64(s) \in SUBSET Bits
<1> DEFINE S == {k \in Nat : k <= Len(s) => HashUpTo(s, k) \in SUBSET Bits}
<1>1. 0 \in S
  BY HashByteByByte, FactorsAreOdd
<1>2. ASSUME NEW k \in Nat, k \in S
      PROVE  k + 1 \in S
  <2> SUFFICES ASSUME k + 1 <= Len(s)
               PROVE  HashUpTo(s, k + 1) \in SUBSET Bits
    OBVIOUS
  <2> DEFINE h == HashUpTo(s, k)
             x == Xor(h, FromNat(s[k + 1]))
  <2>1. h \in SUBSET Bits
    BY <1>2
  <2>2. FromNat(s[k + 1]) \in SUBSET Bits
    BY DEF FromNat, Bits
  <2>3. k + 1 \in 1 .. Len(s) /\ (k + 1) - 1 = k
    OBVIOUS
  <2>4. HashUpTo(s, k + 1) = Times(x, Prime)
    BY <2>3, HashByteByByte
  <2>5. x \in SUBSET Bits
    BY <2>1, <2>2, WordsStayWords
  <2> QED
    BY <2>4, <2>5, FactorsAreOdd, CarriedIsWord
<1> HIDE DEF S
<1>3. \A k \in Nat : k \in S
  BY <1>1, <1>2, Induction
<1>4. \A k \in 0 .. Len(s) : HashUpTo(s, k) \in SUBSET Bits
  BY <1>3 DEF S
<1> QED
  BY <1>4, HashIsFold

\* The lower bits of a byte are its bits.
LEMMA BytesDiffer ==
  ASSUME NEW a \in 0 .. 255, NEW b \in 0 .. 255, FromNat(a) = FromNat(b)
  PROVE  a = b
<1>1. \A i \in 0 .. 29 : (a \div 2^i) % 2 = 1 <=> (b \div 2^i) % 2 = 1
  BY DEF FromNat
<1>2. /\ a % 2 = 1 <=> b % 2 = 1
      /\ (a \div 2) % 2 = 1 <=> (b \div 2) % 2 = 1
      /\ (a \div 4) % 2 = 1 <=> (b \div 4) % 2 = 1
      /\ (a \div 8) % 2 = 1 <=> (b \div 8) % 2 = 1
      /\ (a \div 16) % 2 = 1 <=> (b \div 16) % 2 = 1
      /\ (a \div 32) % 2 = 1 <=> (b \div 32) % 2 = 1
      /\ (a \div 64) % 2 = 1 <=> (b \div 64) % 2 = 1
      /\ (a \div 128) % 2 = 1 <=> (b \div 128) % 2 = 1
  <2>1. a \div 1 = a /\ b \div 1 = b
    OBVIOUS
  <2> QED
    BY <1>1, <2>1, Powers
<1>3. \A x, y \in Nat : x \div 2 = y \div 2 /\ (x % 2 = 1 <=> y % 2 = 1) => x = y
  OBVIOUS
<1>4. \A x \in {a, b} : /\ x \div 64 \in Nat /\ (x \div 64) \div 2 = x \div 128
                        /\ x \div 32 \in Nat /\ (x \div 32) \div 2 = x \div 64
                        /\ x \div 16 \in Nat /\ (x \div 16) \div 2 = x \div 32
                        /\ x \div 8 \in Nat /\ (x \div 8) \div 2 = x \div 16
                        /\ x \div 4 \in Nat /\ (x \div 4) \div 2 = x \div 8
                        /\ x \div 2 \in Nat /\ (x \div 2) \div 2 = x \div 4
                        /\ x \in Nat
  OBVIOUS
<1>5. a \div 128 = b \div 128
  BY <1>2
<1>6. a \div 64 = b \div 64
  BY <1>2, <1>3, <1>4, <1>5
<1>7. a \div 32 = b \div 32
  BY <1>2, <1>3, <1>4, <1>6
<1>8. a \div 16 = b \div 16
  BY <1>2, <1>3, <1>4, <1>7
<1>9. a \div 8 = b \div 8
  BY <1>2, <1>3, <1>4, <1>8
<1>10. a \div 4 = b \div 4
  BY <1>2, <1>3, <1>4, <1>9
<1>11. a \div 2 = b \div 2
  BY <1>2, <1>3, <1>4, <1>10
<1> QED
  BY <1>2, <1>3, <1>4, <1>11

\* Two steps of the hash that lead to one hash.
Meet(x, byte, y, other) ==
  Times(Xor(x, FromNat(byte)), Prime) = Times(Xor(y, FromNat(other)), Prime)

\* One step of the hash tells the hash before it, if the byte is known, and the
\* byte, if the hash before it is known.
LEMMA StepLosesNothing ==
  ASSUME NEW x \in SUBSET Bits, NEW y \in SUBSET Bits,
         NEW byte \in 0 .. 255, NEW other \in 0 .. 255, Meet(x, byte, y, other)
  PROVE  /\ byte = other => x = y
         /\ x = y => byte = other
<1>1. FromNat(byte) \in SUBSET Bits /\ FromNat(other) \in SUBSET Bits
  BY DEF FromNat, Bits
<1>2. Xor(x, FromNat(byte)) \in SUBSET Bits /\ Xor(y, FromNat(other)) \in SUBSET Bits
  BY <1>1, WordsStayWords
<1>3. Xor(x, FromNat(byte)) = Xor(y, FromNat(other))
  BY <1>2, FactorsAreOdd, TimesIsOneToOne DEF Meet
<1>4. byte = other => x = y
  BY <1>3, XorIsOneToOne
<1>5. x = y => FromNat(byte) = FromNat(other)
  BY <1>3, XorIsOneToOne
<1> QED
  BY <1>4, <1>5, BytesDiffer

\* Texts of one length that differ in one byte have different hashes, whatever
\* comes before it and after it (seeded.go:14-28).
THEOREM OneByteTells ==
  ASSUME NEW s \in Seq(0 .. 255), NEW t \in Seq(0 .. 255), Len(s) = Len(t),
         NEW i \in 1 .. Len(s), s[i] # t[i], \A k \in 1 .. Len(s) : k # i => s[k] = t[k]
  PROVE  fnv1a64(s) # fnv1a64(t)
<1> DEFINE n == Len(s)
           g(k) == HashUpTo(s, k)
           h(k) == HashUpTo(t, k)
           S == {k \in Nat : k <= n => (g(k) = h(k) <=> k < i)}
<1>1. /\ n \in Nat /\ DOMAIN s = 1 .. n /\ DOMAIN t = 1 .. n /\ Len(t) = n
      /\ \A k \in 1 .. n : s[k] \in 0 .. 255 /\ t[k] \in 0 .. 255
  BY LenProperties, ElementOfSeq
<1>2. \A k \in 0 .. n : g(k) \in SUBSET Bits /\ h(k) \in SUBSET Bits
  BY <1>1, HashIsWord
<1>3. /\ g(0) = h(0)
      /\ \A k \in 1 .. n : /\ g(k) = Times(Xor(g(k - 1), FromNat(s[k])), Prime)
                           /\ h(k) = Times(Xor(h(k - 1), FromNat(t[k])), Prime)
  BY <1>1, HashByteByByte
<1>4. fnv1a64(s) = g(n) /\ fnv1a64(t) = h(n)
  BY <1>1, HashIsFold
<1> HIDE DEF g, h, n, S
<1>5. 0 \in S
  BY <1>3 DEF n, S
<1>6. ASSUME NEW k \in Nat, k \in S
      PROVE  k + 1 \in S
  <2> SUFFICES ASSUME k + 1 <= n
               PROVE  g(k + 1) = h(k + 1) <=> k + 1 < i
    BY DEF S
  <2>1. k \in 0 .. n /\ k + 1 \in 1 .. n /\ (k + 1) - 1 = k
    BY <1>1
  <2>2. /\ g(k + 1) = Times(Xor(g(k), FromNat(s[k + 1])), Prime)
        /\ h(k + 1) = Times(Xor(h(k), FromNat(t[k + 1])), Prime)
    BY <1>3, <2>1
  <2>3. g(k) = h(k) <=> k < i
    BY <1>6, <2>1 DEF S
  <2>4. g(k + 1) = h(k + 1) => /\ s[k + 1] = t[k + 1] => g(k) = h(k)
                               /\ g(k) = h(k) => s[k + 1] = t[k + 1]
    <3>1. /\ g(k) \in SUBSET Bits /\ h(k) \in SUBSET Bits
          /\ s[k + 1] \in 0 .. 255 /\ t[k + 1] \in 0 .. 255
      BY <1>1, <1>2, <2>1
    <3>2. ASSUME g(k + 1) = h(k + 1)
          PROVE  /\ s[k + 1] = t[k + 1] => g(k) = h(k)
                 /\ g(k) = h(k) => s[k + 1] = t[k + 1]
      <4>1. Meet(g(k), s[k + 1], h(k), t[k + 1])
        BY <2>2, <3>2 DEF Meet
      <4> QED
        <5>1. \A x, y \in SUBSET Bits : \A byte, other \in 0 .. 255 :
                Meet(x, byte, y, other) => (byte = other => x = y) /\ (x = y => byte = other)
          BY StepLosesNothing
        <5>2. \A byte, other \in 0 .. 255 :
                Meet(g(k), byte, h(k), other)
                  => (byte = other => g(k) = h(k)) /\ (g(k) = h(k) => byte = other)
          BY <3>1, <5>1
        <5> QED
          BY <3>1, <4>1, <5>2
    <3> QED
      BY <3>2
  <2>5. s[k + 1] = t[k + 1] <=> k + 1 # i
    BY <2>1 DEF n
  <2>6. i \in Int
    OBVIOUS
  <2>7. CASE k + 1 < i
    BY <2>2, <2>3, <2>5, <2>6, <2>7
  <2>8. CASE k + 1 = i
    BY <2>3, <2>4, <2>5, <2>6, <2>8
  <2>9. CASE k + 1 > i
    BY <2>3, <2>4, <2>5, <2>6, <2>9
  <2> QED
    BY <2>6, <2>7, <2>8, <2>9
<1>7. n \in S
  BY <1>1, <1>5, <1>6, Induction
<1>8. ~(n < i)
  BY <1>1 DEF n
<1> QED
  BY <1>1, <1>4, <1>7, <1>8 DEF S

\* A word tells any one of seed, hash of the label and counter, if the other two
\* are known.
LEMMA WordTells ==
  ASSUME NEW a \in SUBSET Bits, NEW b \in SUBSET Bits, NEW f \in SUBSET Bits,
         NEW g \in SUBSET Bits, NEW m \in SUBSET Bits, NEW n \in SUBSET Bits,
         mix(Xor(a, mix(Xor(f, mix(m))))) = mix(Xor(b, mix(Xor(g, mix(n)))))
  PROVE  /\ f = g /\ m = n => a = b
         /\ a = b /\ m = n => f = g
         /\ a = b /\ f = g => m = n
<1> DEFINE u == mix(m)
           v == mix(n)
           p == mix(Xor(f, u))
           q == mix(Xor(g, v))
<1>1. u \in SUBSET Bits /\ v \in SUBSET Bits
  BY MixIsWord
<1>2. m = n <=> u = v
  BY MixIsOneToOne
<1> HIDE DEF u, v
<1>3. Xor(f, u) \in SUBSET Bits /\ Xor(g, v) \in SUBSET Bits
  BY <1>1, WordsStayWords
<1>4. p \in SUBSET Bits /\ q \in SUBSET Bits
  BY <1>3, MixIsWord
<1>5. Xor(f, u) = Xor(g, v) <=> p = q
  BY <1>3, MixIsOneToOne
<1>6. mix(Xor(a, p)) = mix(Xor(b, q))
  BY DEF u, v
<1> HIDE DEF p, q
<1>7. Xor(a, p) \in SUBSET Bits /\ Xor(b, q) \in SUBSET Bits
  BY <1>4, WordsStayWords
<1>8. Xor(a, p) = Xor(b, q)
  BY <1>6, <1>7, MixIsOneToOne
<1>9. (a = b => p = q) /\ (p = q => a = b)
  BY <1>8, XorIsOneToOne
<1>10. /\ p = q /\ f = g => u = v
       /\ p = q /\ u = v => f = g
  BY <1>5, XorIsOneToOne
<1>11. f = g /\ u = v => p = q
  BY <1>5
<1> QED
  BY <1>2, <1>9, <1>10, <1>11

\* A label is a text.
LEMMA LabelIsText ==
  ASSUME NEW p \in Seq(0 .. 255), NEW r \in Seq(0 .. 255), NEW u \in Seq(0 .. 255)
  PROVE  Joined(p, r, u) \in Seq(0 .. 255)
<1> DEFINE B == 0 .. 255
           z == <<0>>
<1>1. p \in Seq(B) /\ r \in Seq(B) /\ u \in Seq(B)
  OBVIOUS
<1>2. z \in Seq(B)
  OBVIOUS
<1> HIDE DEF B, z
<1>3. p \o z \o r \o z \o u \in Seq(B)
  BY <1>1, <1>2, ConcatProperties
<1> QED
  BY <1>3 DEF Joined, B, z

\* No two requests of a run draw the same word for a rule and a purpose, and
\* a request does not draw the same word under two seeds: nearby counters and
\* nearby seeds included, whatever the names (seeded.go:40-46).
THEOREM RequestsDrawApart ==
  ASSUME NEW p \in Seq(0 .. 255), NEW r \in Seq(0 .. 255), NEW u \in Seq(0 .. 255),
         NEW seed \in SUBSET Bits, NEW other \in SUBSET Bits,
         NEW m \in SUBSET Bits, NEW n \in SUBSET Bits
  PROVE  /\ word(seed, p, r, u, m) = word(seed, p, r, u, n) => m = n
         /\ word(seed, p, r, u, m) = word(other, p, r, u, m) => seed = other
<1>1. fnv1a64(Joined(p, r, u)) \in SUBSET Bits
  BY LabelIsText, HashIsWord, LenProperties
<1> QED
  BY <1>1, WordTells DEF word

\* Coordinates of one seed and counter share a word only if their labels share
\* a hash (seeded.go:40-46).
THEOREM NamesDrawApart ==
  ASSUME NEW p \in Seq(0 .. 255), NEW r \in Seq(0 .. 255), NEW u \in Seq(0 .. 255),
         NEW q \in Seq(0 .. 255), NEW s \in Seq(0 .. 255), NEW v \in Seq(0 .. 255),
         NEW seed \in SUBSET Bits, NEW n \in SUBSET Bits,
         word(seed, p, r, u, n) = word(seed, q, s, v, n)
  PROVE  fnv1a64(Joined(p, r, u)) = fnv1a64(Joined(q, s, v))
<1>1. /\ fnv1a64(Joined(p, r, u)) \in SUBSET Bits
      /\ fnv1a64(Joined(q, s, v)) \in SUBSET Bits
  BY LabelIsText, HashIsWord, LenProperties
<1> QED
  BY <1>1, WordTells DEF word

\* Coordinates that differ in one letter of the rule draw different words, for
\* every seed and counter: "slow1" and "slow2" do not fire together
\* (seeded.go:40-46).
THEOREM SimilarRulesDrawApart ==
  ASSUME NEW p, NEW r, NEW s, NEW u, IsPart(p), IsPart(r), IsPart(s), IsPart(u),
         Len(r) = Len(s), NEW i \in 1 .. Len(r), r[i] # s[i],
         \A k \in 1 .. Len(r) : k # i => r[k] = s[k],
         NEW seed \in SUBSET Bits, NEW n \in SUBSET Bits
  PROVE  word(seed, p, r, u, n) # word(seed, p, s, u, n)
<1> DEFINE x == Joined(p, r, u)
           y == Joined(p, s, u)
           m == Len(p)
           l == Len(r)
           o == Len(u)
<1>1. PartsOf(x, p, r, u, m, l, o) /\ PartsOf(y, p, s, u, m, l, o)
  BY ByteByByte
<1>2. p \in Seq(0 .. 255) /\ r \in Seq(0 .. 255) /\ s \in Seq(0 .. 255) /\ u \in Seq(0 .. 255)
  BY DEF IsPart
<1>3. x \in Seq(0 .. 255) /\ y \in Seq(0 .. 255)
  BY <1>2, LabelIsText
<1>4. i \in 1 .. l /\ r[i] # s[i] /\ \A k \in 1 .. l : k # i => r[k] = s[k]
  OBVIOUS
<1> HIDE DEF x, y, m, l, o
<1>5. m \in Nat /\ l \in Nat /\ o \in Nat /\ Len(x) = m + l + o + 2 /\ Len(y) = m + l + o + 2
  BY <1>1 DEF PartsOf
<1>6. /\ \A k \in 1 .. m : x[k] = p[k] /\ y[k] = p[k]
      /\ \A k \in 1 .. l : x[m + 1 + k] = r[k] /\ y[m + 1 + k] = s[k]
      /\ \A k \in 1 .. o : x[m + l + 2 + k] = u[k] /\ y[m + l + 2 + k] = u[k]
      /\ x[m + 1] = y[m + 1] /\ x[m + l + 2] = y[m + l + 2]
  BY <1>1 DEF PartsOf
<1>7. m + 1 + i \in 1 .. Len(x) /\ x[m + 1 + i] # y[m + 1 + i]
  BY <1>4, <1>5, <1>6
<1>8. ASSUME NEW j \in 1 .. Len(x), j # m + 1 + i
      PROVE  x[j] = y[j]
  <2>1. CASE j <= m
    BY <1>5, <1>6, <2>1
  <2>2. CASE j = m + 1 \/ j = m + l + 2
    BY <1>6, <2>2
  <2>3. CASE m + 1 < j /\ j < m + l + 2
    <3> DEFINE k == j - (m + 1)
    <3>1. k \in 1 .. l /\ j = m + 1 + k /\ k # i
      BY <1>4, <1>5, <1>8, <2>3
    <3> HIDE DEF k
    <3> QED
      BY <1>4, <1>6, <3>1
  <2>4. CASE m + l + 2 < j
    <3> DEFINE k == j - (m + l + 2)
    <3>1. k \in 1 .. o /\ j = m + l + 2 + k
      BY <1>5, <2>4
    <3> HIDE DEF k
    <3> QED
      BY <1>6, <3>1
  <2>5. j \in Int
    OBVIOUS
  <2>6. j <= m \/ (j = m + 1 \/ j = m + l + 2) \/ (m + 1 < j /\ j < m + l + 2) \/ m + l + 2 < j
    <3> HIDE DEF x, y
    <3> QED
      BY ONLY <1>5, <2>5
  <2> QED
    BY <2>1, <2>2, <2>3, <2>4, <2>6
<1>9. fnv1a64(x) # fnv1a64(y)
  BY <1>3, <1>5, <1>7, <1>8, OneByteTells
<1>10. word(seed, p, r, u, n) = word(seed, p, s, u, n)
       => fnv1a64(Joined(p, r, u)) = fnv1a64(Joined(p, s, u))
  <2>1. SUFFICES ASSUME word(seed, p, r, u, n) = word(seed, p, s, u, n)
                 PROVE  fnv1a64(Joined(p, r, u)) = fnv1a64(Joined(p, s, u))
    OBVIOUS
  <2> QED
    BY ONLY <1>2, <2>1, NamesDrawApart, seed \in SUBSET Bits, n \in SUBSET Bits
<1>11. fnv1a64(Joined(p, r, u)) # fnv1a64(Joined(p, s, u))
  BY <1>9 DEF x, y
<1> QED
  BY <1>10, <1>11
=============================================================================
