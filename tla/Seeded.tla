------------------------------- MODULE Seeded -------------------------------
(***************************************************************************)
(* internal/seeded: the draws, bit for bit.  A uint64 is the set of the    *)
(* positions of its one-bits, a text the sequence of its bytes.            *)
(***************************************************************************)
EXTENDS Integers, SequencesExt

Bits == 0 .. 63
ScaleBits == 32   \* room for the whole part of a scaled draw

FromNat(k) == {i \in 0 .. 29 : (k \div 2^i) % 2 = 1}
ToNat(x) == FoldSet(LAMBDA i, sum : sum + 2^i, 0, x)

\* A word from its sixteen hexadecimal digits.
Hex(digits) ==
  {i \in Bits : LET digit == digits[16 - (i \div 4)] IN (digit \div 2^(i % 4)) % 2 = 1}

Xor(x, y) == (x \ y) \cup (y \ x)
ShiftRight(x, k) == {i - k : i \in {j \in x : j >= k}}

\* The sum of the powers 2^k for k < n, each taken column[k] times, in binary:
\* one digit of sixteen bits after the other, the carry on top of the digits.
Carried(column, n) ==
  LET add(digits, g) ==
        LET total == Last(digits)
                     + MapThenSumSet(LAMBDA i : column[16 * g + i] * 2^i, 0 .. 15)
        IN  Append(Front(digits), total % 2^16) \o <<total \div 2^16>>
      sum == FoldLeft(add, <<0>>, [g \in 1 .. n \div 16 |-> g - 1])
  IN  {k \in 0 .. n - 1 : (sum[k \div 16 + 1] \div 2^(k % 16)) % 2 = 1}

Plus(x, y) ==
  IF x = {} THEN y
  ELSE Carried([k \in Bits |-> (IF k \in x THEN 1 ELSE 0) + (IF k \in y THEN 1 ELSE 0)], 64)

\* The lower n bits of the product of two words, of which a uint64 has 64.
Product(x, y, n) ==
  IF x = {} THEN {}
  ELSE Carried([k \in 0 .. n - 1 |-> Cardinality({j \in y : k - j \in x})], n)
Times(x, y) == Product(x, y, 64)

---------------------------------------------------------------------------
Offset == Hex(<<12,11,15,2, 9,12,14,4, 8,4,2,2, 2,3,2,5>>)
Prime  == Hex(<<0,0,0,0, 0,1,0,0, 0,0,0,0, 0,1,11,3>>)

\* Mutant of fnv1a64: FNV-1, which multiplies before it takes the byte in.
fnv1a64MultiplyFirst(s) ==
  FoldLeft(LAMBDA h, byte : Xor(Times(h, Prime), FromNat(byte)), Offset, s)

fnv1a64(s) ==
  FoldLeft(LAMBDA h, byte : Times(Xor(h, FromNat(byte)), Prime), Offset, s)

Golden  == Hex(<<9,14,3,7, 7,9,11,9, 7,15,4,10, 7,12,1,5>>)
Factor1 == Hex(<<11,15,5,8, 4,7,6,13, 1,12,14,4, 14,5,11,9>>)
Factor2 == Hex(<<9,4,13,0, 4,9,11,11, 1,3,3,1, 1,1,14,11>>)

XorShift(x, k) == Xor(x, ShiftRight(x, k))

\* Mutant of mix: one round of shift and multiplication is lost.
mixOneRound(x) == XorShift(Times(XorShift(Plus(x, Golden), 30), Factor1), 31)

mix(x) ==
  XorShift(Times(XorShift(Times(XorShift(Plus(x, Golden), 30), Factor1), 27), Factor2), 31)

\* Mutant of Joined: the parts are put together without separators.
JoinedBare(proxy, rule, purpose) == proxy \o rule \o purpose

Joined(proxy, rule, purpose) == proxy \o <<0>> \o rule \o <<0>> \o purpose

word(seed, proxy, rule, purpose, counter) ==
  mix(Xor(seed, mix(Xor(fnv1a64(Joined(proxy, rule, purpose)), mix(counter)))))

\* A draw x / 2^53 is kept as the word x * 2^11: its top 53 bits.
DrawBits(w) == {i \in w : i >= 11}

\* The draw times scale: its whole part, and the rest as a draw again.
Scaled(draw, scale) == Product(draw, FromNat(scale), 64 + ScaleBits)
Whole(draw, scale) == ToNat(ShiftRight(Scaled(draw, scale), 64))
Rest(draw, scale) == Scaled(draw, scale) \cap Bits

\* DrawInt for 0 < n < 2^20 - 1.  The product is exact here; a float64 rounds
\* it, at most up to n + 1.
DrawIntOf(draw, n) == IF Whole(draw, n + 1) > n THEN n ELSE Whole(draw, n + 1)
=============================================================================
