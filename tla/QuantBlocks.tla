----------------------------- MODULE QuantBlocks ------------------------------
(***************************************************************************)
(* The codecs of src/ornith_quant.c and the integer dot products of        *)
(* src/ornith_qdot.c. A 32-bit float is the 31 bits of its magnitude; the  *)
(* sign is carried along. A block's elements are whole numbers whose       *)
(* extremes are multiples of the code range, so that the scales come out   *)
(* whole; they still pass through the half that stores them.               *)
(***************************************************************************)
EXTENDS Integers, Sequences, FiniteSetsExt

Bits(x, shift, width) == (x \div 2^shift) % 2^width
AbsOf(x) == IF x < 0 THEN -x ELSE x
Within(x, lo, hi) == IF x < lo THEN lo ELSE IF x > hi THEN hi ELSE x
\* lroundf(a / b), halves away from 0; 0 where the code has a zero reciprocal.
RoundDiv(a, b) ==
  IF b = 0 THEN 0
  ELSE LET q == (2 * AbsOf(a) + AbsOf(b)) \div (2 * AbsOf(b))
       IN IF (a < 0) = (b < 0) THEN q ELSE -q

(*************************** half and bfloat16 *****************************)
Infinity == 31744                       \* 0x7c00

\* The bits above shift, rounded to nearest, ties to even.
ShiftRounded(mant, shift, high) ==
  LET half == high + mant \div 2^shift
      rem == mant % 2^shift
      halfway == 2^(shift - 1)
  IN IF rem > halfway \/ (rem = halfway /\ half % 2 = 1) THEN half + 1 ELSE half

F32ToF16(x) ==
  LET e == x \div 2^23
      mant == x % 2^23
      exp == e - 127 + 15
  IN CASE e = 255 -> Infinity + (IF mant # 0 THEN 512 ELSE 0)
       [] e # 255 /\ exp >= 31 -> Infinity
       [] exp < -10 -> 0
       [] exp \in -10..0 -> ShiftRounded(mant + 2^23, 14 - exp, 0)
       [] OTHER -> ShiftRounded(mant, 13, exp * 1024)

\* A subnormal is shifted up until its leading bit is the implicit one.
F16ToF32(h) ==
  LET e == h \div 1024
      mant == h % 1024
      up == CHOOSE k \in 1..10 : mant * 2^k \in 1024..2047
  IN CASE h = 0 -> 0
       [] e = 0 /\ mant # 0 -> (113 - up) * 2^23 + (mant * 2^up - 1024) * 2^13
       [] e = 31 -> 255 * 2^23 + mant * 2^13
       [] OTHER -> (e + 112) * 2^23 + mant * 2^13

F32ToBf16(x) ==
  IF x \div 2^23 = 255 THEN x \div 2^16 ELSE (x + 32767 + ((x \div 2^16) % 2)) \div 2^16
Bf16ToF32(b) == b * 2^16

\* The float n * 2^e, for 0 < n < 2^24.
FloatOf(n, e) ==
  LET k == CHOOSE j \in 0..23 : n \in 2^j..(2^(j + 1) - 1)
  IN (k + e + 127) * 2^23 + n * 2^(23 - k) - 2^23

\* A finite half is Significand * 2^Exponent.
Significand(h) == IF h < 1024 THEN h ELSE 1024 + (h % 1024)
Exponent(h) == IF h < 1024 THEN -24 ELSE h \div 1024 - 25

\* A whole scale as the half that stores it, and back; nothing is lost up to
\* 2048.
Store(d) == IF d = 0 THEN 0 ELSE F32ToF16(FloatOf(AbsOf(d), 0))
Fetch(h) ==
  IF h = 0 THEN 0
  ELSE IF Exponent(h) >= 0 THEN Significand(h) * 2^Exponent(h)
  ELSE Significand(h) \div 2^(-Exponent(h))

(******************************* Q8_0, Q4_0 ********************************)
Row(n) == 0..(n - 1)

QuantizeQ8(x) ==
  LET d == RoundDiv(Max({AbsOf(x[j]) : j \in Row(32)}), 127)
  IN [d |-> Store(d), qs |-> [j \in Row(32) |-> Within(RoundDiv(x[j], d), -127, 127)]]

DequantizeQ8(b) == [j \in Row(32) |-> b.qs[j] * Fetch(b.d)]

\* The scale has the sign of -max, so that max itself is code 0.
QuantizeQ4(x) ==
  LET amax == Max({AbsOf(x[j]) : j \in Row(32)})
      max == x[Min({j \in Row(32) : AbsOf(x[j]) = amax})]
      d == -RoundDiv(max, 8)
      trunc(a, b) == IF b = 0 THEN 8          \* (int)(a / b + 8.5)
                     ELSE LET num == (2 * a + 17 * b) * (IF b < 0 THEN -1 ELSE 1)
                          IN IF num < 0 THEN 0 ELSE num \div (2 * AbsOf(b))
      q(j) == Within(trunc(x[j], d), 0, 15)
  IN [d |-> Store(d), negative |-> d < 0,
      qs |-> [j \in Row(16) |-> q(j) + 16 * q(j + 16)]]

DequantizeQ4(b) ==
  LET d == IF b.negative THEN -Fetch(b.d) ELSE Fetch(b.d)
  IN [i \in Row(32) |->
        ((IF i < 16 THEN b.qs[i] % 16 ELSE b.qs[i - 16] \div 16) - 8) * d]

(**************************** six-bit scales *******************************)
GetScaleMin(j, q) ==
  IF j < 4
  THEN <<q[j] % 64, q[j + 4] % 64>>
  ELSE <<(q[j + 4] % 16) + 16 * (q[j - 4] \div 64), q[j + 4] \div 16 + 16 * (q[j] \div 64)>>

\* Mutant: the high bits of the mins go where those of the scales are.
PutScaleMinSwapped(sc, mn) ==
  [i \in Row(12) |->
     CASE i < 4 -> (sc[i] % 64) + 64 * Bits(mn[i + 4], 4, 2)
       [] i \in 4..7 -> (mn[i - 4] % 64) + 64 * Bits(sc[i], 4, 2)
       [] OTHER -> (sc[i - 4] % 16) + 16 * (mn[i - 4] % 16)]

PutScaleMin(sc, mn) ==
  [i \in Row(12) |->
     CASE i < 4 -> (sc[i] % 64) + 64 * Bits(sc[i + 4], 4, 2)
       [] i \in 4..7 -> (mn[i - 4] % 64) + 64 * Bits(mn[i], 4, 2)
       [] OTHER -> (sc[i - 4] % 16) + 16 * (mn[i - 4] % 16)]

(******************************* k-quants **********************************)
QK == 256

\* Round-to-nearest codes: every one of subs sub-blocks has a scale and a min
\* in 0..top, every element a level in 0..levels.
AffineCodes(x, subs, levels, top) ==
  LET per == QK \div subs
      of(j) == {x[j * per + l] : l \in Row(per)}
      lo == [j \in Row(subs) |-> Min(of(j) \union {0})]
      span == [j \in Row(subs) |-> Max(of(j)) - lo[j]]
      d == RoundDiv(Max({span[j] : j \in Row(subs)}), levels * top)
      dmin == RoundDiv(Max({-lo[j] : j \in Row(subs)}), top)
      sc == [j \in Row(subs) |-> Within(RoundDiv(span[j], levels * d), 0, top)]
      mn == [j \in Row(subs) |-> Within(RoundDiv(-lo[j], dmin), 0, top)]
      level(i) == LET j == i \div per
                  IN Within(RoundDiv(x[i] + dmin * mn[j], d * sc[j]), 0, levels)
  IN [d |-> Store(d), dmin |-> Store(dmin), sc |-> sc, mn |-> mn,
      q |-> [i \in Row(QK) |-> level(i)]]

\* Where the level of element l of the low or high sub-block of pair g is.
LevelAt(g, l, high) == 64 * g + 32 * high + l

PackQ4K(c) ==
  [d |-> c.d, dmin |-> c.dmin, scales |-> PutScaleMin(c.sc, c.mn),
   qs |-> [b \in Row(128) |->
             c.q[LevelAt(b \div 32, b % 32, 0)] + 16 * c.q[LevelAt(b \div 32, b % 32, 1)]]]
QuantizeQ4K(x) == PackQ4K(AffineCodes(x, 8, 15, 63))

DequantizeQ4K(b) ==
  [i \in Row(QK) |->
     LET s == GetScaleMin(i \div 32, b.scales)
         byte == b.qs[32 * (i \div 64) + (i % 32)]
         q == IF i % 64 < 32 THEN byte % 16 ELSE byte \div 16
     IN Fetch(b.d) * s[1] * q - Fetch(b.dmin) * s[2]]

\* As Q4_K, with the fifth bit of sub-block j in bit j of qh.
PackQ5K(c) ==
  [d |-> c.d, dmin |-> c.dmin, scales |-> PutScaleMin(c.sc, c.mn),
   ql |-> [b \in Row(128) |->
             (c.q[LevelAt(b \div 32, b % 32, 0)] % 16)
               + 16 * (c.q[LevelAt(b \div 32, b % 32, 1)] % 16)],
   qh |-> [l \in Row(32) |->
             MapThenSumSet(LAMBDA j : 2^j * Bits(c.q[32 * j + l], 4, 1), Row(8))]]
QuantizeQ5K(x) == PackQ5K(AffineCodes(x, 8, 31, 63))

DequantizeQ5K(b) ==
  [i \in Row(QK) |->
     LET s == GetScaleMin(i \div 32, b.scales)
         byte == b.ql[32 * (i \div 64) + (i % 32)]
         q == IF i % 64 < 32 THEN byte % 16 ELSE byte \div 16
         fifth == Bits(b.qh[i % 32], 2 * (i \div 64) + (i % 64) \div 32, 1)
     IN Fetch(b.d) * s[1] * (q + 16 * fifth) - Fetch(b.dmin) * s[2]]

\* Four levels to a byte: sub-blocks 8g + half, 8g + 2 + half, ... share one.
PackQ2K(c) ==
  LET byte(g, half, l) ==
        MapThenSumSet(LAMBDA p : 4^p * c.q[16 * (8 * g + 2 * p + half) + l], Row(4))
  IN [d |-> c.d, dmin |-> c.dmin,
      scales |-> [j \in Row(16) |-> c.sc[j] + 16 * c.mn[j]],
      qs |-> [b \in Row(64) |-> byte(b \div 32, (b % 32) \div 16, b % 16)]]
QuantizeQ2K(x) == PackQ2K(AffineCodes(x, 16, 3, 15))

DequantizeQ2K(b) ==
  [i \in Row(QK) |->
     LET s == b.scales[i \div 16]
         q == Bits(b.qs[32 * (i \div 128) + (i % 32)], 2 * ((i % 128) \div 32), 2)
     IN Fetch(b.d) * (s % 16) * q - Fetch(b.dmin) * (s \div 16)]

\* Symmetric: 16 groups of 16 with a scale in 0..127, levels 0..63 about 32.
Q6Codes(x) ==
  LET amax == [g \in Row(16) |-> Max({AbsOf(x[16 * g + l]) : l \in Row(16)})]
      d == RoundDiv(Max({amax[g] : g \in Row(16)}), 32 * 127)
      sc == [g \in Row(16) |-> Within(RoundDiv(amax[g], 32 * d), 0, 127)]
      level(i) == Within(RoundDiv(x[i], d * sc[i \div 16]) + 32, 0, 63)
  IN [d |-> Store(d), sc |-> sc, q |-> [i \in Row(QK) |-> level(i)]]

PackQ6K(c) ==
  LET low(h, k, l) == (c.q[128 * h + 32 * k + l]) % 16
      high(h, k, l) == c.q[128 * h + 32 * k + l] \div 16
      qlByte(h, k, l) == low(h, k, l) + 16 * low(h, k + 2, l)
      qhByte(h, l) == MapThenSumSet(LAMBDA k : 4^k * high(h, k, l), Row(4))
  IN [d |-> c.d, scales |-> c.sc,
      ql |-> [b \in Row(128) |-> qlByte(b \div 64, (b % 64) \div 32, b % 32)],
      qh |-> [b \in Row(64) |-> qhByte(b \div 32, b % 32)]]
QuantizeQ6K(x) == PackQ6K(Q6Codes(x))

\* The level of element i, about 0.
LevelQ6K(b, i) ==
  LET h == i \div 128
      k == (i % 128) \div 32
      l == i % 32
      byte == b.ql[64 * h + 32 * (k % 2) + l]
  IN (IF k < 2 THEN byte % 16 ELSE byte \div 16) + 16 * Bits(b.qh[32 * h + l], 2 * k, 2) - 32

DequantizeQ6K(b) ==
  [i \in Row(QK) |->
     Fetch(b.d) * b.scales[8 * (i \div 128) + 2 * ((i % 128) \div 32) + (i % 32) \div 16]
       * LevelQ6K(b, i)]

(******************************* IQ2_XXS ***********************************)
Parity(s) == MapThenSumSet(LAMBDA k : Bits(s, k, 1), Row(7)) % 2

\* ksigns_iq2xs: the eighth sign makes the number of minus signs even.
KSigns(s) == s + 128 * Parity(s)

\* The seven bits kept of eight signs: with an odd number of minuses the
\* smallest magnitude changes its sign.
SignIndex(x) ==
  LET minus == {j \in Row(8) : x[j] < 0}
      least == Min({AbsOf(x[j]) : j \in Row(8)})
      weakest == Min({j \in Row(8) : AbsOf(x[j]) = least})
      flip == IF Cardinality(minus) % 2 = 0 THEN {} ELSE {weakest}
      kept == (minus \ flip) \union (flip \ minus)
  IN MapThenSumSet(LAMBDA j : 2^j, kept) % 128

\* Grid points and signs of four groups of eight, and their scale, in four
\* 16-bit words.
PackIq2(grid, signs, scale) ==
  LET low28 == MapThenSumSet(LAMBDA k : 128^k * signs[k], Row(4))
  IN <<grid[0] + 256 * grid[1], grid[2] + 256 * grid[3],
       low28 % 65536, low28 \div 65536 + 4096 * scale>>

UnpackIq2(w) ==
  LET low28 == w[3] + 65536 * (w[4] % 4096)
  IN [grid |-> [k \in Row(4) |-> Bits(w[k \div 2 + 1], 8 * (k % 2), 8)],
      signs |-> [k \in Row(4) |-> KSigns(Bits(low28, 7 * k, 7))],
      scale |-> w[4] \div 4096]

(*************************** integer dot products **************************)
\* The activations as Q8_K: levels, and their sums by sixteen. iscale * x is
\* taken as a whole number.
QuantizeRowQ8K(x) ==
  LET amax == Max({AbsOf(x[j]) : j \in Row(QK)})
      max == x[Min({j \in Row(QK) : AbsOf(x[j]) = amax})]
      qs == [j \in Row(QK) |-> Within(-RoundDiv(127 * x[j], max), -128, 127)]
  IN [qs |-> qs,
      bsums |-> [g \in Row(16) |-> MapThenSumSet(LAMBDA l : qs[16 * g + l], Row(16))]]

\* Mutant: the mins are weighted with every other partial sum.
VecDotQ4KHalfSums(b, y) ==
  LET scale(j) == GetScaleMin(j, b.scales)
      summs == MapThenSumSet(LAMBDA j : scale(j)[2] * y.bsums[2 * j], Row(8))
      acc(j) == MapThenSumSet(LAMBDA l : Bits(b.qs[32 * (j \div 2) + l], 4 * (j % 2), 4)
                                           * y.qs[32 * j + l], Row(32))
      isum == MapThenSumSet(LAMBDA j : acc(j) * scale(j)[1], Row(8))
  IN Fetch(b.d) * isum - Fetch(b.dmin) * summs

VecDotQ4K(b, y) ==
  LET scale(j) == GetScaleMin(j, b.scales)
      summs == MapThenSumSet(LAMBDA j : scale(j)[2] * (y.bsums[2 * j] + y.bsums[2 * j + 1]),
                             Row(8))
      acc(j) == MapThenSumSet(LAMBDA l : Bits(b.qs[32 * (j \div 2) + l], 4 * (j % 2), 4)
                                           * y.qs[32 * j + l], Row(32))
      isum == MapThenSumSet(LAMBDA j : acc(j) * scale(j)[1], Row(8))
  IN Fetch(b.d) * isum - Fetch(b.dmin) * summs

VecDotQ6K(b, y) ==
  LET term(h, k, l) ==
        LET i == 128 * h + 32 * k + l
        IN y.qs[i] * LevelQ6K(b, i) * b.scales[8 * h + 2 * k + l \div 16]
      quad(h, l) == term(h, 0, l) + term(h, 1, l) + term(h, 2, l) + term(h, 3, l)
  IN Fetch(b.d) * MapThenSumSet(LAMBDA h : MapThenSumSet(LAMBDA l : quad(h, l), Row(32)), Row(2))

\* Eight Q8_0 blocks under one block of activations.
VecDotQ8(bs, y) ==
  MapThenSumSet(LAMBDA s : Fetch(bs[s].d)
                  * MapThenSumSet(LAMBDA l : bs[s].qs[l] * y.qs[32 * s + l], Row(32)), Row(8))

(******************************* properties ********************************)

(***************************************************************************)
(* Half h stands for Significand(h) * 2^Exponent(h) (ornith_quant.c:45),   *)
(* and is what every float nearer to it than to h + 1 becomes; a tie goes  *)
(* to the even one (ornith_quant.c:14), also between subnormals and at the *)
(* step to infinity.                                                       *)
(***************************************************************************)
HalfIsNearest(h) ==
  LET s == Significand(h)
      e == Exponent(h)
  IN /\ h # 0 => F16ToF32(h) = FloatOf(s, e)
     /\ F32ToF16(F16ToF32(h)) = h
     /\ F32ToF16(FloatOf(4 * s + 1, e - 2)) = h
     /\ F32ToF16(FloatOf(2 * s + 1, e - 1)) = h + (h % 2)
     /\ F32ToF16(FloatOf(4 * s + 3, e - 2)) = h + 1

(***************************************************************************)
(* The same of bfloat16 (ornith_quant.c:67).                               *)
(***************************************************************************)
Bf16IsNearest(b) ==
  /\ F32ToBf16(Bf16ToF32(b)) = b
  /\ F32ToBf16(Bf16ToF32(b) + 32767) = b
  /\ F32ToBf16(Bf16ToF32(b) + 32768) = b + (b % 2)
  /\ F32ToBf16(Bf16ToF32(b) + 32769) = b + 1

\* An element may be off by half a level, by the rounding of its sub-block's
\* min, and where it is clamped by that of the scale over all levels.
AffineBound(x, y, d, dmin, scale(_), levels) ==
  \A i \in DOMAIN x : 2 * AbsOf(x[i] - y[i]) <= d * scale(i) + dmin + levels * d

(***************************************************************************)
(* Decoding an encoded block gives back every element within the rounding  *)
(* of its level and scales: the two sides agree on which bits of which     *)
(* byte hold which part of which element.                                  *)
(***************************************************************************)
Reconstructed(type, x) ==
  LET off(i, y) == AbsOf(x[i] - y[i])
      q8(b, y) == \A j \in Row(32) : 2 * off(j, y) <= Fetch(b.d)
      q4(b, y) == \A j \in Row(32) : off(j, y) <= Fetch(b.d)
      amax(g) == Max({AbsOf(x[16 * g + l]) : l \in Row(16)})
      q6k(b, y) == \A i \in Row(QK) : 16 * off(i, y) <= amax(i \div 16) + 256 * Fetch(b.d)
      q45k(b, y, levels) ==
        AffineBound(x, y, Fetch(b.d), Fetch(b.dmin),
                    LAMBDA i : GetScaleMin(i \div 32, b.scales)[1], levels)
      q4k(b) == q45k(b, DequantizeQ4K(b), 15)
      q5k(b) == q45k(b, DequantizeQ5K(b), 31)
      q2k(b) == AffineBound(x, DequantizeQ2K(b), Fetch(b.d), Fetch(b.dmin),
                            LAMBDA i : b.scales[i \div 16] % 16, 3)
  IN CASE type = "Q8_0" -> q8(QuantizeQ8(x), DequantizeQ8(QuantizeQ8(x)))
       [] type = "Q4_0" -> q4(QuantizeQ4(x), DequantizeQ4(QuantizeQ4(x)))
       [] type = "Q4_K" -> q4k(QuantizeQ4K(x))
       [] type = "Q5_K" -> q5k(QuantizeQ5K(x))
       [] type = "Q2_K" -> q2k(QuantizeQ2K(x))
       [] type = "Q6_K" -> q6k(QuantizeQ6K(x), DequantizeQ6K(QuantizeQ6K(x)))

(***************************************************************************)
(* Of eight signs packed in seven bits at most the one of the smallest     *)
(* magnitude is changed, and only when the minuses are odd in number; what *)
(* is packed beside them comes back as it was (ornith_quant.c:725-784,     *)
(* read back at :667-678).                                                 *)
(***************************************************************************)
SignsRecovered(x, grid, scale) ==
  LET word == PackIq2(grid, [k \in Row(4) |-> SignIndex([j \in Row(8) |-> x[8 * k + j]])],
                      scale)
      got == UnpackIq2(word)
      wrong(k) == {j \in Row(8) : (Bits(got.signs[k], j, 1) = 1) # (x[8 * k + j] < 0)}
      odd(k) == Cardinality({j \in Row(8) : x[8 * k + j] < 0}) % 2
  IN /\ got.grid = grid /\ got.scale = scale
     /\ \A k \in Row(4) :
          /\ Cardinality(wrong(k)) = odd(k)
          /\ \A j \in wrong(k), i \in Row(8) : AbsOf(x[8 * k + j]) <= AbsOf(x[8 * k + i])

(***************************************************************************)
(* The integer dot product of a block is the dot product of the decoded    *)
(* block with the same activations (ornith_qdot.c:9, "match                *)
(* ornith_quant.c's decoders exactly").                                    *)
(***************************************************************************)
DotsAgree(x, activations) ==
  LET dot(w, y) ==
        MapThenSumSet(LAMBDA g : MapThenSumSet(LAMBDA l : w[16 * g + l] * y.qs[16 * g + l],
                                               Row(16)), Row(16))
      slice(s) == [j \in Row(32) |-> x[32 * s + j]]
      alike(y, q4, q6, q8) ==
        /\ VecDotQ4K(q4, y) = dot(DequantizeQ4K(q4), y)
        /\ VecDotQ6K(q6, y) = dot(DequantizeQ6K(q6), y)
        /\ VecDotQ8(q8, y)
             = dot([i \in Row(QK) |-> DequantizeQ8(q8[i \div 32])[i % 32]], y)
  IN alike(QuantizeRowQ8K(activations), QuantizeQ4K(x), QuantizeQ6K(x),
           [s \in Row(8) |-> QuantizeQ8(slice(s))])
===============================================================================
