-------------------------- MODULE GgufProofs --------------------------
(***************************************************************************)
(* Theorems about the GGUF writer. The abstract one first, over variables  *)
(* of its own: the two ways of padding agree for every alignment, every    *)
(* list of tensor sizes and every length of the header. Then GgufWrite,    *)
(* which implements it for every input. Last, what the round trip of       *)
(* GgufRoundTrip needs: the fields of a header and how they are read.      *)
(***************************************************************************)
EXTENDS GgufWrite, FiniteSetTheorems, SequenceTheorems, TLAPS

-----------------------------------------------------------------------------
(* Rounding up.                                                              *)

\* A number lies between its quotient's multiple and the next one.
LEMMA QuotientBounds ==
  ASSUME NEW x \in Nat, NEW a \in Nat \ {0}
  PROVE  /\ x \div a \in Nat
         /\ a * (x \div a) <= x
         /\ x < a * (x \div a) + a
<1>1. x \div a \in Nat
  OBVIOUS
<1>2. a * (x \div a) <= x
  OBVIOUS
<1>3. x < a * (x \div a) + a
  OBVIOUS
<1> QED
  BY <1>1, <1>2, <1>3

\* A quotient is determined by the interval it puts its number in.
LEMMA QuotientUnique ==
  ASSUME NEW a \in Nat \ {0}, NEW q \in Nat, NEW r \in 0..(a - 1)
  PROVE  (a * q + r) \div a = q
OBVIOUS

\* Whole multiples leave no remainder.
LEMMA MultipleAligned ==
  ASSUME NEW a \in Nat \ {0}, NEW q \in Nat
  PROVE  (q * a) % a = 0
OBVIOUS

\* align_up never shrinks its argument and lands on a multiple.
LEMMA AlignUpBounds ==
  ASSUME NEW x \in Nat, NEW a \in Nat \ {0}
  PROVE  /\ AlignUp(x, a) \in Nat
         /\ AlignUp(x, a) >= x
         /\ AlignUp(x, a) % a = 0
<1> DEFINE y == x + a - 1
           d == y \div a
<1>1. y \in Nat
  OBVIOUS
<1>2. d \in Nat /\ y < a * d + a
  BY <1>1, QuotientBounds
<1>3. AlignUp(x, a) = d * a
  BY DEF AlignUp
<1>4. d * a = a * d /\ d * a \in Nat
  BY <1>2
<1>5. d * a >= x
  <2> HIDE DEF d
  <2> QED
    BY <1>2, <1>4
<1>6. (d * a) % a = 0
  BY <1>2, MultipleAligned
<1> QED
  BY <1>3, <1>4, <1>5, <1>6

\* A whole number of alignments can be taken out of align_up.
LEMMA AlignUpShift ==
  ASSUME NEW a \in Nat \ {0}, NEW q \in Nat, NEW x \in Nat
  PROVE  AlignUp(q * a + x, a) = q * a + AlignUp(x, a)
<1> DEFINE y == x + a - 1
           d == y \div a
           r == y - a * d
<1>1. y \in Nat
  OBVIOUS
<1>2. d \in Nat /\ a * d <= y /\ y < a * d + a
  BY <1>1, QuotientBounds
<1>3. r \in 0..(a - 1)
  <2>1. a * d \in Nat
    BY <1>2
  <2> HIDE DEF d, y
  <2> QED
    BY <1>1, <1>2, <2>1
<1>4. q * a + x + a - 1 = a * (q + d) + r
  <2>1. a * (q + d) = a * q + a * d /\ a * d \in Nat /\ a * q \in Nat /\ q * a = a * q
    BY <1>2
  <2> HIDE DEF d
  <2> QED
    BY <2>1
<1>5. (a * (q + d) + r) \div a = q + d
  <2> HIDE DEF d, r
  <2> QED
    BY <1>2, <1>3, QuotientUnique
<1>6. (q + d) * a = q * a + d * a
  BY <1>2
<1> QED
  BY <1>4, <1>5, <1>6 DEF AlignUp

-----------------------------------------------------------------------------
(* The layout.                                                               *)

VARIABLES aSizes, aOffs, aOff, aStart, aPos, aN, aPhase

Abs == INSTANCE GgufLayout WITH sizes <- aSizes, offs <- aOffs, off <- aOff, start <- aStart,
                                pos <- aPos, n <- aN, phase <- aPhase

\* It rounds up as the writer does.
LEMMA SameRounding == \A x, a : Abs!AlignUp(x, a) = AlignUp(x, a)
BY DEF Abs!AlignUp, AlignUp

\* The place of tensor k: its offset, or the running one if it has none yet.
Place(k) == IF k <= Len(aOffs) THEN aOffs[k] ELSE aOff

Chain ==
  /\ Place(1) = 0
  /\ \A k \in 1..Len(aOffs) : Place(k + 1) = AlignUp(Place(k) + aSizes[k], Alignment)
  /\ \A k \in 1..(Len(aOffs) + 1) : Place(k) % Alignment = 0

Written ==
  /\ \E q \in Nat : aStart = q * Alignment
  /\ aPhase = "collect" => aOffs = <<>>
  /\ aPhase \in {"collect", "index"} => aN = 0
  /\ aPhase \in {"data", "closed"} => /\ Len(aOffs) = Len(aSizes)
                                     /\ aPos = aStart + Place(aN + 1)
  /\ aPhase = "closed" => aN = Len(aSizes)

LayoutInv == Abs!TypeOK /\ Chain /\ Written

\* It holds at the start, ...
LEMMA InitLayoutInv == Abs!Init => LayoutInv
<1> SUFFICES ASSUME Abs!Init PROVE LayoutInv
  OBVIOUS
<1> USE AlignmentAssumption DEF Abs!Init
<1>1. Abs!TypeOK
  BY DEF Abs!TypeOK
<1>2. Chain
  <2>1. 0 % Alignment = 0
    BY MultipleAligned
  <2> QED
    BY <2>1 DEF Chain, Place
<1>3. Written
  <2>1. 0 = 0 * Alignment
    OBVIOUS
  <2> QED
    BY <2>1 DEF Written
<1> QED
  BY <1>1, <1>2, <1>3 DEF LayoutInv

\* ... a tensor more keeps it, ...
LEMMA AddKeepsInv == LayoutInv /\ Abs!Add => LayoutInv'
<1> SUFFICES ASSUME LayoutInv, Abs!Add PROVE LayoutInv'
  OBVIOUS
<1>1. Abs!TypeOK /\ Chain /\ Written /\ aOffs = <<>>
  BY DEF LayoutInv, Written, Abs!Add
<1>2. Abs!TypeOK'
  BY <1>1 DEF Abs!TypeOK, Abs!Add
<1>3. Chain'
  BY <1>1 DEF Chain, Place, Abs!Add
<1>4. Written'
  BY <1>1 DEF Written, Abs!Add
<1> QED
  BY <1>2, <1>3, <1>4 DEF LayoutInv

\* ... and an index record, ...
LEMMA IndexKeepsInv == LayoutInv /\ Abs!Index => LayoutInv'
<1> SUFFICES ASSUME LayoutInv, Abs!Index PROVE LayoutInv'
  OBVIOUS
<1> USE AlignmentAssumption
<1> DEFINE len == Len(aOffs)
<1>1. Abs!TypeOK /\ Chain /\ Written
  BY DEF LayoutInv
<1>2. aSizes[len + 1] \in Nat /\ aOff + aSizes[len + 1] \in Nat
  BY <1>1 DEF Abs!TypeOK, Abs!Index
<1>3. aOff' \in Nat /\ aOff' % Alignment = 0
  BY <1>2, AlignUpBounds, SameRounding DEF Abs!Index
<1>4. /\ aOffs' \in Seq(Nat) /\ Len(aOffs') = len + 1 /\ aOffs'[len + 1] = aOff
      /\ \A k \in 1..len : aOffs'[k] = aOffs[k]
  BY <1>1 DEF Abs!TypeOK, Abs!Index
<1>5. Abs!TypeOK'
  BY <1>1, <1>3, <1>4 DEF Abs!TypeOK, Abs!Index
<1>6. /\ \A k \in 1..(len + 1) : Place(k)' = Place(k)
      /\ Place(len + 2)' = aOff'
  BY <1>1, <1>4 DEF Place, Abs!TypeOK
<1>7. Chain'
  <2>1. Place(1)' = 0
    BY <1>1, <1>6 DEF Chain, Abs!TypeOK
  <2>2. ASSUME NEW k \in 1..(len + 1)
        PROVE  Place(k + 1)' = AlignUp(Place(k)' + aSizes'[k], Alignment)
    <3>1. CASE k = len + 1
      <4>1. Place(k)' = aOff /\ aSizes' = aSizes
        BY <1>1, <1>6, <3>1 DEF Place, Abs!TypeOK, Abs!Index
      <4>2. Place(k + 1)' = Place(len + 2)' /\ aOff' = AlignUp(aOff + aSizes[k], Alignment)
        BY <1>1, <3>1, SameRounding DEF Abs!Index, Abs!TypeOK, Place
      <4> QED
        BY <1>6, <4>1, <4>2
    <3>2. CASE k \in 1..len
      BY <1>1, <1>6, <3>2 DEF Chain, Abs!Index
    <3> QED
      BY <1>1, <3>1, <3>2 DEF Abs!TypeOK
  <2>3. ASSUME NEW k \in 1..(len + 2) PROVE Place(k)' % Alignment = 0
    <3>1. CASE k = len + 2
      <4>1. Place(k)' = aOff'
        BY <1>1, <1>4, <3>1 DEF Place, Abs!TypeOK
      <4> QED
        BY <1>3, <4>1
    <3>2. CASE k \in 1..(len + 1)
      BY <1>1, <1>6, <3>2 DEF Chain
    <3> QED
      BY <1>1, <3>1, <3>2 DEF Abs!TypeOK
  <2> QED
    BY <1>1, <1>4, <2>1, <2>2, <2>3 DEF Chain, Abs!TypeOK
<1>8. Written'
  BY <1>1 DEF Written, Abs!Index
<1> QED
  BY <1>5, <1>7, <1>8 DEF LayoutInv

\* Chain speaks of the index alone.
LEMMA ChainKept == Chain /\ UNCHANGED <<aSizes, aOffs, aOff>> => Chain'
BY DEF Chain, Place

\* ... the header, ...
LEMMA HeaderKeepsInv == LayoutInv /\ Abs!Header => LayoutInv'
<1> SUFFICES ASSUME LayoutInv, Abs!Header PROVE LayoutInv'
  OBVIOUS
<1> USE AlignmentAssumption
<1>1. Abs!TypeOK /\ Chain /\ Written
  BY DEF LayoutInv
<1>2. aStart' \in Nat /\ aStart' = AlignUp(aStart', Alignment)
  BY SameRounding DEF Abs!Header
<1>3. (aStart' + Alignment - 1) \div Alignment \in Nat
  <2>1. \A x \in Nat : x + Alignment - 1 \in Nat
    OBVIOUS
  <2> QED
    BY <1>2, <2>1, QuotientBounds
<1>4. \E q \in Nat : aStart' = q * Alignment
  BY <1>2, <1>3 DEF AlignUp
<1>5. aStart' \in Nat
  BY <1>2
<1>6. Abs!TypeOK'
  BY <1>1, <1>5 DEF Abs!TypeOK, Abs!Header
<1>7. Place(1)' = 0 /\ aN = 0
  BY <1>1 DEF Chain, Written, Place, Abs!Header
<1>8. Written'
  <2>1. Place(aN + 1)' = 0 /\ aN' = 0
    BY <1>7 DEF Abs!Header, Place
  <2>2. aPos' = aStart' + Place(aN + 1)'
    BY <1>5, <2>1 DEF Abs!Header
  <2>3. aPhase' = "data" /\ Len(aOffs') = Len(aSizes')
    BY DEF Abs!Header
  <2> QED
    BY <1>4, <2>1, <2>2, <2>3 DEF Written
<1> QED
  BY <1>1, <1>6, <1>8, ChainKept DEF LayoutInv, Abs!Header

\* ... a tensor's data, ...
LEMMA WriteKeepsInv == LayoutInv /\ Abs!Write => LayoutInv'
<1> SUFFICES ASSUME LayoutInv, Abs!Write PROVE LayoutInv'
  OBVIOUS
<1> USE AlignmentAssumption
<1>1. Abs!TypeOK /\ Chain /\ Written
  BY DEF LayoutInv
<1>2. PICK q \in Nat : aStart = q * Alignment
  BY <1>1 DEF Written
<1>3. Len(aOffs) = Len(aSizes) /\ aPos = aStart + Place(aN + 1) /\ aN + 1 \in 1..Len(aOffs)
  BY <1>1 DEF Abs!Write, Written, Abs!TypeOK
<1>4. Place(aN + 1) \in Nat /\ aSizes[aN + 1] \in Nat
  BY <1>1, <1>3 DEF Place, Abs!TypeOK
<1>5. Place(aN + 2) = AlignUp(Place(aN + 1) + aSizes[aN + 1], Alignment)
  BY <1>1, <1>3 DEF Chain, Abs!TypeOK
<1>6. aPos' = aStart + Place(aN + 2)
  <2>1. aPos + aSizes[aN + 1] = q * Alignment + (Place(aN + 1) + aSizes[aN + 1])
    BY <1>2, <1>3, <1>4
  <2>2. Place(aN + 1) + aSizes[aN + 1] \in Nat
    BY <1>4
  <2>3. AlignUp(q * Alignment + (Place(aN + 1) + aSizes[aN + 1]), Alignment)
          = q * Alignment + AlignUp(Place(aN + 1) + aSizes[aN + 1], Alignment)
    BY <2>2, AlignUpShift
  <2> QED
    BY <1>2, <1>5, <2>1, <2>3, SameRounding DEF Abs!Write
<1>7. aPos' \in Nat
  <2>1. aPos + aSizes[aN + 1] \in Nat
    BY <1>1, <1>4 DEF Abs!TypeOK
  <2> QED
    BY <2>1, AlignUpBounds, SameRounding DEF Abs!Write
<1>8. Abs!TypeOK'
  BY <1>1, <1>7 DEF Abs!TypeOK, Abs!Write
<1>9. Written'
  <2>1. Place(aN + 1)' = Place(aN + 2)
    BY <1>1 DEF Place, Abs!Write, Abs!TypeOK
  <2>2. aPos' = aStart' + Place(aN + 1)'
    BY <1>6, <2>1 DEF Abs!Write
  <2> QED
    BY <1>1, <1>3, <2>2 DEF Written, Abs!Write
<1> QED
  BY <1>1, <1>8, <1>9, ChainKept DEF LayoutInv, Abs!Write

\* ... hence every step.
LEMMA LayoutStep == LayoutInv /\ [Abs!Next]_(Abs!vars) => LayoutInv'
<1> SUFFICES ASSUME LayoutInv, [Abs!Next]_(Abs!vars) PROVE LayoutInv'
  OBVIOUS
<1>1. CASE Abs!Index
  BY <1>1, IndexKeepsInv
<1>2. CASE Abs!Header
  BY <1>2, HeaderKeepsInv
<1>3. CASE Abs!Write
  BY <1>3, WriteKeepsInv
<1>4. CASE Abs!Close
  <2>1. Abs!TypeOK'
    BY <1>4 DEF LayoutInv, Abs!TypeOK, Abs!Close
  <2>2. Chain'
    BY <1>4, ChainKept DEF LayoutInv, Abs!Close
  <2>3. Written'
    BY <1>4 DEF LayoutInv, Written, Abs!Close, Place
  <2> QED
    BY <2>1, <2>2, <2>3 DEF LayoutInv
<1>5. CASE Abs!Stop
  <2>1. Abs!TypeOK'
    BY <1>5 DEF LayoutInv, Abs!TypeOK, Abs!Stop
  <2>2. Chain'
    BY <1>5, ChainKept DEF LayoutInv, Abs!Stop
  <2>3. Written'
    BY <1>5 DEF LayoutInv, Written, Abs!Stop
  <2> QED
    BY <2>1, <2>2, <2>3 DEF LayoutInv
<1>6. CASE Abs!Add
  BY <1>6, AddKeepsInv
<1>7. CASE Abs!Open
  <2>1. Abs!TypeOK'
    BY <1>7 DEF LayoutInv, Abs!TypeOK, Abs!Open
  <2>2. Chain'
    BY <1>7, ChainKept DEF LayoutInv, Abs!Open
  <2>3. Written'
    BY <1>7 DEF LayoutInv, Written, Abs!Open
  <2> QED
    BY <2>1, <2>2, <2>3 DEF LayoutInv
<1>8. CASE UNCHANGED Abs!vars
  BY <1>8 DEF LayoutInv, Abs!TypeOK, Chain, Written, Place, Abs!vars
<1> QED
  BY <1>1, <1>2, <1>3, <1>4, <1>5, <1>6, <1>7, <1>8 DEF Abs!Next

\* It implies what the index promises.
LEMMA LayoutInvPromises == LayoutInv => Abs!DataWherePromised /\ Abs!Disjoint
<1> SUFFICES ASSUME LayoutInv PROVE Abs!DataWherePromised /\ Abs!Disjoint
  OBVIOUS
<1> USE AlignmentAssumption
<1>1. Abs!TypeOK /\ Chain /\ Written
  BY DEF LayoutInv
<1>2. Abs!DataWherePromised
  BY <1>1 DEF Abs!TypeOK, Written, Place, Abs!DataWherePromised
<1>3. ASSUME NEW k \in 1..(Len(aOffs) - 1) PROVE aOffs[k] + aSizes[k] <= aOffs[k + 1]
  <2>1. aOffs[k] \in Nat /\ aSizes[k] \in Nat /\ Place(k) = aOffs[k]
        /\ Place(k + 1) = aOffs[k + 1] /\ k \in 1..Len(aOffs)
    BY <1>1 DEF Abs!TypeOK, Place
  <2>2. aOffs[k + 1] = AlignUp(aOffs[k] + aSizes[k], Alignment)
    BY <1>1, <2>1 DEF Chain
  <2>3. aOffs[k] + aSizes[k] \in Nat
    BY <2>1
  <2>4. AlignUp(aOffs[k] + aSizes[k], Alignment) >= aOffs[k] + aSizes[k]
    BY <2>3, AlignUpBounds
  <2> QED
    BY <2>2, <2>4
<1>4. ASSUME NEW k \in 1..Len(aOffs) PROVE aOffs[k] % Alignment = 0
  <2>1. Place(k) % Alignment = 0
    BY <1>1 DEF Chain, Abs!TypeOK
  <2> QED
    BY <1>1, <2>1 DEF Place, Abs!TypeOK
<1>5. aStart % Alignment = 0
  BY <1>1, MultipleAligned DEF Written
<1> QED
  BY <1>2, <1>3, <1>4, <1>5 DEF Abs!Disjoint

(***************************************************************************)
(* A tensor's bytes are always where the index says, for every alignment,  *)
(* header and list of aSizes.                                               *)
(***************************************************************************)
THEOREM WriterKeepsPromises == Abs!Spec => [](Abs!DataWherePromised /\ Abs!Disjoint)
<1>1. Abs!Init => LayoutInv
  BY InitLayoutInv
<1>2. LayoutInv /\ [Abs!Next]_(Abs!vars) => LayoutInv'
  BY LayoutStep
<1>3. LayoutInv => Abs!DataWherePromised /\ Abs!Disjoint
  BY LayoutInvPromises
<1> QED
  BY <1>1, <1>2, <1>3, PTL DEF Abs!Spec

(***************************************************************************)
(* Type correctness of the layout.                                         *)
(***************************************************************************)
THEOREM LayoutTypes == Abs!Spec => []Abs!TypeOK
<1>1. Abs!Init => LayoutInv
  BY InitLayoutInv
<1>2. LayoutInv /\ [Abs!Next]_(Abs!vars) => LayoutInv'
  BY LayoutStep
<1>3. LayoutInv => Abs!TypeOK
  BY DEF LayoutInv
<1> QED
  BY <1>1, <1>2, <1>3, PTL DEF Abs!Spec
-----------------------------------------------------------------------------
(* Sequences and bytes.                                                      *)

Byte == 0..255
IsSeq(s) == \E S : s \in Seq(S)

\* Two sequences, one after the other.
LEMMA ConcatIs ==
  ASSUME NEW s, NEW t, IsSeq(s), IsSeq(t)
  PROVE  IsSeq(s \o t) /\ Len(s \o t) = Len(s) + Len(t) /\ Len(s) \in Nat /\ Len(t) \in Nat
<1>1. PICK S, T : s \in Seq(S) /\ t \in Seq(T)
  BY DEF IsSeq
<1> DEFINE U == S \cup T
<1>2. s \in Seq(U) /\ t \in Seq(U)
  BY <1>1
<1> HIDE DEF U
<1> QED BY <1>2 DEF IsSeq

\* A function from 1..n is a sequence of n.
LEMMA BuiltIs ==
  ASSUME NEW n \in Nat, NEW f, f = [k \in 1..n |-> f[k]]
  PROVE  IsSeq(f) /\ Len(f) = n /\ DOMAIN f = 1..n
<1>1. f \in Seq({f[k] : k \in 1..n}) /\ Len(f) = n
  <2> DEFINE S == {f[k] : k \in 1..n}
  <2>1. \A k \in 1..n : f[k] \in S
    OBVIOUS
  <2> HIDE DEF S
  <2>2. f \in [1..n -> S]
    BY <2>1
  <2> QED BY <2>2
<1> QED BY <1>1 DEF IsSeq

FlatOp(p, s, i) == IF i = 1 THEN p[i] ELSE s \o p[i]
Flats == INSTANCE FoldFacts WITH Op <- FlatOp

\* Sequences flattened are a sequence.
LEMMA FlattenIs ==
  ASSUME NEW U, NEW ss \in Seq(U), \A k \in 1..Len(ss) : IsSeq(ss[k])
  PROVE  IsSeq(FlattenSeq(ss))
<1> DEFINE n == Len(ss)
           r == Flats!Rec(ss, 1, n)
<1>1. n \in Nat
  OBVIOUS
<1>2. FlattenSeq(ss) = IF n = 0 THEN ss ELSE r[n]
  BY DEF FlattenSeq, Flats!Rec, FlatOp
<1>3. \A i \in 1..n : r[i] = FlatOp(ss, r[i - 1], i)
  <2>1. \A x, y : FlatOp(ss, x, 1) = FlatOp(ss, y, 1)
    BY DEF FlatOp
  <2>2. 1 \in Int /\ n \in Int
    BY <1>1
  <2> HIDE DEF n
  <2> QED BY <2>1, <2>2, Flats!RecAt
<1> HIDE DEF r
<1> DEFINE I == {m \in Nat : m \in 1..n => IsSeq(r[m])}
<1>4. 0 \in I
  OBVIOUS
<1>5. ASSUME NEW m \in Nat, m \in I PROVE m + 1 \in I
  <2>1. CASE m + 1 \notin 1..n
    BY <2>1
  <2>2. CASE m + 1 \in 1..n /\ m = 0
    <3>1. r[m + 1] = ss[1] /\ 1 \in 1..n
      BY <1>3, <2>2 DEF FlatOp
    <3> QED BY <3>1
  <2>3. CASE m + 1 \in 1..n /\ m # 0
    <3>1. m \in 1..n /\ IsSeq(r[m]) /\ IsSeq(ss[m + 1])
      BY <1>1, <1>5, <2>3
    <3>2. r[m + 1] = r[m] \o ss[m + 1]
      <4>1. m + 1 # 1 /\ (m + 1) - 1 = m
        BY <2>3
      <4>2. r[m + 1] = FlatOp(ss, r[m], m + 1)
        BY <1>3, <2>3, <4>1
      <4> QED BY <4>1, <4>2 DEF FlatOp
    <3>3. IsSeq(r[m + 1])
      BY <3>1, <3>2, ConcatIs
    <3> QED BY <3>3
  <2> QED BY <2>1, <2>2, <2>3
<1>6. n \in I
  <2> HIDE DEF I, n
  <2> QED BY <1>1, <1>4, <1>5, Flats!NatInd
<1>7. CASE n = 0
  BY <1>2, <1>7 DEF IsSeq
<1>8. CASE n # 0
  <2>1. n \in 1..n
    BY <1>1, <1>8
  <2> QED BY <1>2, <1>6, <1>8, <2>1
<1> QED BY <1>7, <1>8
-----------------------------------------------------------------------------
(* What the loader reads.                                                    *)

Places(f) == (0..Len(f)) \cup {Bad}

\* Three bytes of a file make a number.
LEMMA NumIs ==
  ASSUME NEW f \in Seq(Byte), NEW at \in Nat, at + 3 <= Len(f)
  PROVE  Num(f, at) \in Nat
<1>1. /\ at + 1 \in 1..Len(f) /\ at + 2 \in 1..Len(f) /\ at + 3 \in 1..Len(f)
  OBVIOUS
<1>2. PICK x, y, z \in Byte : x = f[at + 1] /\ y = f[at + 2] /\ z = f[at + 3]
  BY <1>1
<1>3. Num(f, at) = x + 256 * y + 65536 * z
  BY <1>2 DEF Num
<1>4. x \in Nat /\ y \in Nat /\ z \in Nat
  BY DEF Byte
<1> QED BY <1>3, <1>4

\* A reader moves on within the file or is at Bad.
LEMMA TakeIs ==
  ASSUME NEW f \in Seq(Byte), NEW at \in Places(f), NEW n \in Nat
  PROVE  /\ Take(f, at, n) \in Places(f)
         /\ Take(f, at, n) # Bad => at \in 0..Len(f) /\ Take(f, at, n) = at + n
<1>1. Len(f) \in Nat
  OBVIOUS
<1>2. CASE at = Bad
  BY <1>2 DEF Take, Holds, Places, Bad
<1>3. CASE at # Bad
  <2>1. at \in 0..Len(f)
    BY <1>3 DEF Places
  <2> QED BY <1>1, <2>1 DEF Take, Holds, Places, Bad
<1> QED BY <1>2, <1>3

\* The same of a string, which is what lies between its length and its end.
LEMMA StringIs ==
  ASSUME NEW f \in Seq(Byte), NEW at \in Places(f)
  PROVE  /\ StringEnd(f, at) \in Places(f)
         /\ StringEnd(f, at) # Bad =>
              /\ at \in 0..Len(f) /\ at + 8 <= Len(f) /\ Num(f, at) \in Nat
              /\ StringEnd(f, at) = at + 8 + Num(f, at)
              /\ StringAt(f, at) \in Seq(Byte) /\ Len(StringAt(f, at)) = Num(f, at)
<1>1. Len(f) \in Nat
  OBVIOUS
<1>2. CASE ~Holds(f, at, 8)
  BY <1>2 DEF StringEnd, Places
<1>3. CASE Holds(f, at, 8)
  <2>1. at \in 0..Len(f) /\ at \in Nat /\ at + 8 <= Len(f) /\ at + 8 \in Places(f) /\ at + 8 # Bad
    BY <1>1, <1>3 DEF Holds, Places, Bad
  <2>2. PICK n \in Nat : n = Num(f, at)
    <3>1. at + 3 <= Len(f)
      BY <1>1, <2>1
    <3> QED BY <2>1, <3>1, NumIs
  <2>3. StringEnd(f, at) = Take(f, at + 8, n)
    BY <1>3, <2>2 DEF StringEnd
  <2>4. /\ StringEnd(f, at) \in Places(f)
        /\ StringEnd(f, at) # Bad => StringEnd(f, at) = at + 8 + n
    BY <2>1, <2>3, TakeIs
  <2>5. ASSUME StringEnd(f, at) # Bad
        PROVE  SubSeq(f, at + 9, at + 8 + n) \in Seq(Byte) /\ Len(SubSeq(f, at + 9, at + 8 + n)) = n
    <3>1. at + 8 + n <= Len(f)
      BY <1>1, <2>1, <2>4, <2>5 DEF Places
    <3> QED BY <1>1, <2>1, <3>1, SubSeqProperties
  <2> QED BY <2>1, <2>2, <2>4, <2>5 DEF StringAt
<1> QED BY <1>2, <1>3

Value(f, e, deep) ==
  [t \in Nat |-> [p \in Nat \cup {Bad} |->
     IF p = Bad THEN Bad
     ELSE IF t = StringTag THEN StringEnd(f, p)
     ELSE IF t = ArrayTag
          THEN IF deep = 0 \/ ~Holds(f, p, 12) THEN Bad
               ELSE FoldLeft(LAMBDA q, k : e[Num(f, p)][q], p + 12,
                             [k \in 1..Num(f, p + 4) |-> k])
     ELSE IF ScalarSize(t) = 0 THEN Bad ELSE Take(f, p, ScalarSize(t))]]
Values == INSTANCE FoldFacts WITH Op <- Value
ElemOp(e, q, k) == e[q]
Elems == INSTANCE FoldFacts WITH Op <- ElemOp

\* The function that load_value is, one level of arrays after the other.
LEMMA ValuesAre ==
  ASSUME NEW f \in Seq(Byte)
  PROVE  /\ \A tag, at : LoadEnd(f, tag, at) = Values!Rec(f, 0, Len(f))[Len(f)][tag][at]
         /\ \A d \in 0..Len(f) : Values!Rec(f, 0, Len(f))[d]
                                   = Value(f, Values!Rec(f, 0, Len(f))[d - 1], d)
<1>1. \A tag, at : LoadEnd(f, tag, at) = Values!Rec(f, 0, Len(f))[Len(f)][tag][at]
  BY DEF LoadEnd, Values!Rec, Value
<1>2. \A x, y : Value(f, x, 0) = Value(f, y, 0)
  BY DEF Value
<1>3. 0 \in Int /\ Len(f) \in Int
  OBVIOUS
<1>4. PICK n : n = Len(f)
  OBVIOUS
<1>5. \A d \in 0..n : Values!Rec(f, 0, n)[d] = Value(f, Values!Rec(f, 0, n)[d - 1], d)
  BY <1>2, <1>3, <1>4, Values!RecAt
<1> QED BY <1>1, <1>4, <1>5

\* A scalar's size is a number.
LEMMA ScalarSizeIs == \A t : ScalarSize(t) \in Nat
BY DEF ScalarSize

Ends(f, e) == \A t \in Nat, p \in Places(f) : e[t][p] \in Places(f)

\* The end of a value, once the ends of the elements of arrays are good.
LEMMA ValueStep ==
  ASSUME NEW f \in Seq(Byte), NEW e, NEW d, d = 0 \/ Ends(f, e)
  PROVE  Ends(f, Value(f, e, d))
<1> SUFFICES ASSUME NEW t \in Nat, NEW p \in Places(f)
             PROVE  Value(f, e, d)[t][p] \in Places(f)
  BY DEF Ends
<1>1. Len(f) \in Nat /\ p \in Nat \cup {Bad} /\ Bad \in Places(f)
  BY DEF Places
<1>2. PICK v : v = Value(f, e, d)[t][p]
  OBVIOUS
<1>3. v = IF p = Bad THEN Bad
          ELSE IF t = StringTag THEN StringEnd(f, p)
          ELSE IF t = ArrayTag
               THEN IF d = 0 \/ ~Holds(f, p, 12) THEN Bad
                    ELSE FoldLeft(LAMBDA q, k : e[Num(f, p)][q], p + 12,
                                  [k \in 1..Num(f, p + 4) |-> k])
          ELSE IF ScalarSize(t) = 0 THEN Bad ELSE Take(f, p, ScalarSize(t))
  BY <1>1, <1>2 DEF Value
<1>4. CASE p = Bad
  BY <1>1, <1>2, <1>3, <1>4
<1>5. CASE p # Bad /\ t = StringTag
  BY <1>2, <1>3, <1>5, StringIs
<1>6. CASE p # Bad /\ t # StringTag /\ t # ArrayTag
  BY <1>1, <1>2, <1>3, <1>6, ScalarSizeIs, TakeIs
<1>7. CASE p # Bad /\ t = ArrayTag /\ (d = 0 \/ ~Holds(f, p, 12))
  <2>1. t # StringTag
    BY <1>7 DEF StringTag, ArrayTag
  <2>2. v = Bad
    BY <1>3, <1>7, <2>1, Zenon
  <2> QED BY <1>1, <1>2, <2>2
<1>8. CASE p # Bad /\ t = ArrayTag /\ d # 0 /\ Holds(f, p, 12)
  <2>1. p \in Nat /\ p + 12 <= Len(f)
    BY <1>1, <1>8 DEF Holds, Bad
  <2>2. PICK et, n \in Nat : et = Num(f, p) /\ n = Num(f, p + 4)
    <3>1. p + 3 <= Len(f) /\ p + 4 \in Nat /\ (p + 4) + 3 <= Len(f)
      BY <1>1, <2>1
    <3> QED BY <2>1, <3>1, NumIs
  <2> DEFINE turns == [k \in 1..Num(f, p + 4) |-> k]
  <2>3. v = Elems!Fold(e[Num(f, p)], p + 12, turns)
    <3>1. v = FoldLeft(LAMBDA q, k : e[Num(f, p)][q], p + 12, turns)
      <4>1. t # StringTag
        BY <1>8 DEF StringTag, ArrayTag
      <4> QED BY <1>3, <1>8, <4>1, Zenon
    <3> QED BY <3>1, Zenon DEF FoldLeft, MapThenFoldSet, Elems!Fold, Elems!FoldLeft,
                               Elems!MapThenFoldSet, ElemOp, Max, Elems!Max
  <2>4. turns \in Seq(1..n)
    BY <2>2
  <2> HIDE DEF turns
  <2>5. PICK X : X = Places(f)
    OBVIOUS
  <2>6. p + 12 \in X
    BY <1>1, <2>1, <2>5 DEF Places
  <2>7. ASSUME NEW x \in X, NEW k PROVE ElemOp(e[et], x, k) \in X
    BY <1>8, <2>2, <2>5 DEF ElemOp, Ends
  <2>8. Elems!Fold(e[et], p + 12, turns) \in X
    BY <2>4, <2>6, <2>7, Elems!FoldKeeps
  <2> QED BY <1>2, <2>2, <2>3, <2>5, <2>8
<1> QED BY <1>4, <1>5, <1>6, <1>7, <1>8

\* A value ends in the file.
LEMMA ValueIs ==
  ASSUME NEW f \in Seq(Byte), NEW tag \in Nat, NEW at \in Places(f)
  PROVE  LoadEnd(f, tag, at) \in Places(f)
<1>1. PICK n : n = Len(f)
  OBVIOUS
<1>2. PICK r : r = Values!Rec(f, 0, n)
  OBVIOUS
<1>3. LoadEnd(f, tag, at) = r[n][tag][at] /\ \A d \in 0..n : r[d] = Value(f, r[d - 1], d)
  BY <1>1, <1>2, ValuesAre
<1>4. n \in Nat
  BY <1>1
<1> DEFINE I == {d \in Nat : d <= n => Ends(f, r[d])}
<1>5. 0 \in I
  <2>1. r[0] = Value(f, r[0 - 1], 0)
    BY <1>3, <1>4
  <2>2. Ends(f, Value(f, r[0 - 1], 0))
    BY ValueStep
  <2> QED BY <2>1, <2>2
<1>6. ASSUME NEW d \in Nat, d \in I PROVE d + 1 \in I
  <2> SUFFICES ASSUME d + 1 <= n PROVE Ends(f, r[d + 1])
    OBVIOUS
  <2>1. d + 1 \in 0..n /\ (d + 1) - 1 = d
    BY <1>4
  <2>2. r[d + 1] = Value(f, r[d], d + 1)
    BY <1>3, <2>1
  <2>3. Ends(f, r[d])
    BY <1>4, <1>6
  <2>4. Ends(f, Value(f, r[d], d + 1))
    BY <2>3, ValueStep
  <2> QED BY <2>2, <2>4
<1>7. n \in I
  <2> HIDE DEF I
  <2> QED BY <1>4, <1>5, <1>6, Values!NatInd
<1>8. Ends(f, r[n])
  BY <1>4, <1>7
<1> QED BY <1>3, <1>8 DEF Ends

\* Part of a file is bytes.
LEMMA PartIs ==
  ASSUME NEW f \in Seq(Byte), NEW m \in Nat, NEW n \in Int, n <= Len(f), m >= 1
  PROVE  SubSeq(f, m, n) \in Seq(Byte)
<1>1. CASE n >= m - 1
  <2>1. m \in 1..(Len(f) + 1) /\ n \in (m - 1)..Len(f)
    BY <1>1
  <2> QED BY <2>1, SubSeqProperties
<1>2. CASE n < m - 1
  <2>1. SubSeq(f, m, n) = <<>>
    BY <1>2
  <2> QED BY <2>1
<1> QED BY <1>1, <1>2

-----------------------------------------------------------------------------
(* Bytes in their place.                                                     *)

\* As far as f goes, it holds s after place p.
At(f, p, s) == \A i \in 1..Len(s) : p + i <= Len(f) => f[p + i] = s[i]

\* A concatenation is its parts, one after the other.
LEMMA AtConcat ==
  ASSUME NEW f, NEW p \in Nat, NEW s, NEW t, IsSeq(s), IsSeq(t), IsSeq(f)
  PROVE  At(f, p, s \o t) <=> At(f, p, s) /\ At(f, p + Len(s), t)
<1>1. PICK m \in Nat, n \in Nat, l \in Nat : m = Len(s) /\ n = Len(t) /\ l = Len(f)
  BY DEF IsSeq
<1>2. PICK st : st = s \o t
  OBVIOUS
<1>3. /\ Len(st) = m + n
      /\ \A i \in 1..m : st[i] = s[i]
      /\ \A i \in 1..n : st[m + i] = t[i]
  <2>1. PICK S, T : s \in Seq(S) /\ t \in Seq(T)
    BY DEF IsSeq
  <2>2. s \in Seq(S \cup T) /\ t \in Seq(S \cup T)
    BY <2>1
  <2>3. \A i \in 1..n : m + i \in 1..(m + n) /\ m + i > m /\ (m + i) - m = i
    OBVIOUS
  <2> QED BY <1>1, <1>2, <2>2, <2>3
<1>4. ASSUME At(f, p, st) PROVE At(f, p, s) /\ At(f, p + m, t)
  <2>1. ASSUME NEW i \in 1..m, p + i <= l PROVE f[p + i] = s[i]
    <3>1. i \in 1..(m + n)
      BY <2>1
    <3> QED BY <1>1, <1>3, <1>4, <2>1, <3>1 DEF At
  <2>2. ASSUME NEW i \in 1..n, (p + m) + i <= l PROVE f[(p + m) + i] = t[i]
    <3>1. m + i \in 1..(m + n) /\ (p + m) + i = p + (m + i)
      OBVIOUS
    <3>2. f[p + (m + i)] = st[m + i]
      BY <1>1, <1>3, <1>4, <2>2, <3>1 DEF At
    <3> QED BY <1>3, <3>1, <3>2
  <2> QED BY <1>1, <2>1, <2>2 DEF At
<1>5. ASSUME At(f, p, s), At(f, p + m, t) PROVE At(f, p, st)
  <2>1. ASSUME NEW i \in 1..(m + n), p + i <= l PROVE f[p + i] = st[i]
    <3>1. CASE i \in 1..m
      BY <1>1, <1>3, <1>5, <2>1, <3>1 DEF At
    <3>2. CASE i \notin 1..m
      <4>1. PICK j \in 1..n : i = m + j
        <5>1. i - m \in 1..n /\ i = m + (i - m)
          BY <3>2
        <5> QED BY <5>1
      <4>2. (p + m) + j = p + i
        BY <4>1
      <4>3. f[(p + m) + j] = t[j]
        BY <1>1, <1>5, <2>1, <4>2 DEF At
      <4> QED BY <1>3, <4>1, <4>2, <4>3
    <3> QED BY <3>1, <3>2
  <2> QED BY <1>1, <1>3, <2>1 DEF At
<1> QED BY <1>1, <1>2, <1>4, <1>5

\* What the bytes that the model keeps of a number hold.
Fits(v) == v \in Nat /\ v < 256 * 65536

\* A number that fits is read as it was written.
LEMMA NumWritten ==
  ASSUME NEW f, NEW p \in Nat, NEW v, Fits(v), NEW w \in {4, 8}, IsSeq(f),
         At(f, p, Le(v, w)), p + 3 <= Len(f)
  PROVE  Num(f, p) = v
<1>1. Le(v, w) = [k \in 1..w |-> Le(v, w)[k]]
  BY DEF Le
<1>2. Len(Le(v, w)) = w
  BY <1>1, BuiltIs
<1>3. /\ Le(v, w)[1] = v % 256 /\ Le(v, w)[2] = (v \div 256) % 256
      /\ Le(v, w)[3] = (v \div 65536) % 256
  BY DEF Le
<1>4. PICK l \in Nat : l = Len(f)
  BY DEF IsSeq
<1>5. p + 1 <= l /\ p + 2 <= l /\ p + 3 <= l /\ 1 \in 1..w /\ 2 \in 1..w /\ 3 \in 1..w
  BY <1>4
<1>6. f[p + 1] = v % 256 /\ f[p + 2] = (v \div 256) % 256 /\ f[p + 3] = (v \div 65536) % 256
  BY <1>2, <1>3, <1>4, <1>5 DEF At
<1>7. (v % 256) + 256 * ((v \div 256) % 256) + 65536 * ((v \div 65536) % 256) = v
  <2>1. v \in Nat /\ v < 256 * 65536
    BY DEF Fits
  <2>2. PICK x \in Nat, y \in Nat, z \in Nat : x = v % 256 /\ y = (v \div 256) % 256 /\ z = v \div 65536
    BY <2>1
  <2>3. v = x + 256 * y + 65536 * z
    BY <2>1, <2>2
  <2>4. z < 256
    <3>1. 65536 * z <= v
      BY <2>1, <2>2, <2>3
    <3> QED BY <2>1, <2>2, <3>1
  <2>5. z % 256 = z
    BY <2>4
  <2> QED BY <2>2, <2>3, <2>5
<1> QED BY <1>6, <1>7 DEF Num

\* A string is read as it was written, if the file has all of it.
LEMMA StringWritten ==
  ASSUME NEW f, NEW p \in Nat, NEW s, IsSeq(f), IsSeq(s), Fits(Len(s)), At(f, p, Str(s))
  PROVE  /\ Len(Str(s)) = 8 + Len(s) /\ Len(s) \in Nat
         /\ p + 8 + Len(s) <= Len(f) => StringEnd(f, p) = p + 8 + Len(s) /\ StringAt(f, p) = s
         /\ ~(p + 8 + Len(s) <= Len(f)) => StringEnd(f, p) = Bad
<1>1. PICK n \in Nat, l \in Nat : n = Len(s) /\ l = Len(f)
  BY DEF IsSeq
<1>2. IsSeq(U64(n)) /\ Len(U64(n)) = 8 /\ U64(n) = Le(n, 8)
  <2>1. U64(n) = [k \in 1..8 |-> U64(n)[k]]
    BY DEF U64, Le
  <2> QED BY <2>1, BuiltIs DEF U64
<1>3. At(f, p, U64(n)) /\ At(f, p + 8, s) /\ Len(Str(s)) = 8 + n
  BY <1>1, <1>2, AtConcat, ConcatIs DEF Str
<1>4. Fits(n)
  BY <1>1
<1>5. p + 3 <= l => Num(f, p) = n
  BY <1>1, <1>2, <1>3, <1>4, NumWritten
<1>6. CASE ~Holds(f, p, 8)
  <2>1. ~(p + 8 + n <= l) /\ StringEnd(f, p) = Bad
    BY <1>1, <1>6 DEF Holds, StringEnd, Bad
  <2> QED BY <1>1, <1>3, <2>1
<1>7. CASE Holds(f, p, 8)
  <2>1. p + 8 <= l
    BY <1>1, <1>7 DEF Holds
  <2>2. Num(f, p) = n
    BY <1>1, <1>5, <2>1
  <2>3. StringEnd(f, p) = IF p + 8 + n <= l THEN p + 8 + n ELSE Bad
    BY <1>1, <1>7, <2>2 DEF StringEnd, Take, Holds, Bad
  <2>4. ASSUME p + 8 + n <= l PROVE StringAt(f, p) = s
    <3>1. PICK S, T : f \in Seq(S) /\ s \in Seq(T)
      BY DEF IsSeq
    <3>2. \A i \in 1..n : f[p + 8 + i] = s[i]
      BY <1>1, <1>3, <2>4 DEF At
    <3>3. p + 9 \in 1..(l + 1) /\ p + 8 + n \in ((p + 9) - 1)..l
      BY <2>4
    <3>4. PICK u : u = SubSeq(f, p + 9, p + 8 + n)
      OBVIOUS
    <3>5. u \in Seq(S) /\ Len(u) = n /\ \A i \in 1..n : u[i] = f[p + 8 + i]
      <4>1. (p + 8 + n) - (p + 9) + 1 = n
        OBVIOUS
      <4>2. \A i \in 1..n : (p + 9) + i - 1 = p + 8 + i
        OBVIOUS
      <4> QED BY <1>1, <3>1, <3>3, <3>4, <4>1, <4>2, SubSeqProperties
    <3>6. u = s
      BY <1>1, <3>1, <3>2, <3>5
    <3> QED BY <2>2, <3>4, <3>6 DEF StringAt
  <2> QED BY <1>1, <1>3, <2>3, <2>4
<1> QED BY <1>6, <1>7

-----------------------------------------------------------------------------
(* Values in another place.                                                  *)

\* What load_value is for each depth of arrays.
Nest(f) == Values!Rec(f, 0, Len(f))

\* It is a level more than the one before it.
LEMMA NestIs ==
  ASSUME NEW f, IsSeq(f), NEW d \in 0..Len(f)
  PROVE  Nest(f)[d] = Value(f, Nest(f)[d - 1], d)
<1>1. PICK n \in Nat : n = Len(f)
  BY DEF IsSeq
<1>2. \A x, y : Value(f, x, 0) = Value(f, y, 0)
  BY DEF Value
<1>3. 0 \in Int /\ n \in Int
  BY <1>1
<1>4. \A i \in 0..n : Values!Rec(f, 0, n)[i] = Value(f, Values!Rec(f, 0, n)[i - 1], i)
  BY <1>2, <1>3, Values!RecAt
<1> QED BY <1>1, <1>4 DEF Nest

\* Its cases: no place, ...
LEMMA NestBad ==
  ASSUME NEW f, IsSeq(f), NEW d \in 0..Len(f), NEW t \in Nat
  PROVE  Nest(f)[d][t][Bad] = Bad
<1>1. Nest(f)[d][t][Bad] = Value(f, Nest(f)[d - 1], d)[t][Bad]
  BY NestIs
<1> QED BY <1>1 DEF Value

\* ... a string, ...
LEMMA NestString ==
  ASSUME NEW f, IsSeq(f), NEW d \in 0..Len(f), NEW p \in Nat
  PROVE  Nest(f)[d][StringTag][p] = StringEnd(f, p)
<1>1. Nest(f)[d][StringTag][p] = Value(f, Nest(f)[d - 1], d)[StringTag][p]
  BY NestIs
<1>2. StringTag \in Nat /\ p \in Nat \cup {Bad} /\ p # Bad
  BY DEF StringTag, Bad
<1> QED BY <1>1, <1>2 DEF Value

\* ... a scalar, ...
LEMMA NestScalar ==
  ASSUME NEW f, IsSeq(f), NEW d \in 0..Len(f), NEW t \in Nat, NEW p \in Nat,
         t # StringTag, t # ArrayTag
  PROVE  Nest(f)[d][t][p] = IF ScalarSize(t) = 0 THEN Bad ELSE Take(f, p, ScalarSize(t))
<1>1. Nest(f)[d][t][p] = Value(f, Nest(f)[d - 1], d)[t][p]
  BY NestIs
<1>2. p \in Nat \cup {Bad} /\ p # Bad
  BY DEF Bad
<1> QED BY <1>1, <1>2 DEF Value

\* ... an array that is too deep or has no head, ...
LEMMA NestNoArray ==
  ASSUME NEW f, IsSeq(f), NEW d \in 0..Len(f), NEW p \in Nat, d = 0 \/ ~Holds(f, p, 12)
  PROVE  Nest(f)[d][ArrayTag][p] = Bad
<1>1. Nest(f)[d][ArrayTag][p] = Value(f, Nest(f)[d - 1], d)[ArrayTag][p]
  BY NestIs
<1>2. ArrayTag \in Nat /\ ArrayTag # StringTag /\ p \in Nat \cup {Bad} /\ p # Bad
  BY DEF StringTag, ArrayTag, Bad
<1>3. PICK e : e = Nest(f)[d - 1]
  OBVIOUS
<1>4. Value(f, e, d)[ArrayTag][p] =
        IF d = 0 \/ ~Holds(f, p, 12) THEN Bad
        ELSE FoldLeft(LAMBDA q, k : e[Num(f, p)][q], p + 12, [k \in 1..Num(f, p + 4) |-> k])
  BY <1>2 DEF Value
<1> QED BY <1>1, <1>3, <1>4, Zenon

\* What n elements give, one after the other.
Elements(e, b, n) == Elems!Fold(e, b, [k \in 1..n |-> k])

\* ... and the elements of an array.
LEMMA NestArray ==
  ASSUME NEW f, IsSeq(f), NEW d \in 0..Len(f), NEW p \in Nat, d # 0, Holds(f, p, 12)
  PROVE  Nest(f)[d][ArrayTag][p] = Elements(Nest(f)[d - 1][Num(f, p)], p + 12, Num(f, p + 4))
<1>1. Nest(f)[d][ArrayTag][p] = Value(f, Nest(f)[d - 1], d)[ArrayTag][p]
  BY NestIs
<1>2. ArrayTag \in Nat /\ ArrayTag # StringTag /\ p \in Nat \cup {Bad} /\ p # Bad
  BY DEF StringTag, ArrayTag, Bad
<1>3. PICK e : e = Nest(f)[d - 1]
  OBVIOUS
<1>4. Value(f, e, d)[ArrayTag][p] =
        IF d = 0 \/ ~Holds(f, p, 12) THEN Bad
        ELSE FoldLeft(LAMBDA q, k : e[Num(f, p)][q], p + 12, [k \in 1..Num(f, p + 4) |-> k])
  BY <1>2 DEF Value
<1> DEFINE turns == [k \in 1..Num(f, p + 4) |-> k]
<1>5. Value(f, e, d)[ArrayTag][p] = FoldLeft(LAMBDA q, k : e[Num(f, p)][q], p + 12, turns)
  BY <1>4, Zenon
<1>6. FoldLeft(LAMBDA q, k : e[Num(f, p)][q], p + 12, turns) = Elems!Fold(e[Num(f, p)], p + 12, turns)
  BY Zenon DEF FoldLeft, MapThenFoldSet, Elems!Fold, Elems!FoldLeft,
               Elems!MapThenFoldSet, ElemOp, Max, Elems!Max
<1> QED BY <1>1, <1>3, <1>5, <1>6, Zenon DEF Elements

\* The places that the elements leave the reader at.
LEMMA ElementsRun ==
  ASSUME NEW e, NEW b, NEW n \in Nat
  PROVE  \E h : h[0] = b /\ (\A k \in 1..n : h[k] = e[h[k - 1]]) /\ Elements(e, b, n) = h[n]
<1> DEFINE turns == [k \in 1..n |-> k]
<1>0. PICK T : T = 1..n
  OBVIOUS
<1>1. turns \in Seq(T) /\ Len(turns) = n /\ Elements(e, b, n) = Elems!Fold(e, b, turns)
  BY <1>0 DEF Elements
<1> HIDE DEF turns
<1>2. PICK h : /\ h[0] = b /\ \A k \in 1..Len(turns) : h[k] = ElemOp(e, h[k - 1], turns[k])
               /\ DOMAIN h = 0..Len(turns)
               /\ Elems!Fold(e, b, turns) = h[Len(turns)]
  BY <1>1, Elems!FoldHasRun
<1>3. \A k \in 1..n : h[k] = e[h[k - 1]]
  BY <1>1, <1>2 DEF ElemOp
<1> QED BY <1>1, <1>2, <1>3

\* load_value reads with all the depth a file has room for.
LEMMA LoadEndIs ==
  ASSUME NEW f
  PROVE  \A tag, at : LoadEnd(f, tag, at) = Nest(f)[Len(f)][tag][at]
BY DEF LoadEnd, Nest, Values!Rec, Value

\* The n bytes after p in f are those after q in g, as far as g goes.
Copied(f, p, g, q, n) == \A i \in 1..n : q + i <= Len(g) => g[q + i] = f[p + i]

\* What a reader of n bytes at q gives: all or nothing, and all of it if they are
\* there and there is the depth.
Follows(got, g, q, deep, n) ==
  /\ got = Bad \/ (got = q + n /\ q + n <= Len(g))
  /\ deep >= n /\ q + n <= Len(g) => got = q + n

\* A value that f holds is read in the same way wherever its bytes are.
Moves(f, g, d) ==
  \A t \in Nat, p \in 0..Len(f) : Nest(f)[d][t][p] # Bad =>
    /\ Nest(f)[d][t][p] \in p..Len(f)
    /\ \A q \in Nat, deep \in 0..Len(g) :
         Copied(f, p, g, q, Nest(f)[d][t][p] - p) =>
           Follows(Nest(g)[deep][t][q], g, q, deep, Nest(f)[d][t][p] - p)

\* And so are the numbers in them.
NumsCopied(f, p, g, q, n) ==
  \A a \in Nat, b \in Nat :
    a >= q /\ a - q = b - p /\ (a - q) + 3 <= n /\ a + 3 <= Len(g) => Num(g, a) = Num(f, b)

\* Numbers are copied with the bytes.
LEMMA NumCopied ==
  ASSUME NEW f, NEW g, NEW p \in Nat, NEW q \in Nat, NEW n \in Nat, IsSeq(g), Copied(f, p, g, q, n)
  PROVE  NumsCopied(f, p, g, q, n)
<1> SUFFICES ASSUME NEW a \in Nat, NEW b \in Nat,
                    a >= q, a - q = b - p, (a - q) + 3 <= n, a + 3 <= Len(g)
             PROVE  Num(g, a) = Num(f, b)
  BY DEF NumsCopied
<1>1. PICK l \in Nat : l = Len(g)
  BY DEF IsSeq
<1>2. ASSUME NEW i \in {1, 2, 3} PROVE g[a + i] = f[b + i]
  <2>1. PICK o \in 1..n : q + o = a + i /\ p + o = b + i
    <3>1. (a - q) + i \in 1..n /\ q + ((a - q) + i) = a + i /\ p + ((a - q) + i) = b + i
      OBVIOUS
    <3> QED BY <3>1
  <2>2. q + o <= Len(g)
    BY <1>1, <2>1
  <2>3. g[q + o] = f[p + o]
    BY <2>2 DEF Copied
  <2> QED BY <2>1, <2>3
<1> QED BY <1>2 DEF Num

\* The same place, counted from elsewhere.
LEMMA Shifted ==
  ASSUME NEW p \in Nat, NEW q \in Nat, NEW x \in Nat, NEW y \in Nat, NEW v \in Nat,
         NEW z \in Nat, p + 12 <= x, x <= y, y <= v, z = q + (x - p)
  PROVE  /\ z + (y - x) = q + (y - p)
         /\ \A i \in 1..(y - x) : \E o \in 1..(v - p) : q + o = z + i /\ p + o = x + i
<1>1. z + (y - x) = q + (y - p)
  OBVIOUS
<1>2. ASSUME NEW i \in 1..(y - x) PROVE \E o \in 1..(v - p) : q + o = z + i /\ p + o = x + i
  <2>1. (x - p) + i \in 1..(v - p) /\ q + ((x - p) + i) = z + i /\ p + ((x - p) + i) = x + i
    OBVIOUS
  <2> QED BY <2>1
<1> QED BY <1>1, <1>2

\* A walk that ends in the file never left it, and never went back.
LEMMA Walk ==
  ASSUME NEW e, NEW h, NEW n \in Nat, NEW l \in Nat, NEW p \in 0..l, h[0] = p,
         \A k \in 1..n : h[k] = e[h[k - 1]],
         e[Bad] = Bad, h[n] # Bad,
         \A x \in 0..l : e[x] # Bad => e[x] \in x..l
  PROVE  /\ \A k \in 0..n : h[k] \in p..l /\ h[k] <= h[n]
         /\ \A k \in 1..n : h[k - 1] <= h[k]
<1>1. \A m \in Nat : m \in {j \in Nat : j <= n => h[n - j] # Bad}
  <2> DEFINE I == {j \in Nat : j <= n => h[n - j] # Bad}
  <2>1. 0 \in I
    OBVIOUS
  <2>2. ASSUME NEW j \in Nat, j \in I PROVE j + 1 \in I
    <3> SUFFICES ASSUME j + 1 <= n PROVE h[n - (j + 1)] # Bad
      OBVIOUS
    <3>1. n - j \in 1..n /\ (n - j) - 1 = n - (j + 1) /\ h[n - j] # Bad
      BY <2>2
    <3> QED BY <3>1
  <2>3. \A m \in Nat : m \in I
    <3> HIDE DEF I
    <3> QED BY <2>1, <2>2, Elems!NatInd
  <2> QED BY <2>3
<1>2. ASSUME NEW k \in 0..n PROVE h[k] # Bad
  <2>1. n - k \in Nat /\ n - (n - k) = k /\ n - k <= n
    OBVIOUS
  <2> QED BY <1>1, <2>1
<1>3. \A m \in Nat : m \in {j \in Nat : j <= n => h[j] \in p..l}
  <2> DEFINE I == {j \in Nat : j <= n => h[j] \in p..l}
  <2>1. 0 \in I
    OBVIOUS
  <2>2. ASSUME NEW j \in Nat, j \in I PROVE j + 1 \in I
    <3> SUFFICES ASSUME j + 1 <= n PROVE h[j + 1] \in p..l
      OBVIOUS
    <3>1. j + 1 \in 1..n /\ (j + 1) - 1 = j /\ j + 1 \in 0..n /\ h[j] \in p..l
      BY <2>2
    <3>2. h[j + 1] = e[h[j]] /\ h[j + 1] # Bad
      BY <1>2, <3>1
    <3> QED BY <3>1, <3>2
  <2>3. \A m \in Nat : m \in I
    <3> HIDE DEF I
    <3> QED BY <2>1, <2>2, Elems!NatInd
  <2> QED BY <2>3
<1>4. ASSUME NEW k \in 0..n PROVE h[k] \in p..l
  BY <1>3
<1>5. ASSUME NEW k \in 1..n PROVE h[k - 1] <= h[k]
  <2>1. k - 1 \in 0..n /\ k \in 0..n
    OBVIOUS
  <2>2. h[k - 1] \in 0..l /\ h[k] # Bad /\ h[k] = e[h[k - 1]]
    BY <1>2, <1>4, <2>1
  <2> QED BY <2>2
<1>6. \A m \in Nat : m \in {j \in Nat : j <= n => h[n - j] <= h[n]}
  <2> DEFINE I == {j \in Nat : j <= n => h[n - j] <= h[n]}
  <2>1. 0 \in I
    BY <1>4
  <2>2. ASSUME NEW j \in Nat, j \in I PROVE j + 1 \in I
    <3> SUFFICES ASSUME j + 1 <= n PROVE h[n - (j + 1)] <= h[n]
      OBVIOUS
    <3>1. n - j \in 1..n /\ (n - j) - 1 = n - (j + 1) /\ h[n - j] <= h[n]
      BY <2>2
    <3>2. h[n - (j + 1)] <= h[n - j]
      BY <1>5, <3>1
    <3>3. h[n - (j + 1)] \in Int /\ h[n - j] \in Int /\ h[n] \in Int
      BY <1>4, <3>1
    <3> QED BY <3>1, <3>2, <3>3
  <2>3. \A m \in Nat : m \in I
    <3> HIDE DEF I
    <3> QED BY <2>1, <2>2, Elems!NatInd
  <2> QED BY <2>3
<1>7. ASSUME NEW k \in 0..n PROVE h[k] <= h[n]
  <2>1. n - k \in Nat /\ n - (n - k) = k /\ n - k <= n
    OBVIOUS
  <2> QED BY <1>6, <2>1
<1> QED BY <1>4, <1>5, <1>7

\* A string or a scalar of n bytes.
LEMMA FlatMoves ==
  ASSUME NEW f \in Seq(Byte), NEW g, IsSeq(g), NEW d \in 0..Len(f), NEW t \in Nat, t # ArrayTag,
         NEW p \in 0..Len(f), Nest(f)[d][t][p] # Bad
  PROVE  /\ Nest(f)[d][t][p] \in p..Len(f)
         /\ \A q \in Nat, deep \in 0..Len(g) :
              Copied(f, p, g, q, Nest(f)[d][t][p] - p) =>
                Follows(Nest(g)[deep][t][q], g, q, deep, Nest(f)[d][t][p] - p)
<1>1. PICK l \in Nat, m \in Nat : l = Len(f) /\ m = Len(g)
  BY DEF IsSeq
<1>2. PICK e : e = Nest(f)[d][t][p]
  OBVIOUS
<1>3. p \in Nat /\ p # Bad /\ p \in Places(f) /\ IsSeq(f) /\ e # Bad
  BY <1>1, <1>2 DEF Bad, Places, IsSeq
<1>4. CASE t = StringTag
  <2>1. e = StringEnd(f, p)
    BY <1>2, <1>3, <1>4, NestString
  <2>2. PICK n \in Nat : n = Num(f, p)
    BY <1>3, <2>1, StringIs
  <2>3. e = p + 8 + n /\ e \in p..l
    <3>1. e = p + 8 + n /\ e \in Places(f)
      BY <1>3, <2>1, <2>2, StringIs
    <3> QED BY <1>1, <1>3, <3>1 DEF Places
  <2>4. ASSUME NEW q \in Nat, NEW deep \in 0..m, Copied(f, p, g, q, e - p)
        PROVE  Follows(Nest(g)[deep][t][q], g, q, deep, e - p)
    <3>1. e - p = 8 + n /\ q # Bad
      BY <2>3 DEF Bad
    <3>2. Nest(g)[deep][t][q] = StringEnd(g, q)
      <4>1. deep \in 0..Len(g)
        BY <1>1
      <4> QED BY <1>4, <4>1, NestString
    <3>3. CASE ~(q + 8 <= m)
      <4>1. StringEnd(g, q) = Bad
        BY <1>1, <3>3 DEF StringEnd, Holds
      <4>2. ~(q + (8 + n) <= m)
        BY <3>3
      <4> QED BY <1>1, <3>1, <3>2, <4>1, <4>2 DEF Follows
    <3>4. CASE q + 8 <= m
      <4>2. Num(g, q) = n
        <5>1. PICK k \in Nat : k = 8 + n
          OBVIOUS
        <5>2. p \in Nat /\ q >= q /\ q - q = p - p /\ (q - q) + 3 <= k /\ q + 3 <= Len(g)
          BY <1>1, <1>3, <3>4, <5>1
        <5>3. Copied(f, p, g, q, k)
          BY <2>4, <3>1, <5>1
        <5>4. NumsCopied(f, p, g, q, k)
          <6>1. p \in Nat
            BY <1>3
          <6> QED BY <5>3, <6>1, NumCopied
        <5>5. Num(g, q) = Num(f, p)
          BY <5>2, <5>4 DEF NumsCopied
        <5> QED BY <2>2, <5>5
      <4>3. StringEnd(g, q) = IF q + 8 + n <= m THEN q + 8 + n ELSE Bad
        <5>1. q + 8 # Bad
          BY DEF Bad
        <5> QED BY <1>1, <3>1, <3>4, <4>2, <5>1 DEF StringEnd, Take, Holds
      <4>4. q + 8 + n = q + (8 + n)
        OBVIOUS
      <4> QED BY <1>1, <3>1, <3>2, <4>3, <4>4 DEF Follows
    <3> QED BY <3>3, <3>4
  <2> QED BY <1>1, <1>2, <2>3, <2>4
<1>5. CASE t # StringTag
  <2>1. PICK n \in Nat : n = ScalarSize(t)
    BY ScalarSizeIs
  <2>2. e = IF n = 0 THEN Bad ELSE Take(f, p, n)
    BY <1>2, <1>3, <1>5, <2>1, NestScalar
  <2>3. n # 0 /\ e = p + n /\ e \in p..l
    <3>1. n # 0 /\ e = Take(f, p, n)
      BY <1>3, <2>2
    <3>2. e = p + n /\ e \in Places(f)
      BY <1>3, <3>1, TakeIs
    <3> QED BY <1>1, <1>3, <3>1, <3>2 DEF Places
  <2>4. ASSUME NEW q \in Nat, NEW deep \in 0..m, Copied(f, p, g, q, e - p)
        PROVE  Follows(Nest(g)[deep][t][q], g, q, deep, e - p)
    <3>1. e - p = n /\ q # Bad
      BY <1>3, <2>3 DEF Bad
    <3>2. Nest(g)[deep][t][q] = Take(g, q, n)
      <4>1. deep \in 0..Len(g)
        BY <1>1
      <4> QED BY <1>5, <2>1, <2>3, <4>1, NestScalar
    <3>3. Take(g, q, n) = IF q + n <= m THEN q + n ELSE Bad
      BY <1>1, <3>1 DEF Take, Holds
    <3> QED BY <1>1, <3>1, <3>2, <3>3 DEF Follows
  <2> QED BY <1>1, <1>2, <2>3, <2>4
<1> QED BY <1>4, <1>5

\* An array, whose elements move.
LEMMA ArrayMoves ==
  ASSUME NEW f \in Seq(Byte), NEW g, IsSeq(g), NEW d \in 1..Len(f), Moves(f, g, d - 1),
         NEW p \in 0..Len(f), Nest(f)[d][ArrayTag][p] # Bad
  PROVE  /\ Nest(f)[d][ArrayTag][p] \in p..Len(f)
         /\ \A q \in Nat, deep \in 0..Len(g) :
              Copied(f, p, g, q, Nest(f)[d][ArrayTag][p] - p) =>
                Follows(Nest(g)[deep][ArrayTag][q], g, q, deep, Nest(f)[d][ArrayTag][p] - p)
<1>1. PICK l \in Nat, m \in Nat : l = Len(f) /\ m = Len(g)
  BY DEF IsSeq
<1>2. PICK v : v = Nest(f)[d][ArrayTag][p]
  OBVIOUS
<1>3. /\ p \in Nat /\ p # Bad /\ p \in Nat \cup {Bad} /\ IsSeq(f) /\ v # Bad /\ ArrayTag \in Nat
      /\ d \in 0..Len(f) /\ d # 0 /\ d - 1 \in 0..Len(f)
  BY <1>1, <1>2 DEF Bad, IsSeq, ArrayTag
<1>4. Holds(f, p, 12)
  BY <1>2, <1>3, NestNoArray
<1>5. p + 12 <= l /\ p + 12 \in 0..l
  BY <1>1, <1>3, <1>4 DEF Holds
<1>6. PICK et \in Nat, n \in Nat : et = Num(f, p) /\ n = Num(f, p + 4)
  <2>1. p + 3 <= l /\ p + 4 \in Nat /\ (p + 4) + 3 <= l
    BY <1>1, <1>3, <1>5
  <2> QED BY <1>1, <1>3, <2>1, NumIs
<1>7. PICK e : e = Nest(f)[d - 1][et]
  OBVIOUS
<1>9. v = Elements(e, p + 12, n)
  BY <1>2, <1>3, <1>4, <1>6, <1>7, NestArray
<1>10. PICK h : h[0] = p + 12 /\ (\A k \in 1..n : h[k] = e[h[k - 1]]) /\ v = h[n]
  BY <1>9, ElementsRun
<1>11. e[Bad] = Bad
  BY <1>3, <1>6, <1>7, NestBad
<1>12. \A x \in 0..l : e[x] # Bad => e[x] \in x..l
  BY <1>1, <1>7 DEF Moves
<1>13. /\ \A k \in 0..n : h[k] \in (p + 12)..l /\ h[k] <= h[n]
       /\ \A k \in 1..n : h[k - 1] <= h[k]
  BY <1>3, <1>5, <1>10, <1>11, <1>12, Walk
<1>14. v \in (p + 12)..l
  BY <1>10, <1>13
<1>p. p \in Nat
  BY <1>3
<1>h. ASSUME NEW k \in 0..n
      PROVE  h[k] \in Nat /\ p + 12 <= h[k] /\ h[k] <= v /\ v <= l /\ v \in Nat
  <2>1. PICK x : x = h[k]
    OBVIOUS
  <2>2. x \in (p + 12)..l /\ x <= v
    BY <1>10, <1>13, <2>1
  <2> QED BY <1>14, <1>p, <2>1, <2>2
<1>15. ASSUME NEW q \in Nat, NEW deep \in 0..m, Copied(f, p, g, q, v - p)
       PROVE  Follows(Nest(g)[deep][ArrayTag][q], g, q, deep, v - p)
  <2>1. PICK w : w = Nest(g)[deep][ArrayTag][q]
    OBVIOUS
  <2>2. q # Bad /\ q \in Nat \cup {Bad} /\ v - p \in Nat /\ v - p >= 12
    BY <1>3, <1>14 DEF Bad
  <2>3. CASE deep = 0 \/ ~Holds(g, q, 12)
    <3>1. w = Bad
      <4>1. deep \in 0..Len(g)
        BY <1>1
      <4> QED BY <2>1, <2>3, <4>1, NestNoArray
    <3>2. ~(deep >= v - p /\ q + (v - p) <= m)
      BY <1>1, <2>2, <2>3 DEF Holds
    <3> QED BY <1>1, <2>1, <3>1, <3>2 DEF Follows
  <2>4. CASE deep # 0 /\ Holds(g, q, 12)
    <3>1. q + 12 <= m /\ deep - 1 \in 0..m
      BY <1>1, <2>2, <2>4 DEF Holds
    <3>2. Num(g, q) = et /\ Num(g, q + 4) = n
      <4>1. PICK k \in Nat : k = v - p
        BY <2>2
      <4>2. Copied(f, p, g, q, k) /\ p \in Nat
        BY <1>3, <1>15, <4>1
      <4>c. NumsCopied(f, p, g, q, k)
        BY <4>2, NumCopied
      <4>3. Num(g, q) = Num(f, p)
        <5>1. q >= q /\ q - q = p - p /\ (q - q) + 3 <= k /\ q + 3 <= Len(g)
          BY <1>1, <2>2, <3>1, <4>1, <4>2
        <5> QED BY <4>2, <4>c, <5>1 DEF NumsCopied
      <4>4. Num(g, q + 4) = Num(f, p + 4)
        <5>1. PICK a \in Nat, b \in Nat : a = q + 4 /\ b = p + 4
          BY <4>2
        <5>2. a >= q /\ a - q = b - p /\ (a - q) + 3 <= k /\ a + 3 <= Len(g)
          BY <1>1, <2>2, <3>1, <4>1, <4>2, <5>1
        <5>3. Num(g, a) = Num(f, b)
          BY <4>c, <5>2 DEF NumsCopied
        <5> QED BY <5>1, <5>3
      <4> QED BY <1>6, <4>3, <4>4
    <3>3. PICK c : c = Nest(g)[deep - 1][et]
      OBVIOUS
    <3>4. w = Elements(c, q + 12, n)
      <4>1. deep \in 0..Len(g)
        BY <1>1
      <4> QED BY <2>1, <2>4, <3>2, <3>3, <4>1, NestArray
    <3>5. PICK b : b[0] = q + 12 /\ (\A k \in 1..n : b[k] = c[b[k - 1]]) /\ w = b[n]
      BY <3>4, ElementsRun
    <3>6. c[Bad] = Bad
      BY <1>1, <1>6, <3>1, <3>3, NestBad
    <3> DEFINE Good(k) == /\ b[k] = Bad \/ (b[k] = q + (h[k] - p) /\ q + (h[k] - p) <= m)
                          /\ deep >= v - p /\ q + (v - p) <= m => b[k] = q + (h[k] - p)
               I == {k \in Nat : k <= n => Good(k)}
    <3>7. 0 \in I
      <4>1. h[0] - p = 12
        BY <1>3, <1>10
      <4> QED BY <3>1, <3>5, <4>1
    <3>8. ASSUME NEW k \in Nat, k \in I PROVE k + 1 \in I
      <4> SUFFICES ASSUME k + 1 <= n PROVE Good(k + 1)
        OBVIOUS
      <4>1. Good(k) /\ k + 1 \in 1..n /\ (k + 1) - 1 = k /\ k \in 0..n /\ k + 1 \in 0..n
        BY <3>8
      <4> HIDE DEF Good
      <4>2. b[k + 1] = c[b[k]] /\ h[k + 1] = e[h[k]]
        BY <1>10, <3>5, <4>1
      <4>3. PICK x \in Nat, y \in Nat : /\ x = h[k] /\ y = h[k + 1] /\ x <= y /\ y <= v /\ v <= l
                                        /\ p + 12 <= x /\ v \in Nat
        <5>1. h[k] \in Nat /\ h[k + 1] \in Nat
          BY <1>h, <4>1
        <5>2. h[k] <= h[k + 1]
          BY <1>13, <4>1
        <5>3. h[k + 1] <= v /\ v <= l /\ p + 12 <= h[k] /\ v \in Nat
          BY <1>h, <4>1
        <5> QED BY <5>1, <5>2, <5>3
      <4>4. CASE b[k] = Bad
        <5>1. b[k + 1] = Bad
          BY <3>6, <4>2, <4>4
        <5>2. ~(deep >= v - p /\ q + (v - p) <= m)
          <6>1. q + (h[k] - p) # Bad
            BY <1>3, <4>3 DEF Bad
          <6> QED BY <4>1, <4>4, <6>1 DEF Good
        <5> QED BY <5>1, <5>2 DEF Good
      <4>5. CASE b[k] # Bad
        <5>0. /\ p \in Nat /\ x \in Nat /\ y \in Nat /\ v \in Nat /\ x <= y /\ y <= v
              /\ p + 12 <= x /\ q + (x - p) \in Nat
          BY <1>p, <4>3
        <5>1. PICK z \in Nat : z = b[k] /\ z = q + (x - p) /\ z <= m
          <6>1. b[k] = q + (x - p) /\ q + (x - p) <= m
            BY <4>1, <4>3, <4>5 DEF Good
          <6> QED BY <5>0, <6>1
        <5>2. x \in 0..l /\ e[x] = y /\ y # Bad
          BY <4>2, <4>3 DEF Bad
        <5>3. Copied(f, x, g, z, y - x)
          <6>1. ASSUME NEW i \in 1..(y - x), z + i <= m PROVE g[z + i] = f[x + i]
            <7>1. PICK o \in 1..(v - p) : q + o = z + i /\ p + o = x + i
              BY <5>0, <5>1, Shifted
            <7>2. q + o <= Len(g)
              BY <1>1, <6>1, <7>1
            <7>3. g[q + o] = f[p + o]
              BY <1>15, <7>2 DEF Copied
            <7> QED BY <7>1, <7>3
          <6> QED BY <1>1, <6>1 DEF Copied
        <5>4. Follows(c[z], g, z, deep - 1, y - x)
          BY <1>1, <1>7, <3>1, <3>3, <5>1, <5>2, <5>3 DEF Moves
        <5>5. z + (y - x) = q + (y - p)
          BY <5>0, <5>1, Shifted
        <5>6. b[k + 1] = c[z]
          BY <4>2, <5>1
        <5>7. ASSUME deep >= v - p, q + (v - p) <= m PROVE deep - 1 >= y - x /\ q + (y - p) <= m
          BY <5>0, <5>7
        <5> QED BY <1>1, <4>3, <5>4, <5>5, <5>6, <5>7 DEF Follows, Good
      <4> QED BY <4>4, <4>5
    <3>9. n \in I
      <4> HIDE DEF I
      <4> QED BY <3>7, <3>8, Elems!NatInd
    <3>10. Good(n)
      BY <3>9
    <3> QED BY <1>1, <1>10, <2>1, <3>5, <3>10 DEF Follows
  <2> QED BY <2>3, <2>4
<1>16. v \in p..l
  BY <1>3, <1>14
<1> QED BY <1>1, <1>2, <1>15, <1>16

\* A value is read alike in every place, at whatever depth.
LEMMA ValuesMove ==
  ASSUME NEW f \in Seq(Byte), NEW g, IsSeq(g)
  PROVE  \A d \in 0..Len(f) : Moves(f, g, d)
<1>1. PICK l \in Nat : l = Len(f)
  OBVIOUS
<1> DEFINE I == {d \in Nat : d <= l => Moves(f, g, d)}
<1>2. 0 \in I
  <2>1. ASSUME NEW p \in 0..l PROVE Nest(f)[0][ArrayTag][p] = Bad
    <3>1. 0 \in 0..Len(f) /\ p \in Nat /\ IsSeq(f)
      BY <1>1 DEF IsSeq
    <3> QED BY <3>1, NestNoArray
  <2>2. 0 \in 0..Len(f)
    BY <1>1
  <2> QED BY <1>1, <2>1, <2>2, FlatMoves DEF Moves
<1>3. ASSUME NEW d \in Nat, d \in I PROVE d + 1 \in I
  <2> SUFFICES ASSUME d + 1 <= l PROVE Moves(f, g, d + 1)
    OBVIOUS
  <2>1. d + 1 \in 1..Len(f) /\ d + 1 \in 0..Len(f) /\ (d + 1) - 1 = d /\ Moves(f, g, d)
    BY <1>1, <1>3
  <2> QED BY <2>1, FlatMoves, ArrayMoves DEF Moves
<1>4. ASSUME NEW d \in 0..l PROVE Moves(f, g, d)
  <2>1. \A k \in Nat : k \in I
    <3> HIDE DEF I
    <3> QED BY <1>2, <1>3, Elems!NatInd
  <2> QED BY <2>1
<1> QED BY <1>1, <1>4

\* A place, if the file reaches it.
Reach(f, at) == IF at <= Len(f) THEN at ELSE Bad

\* What load_value makes of a value that is copied: all of it, or nothing if the
\* file ends before it does.
LEMMA ValueCopied ==
  ASSUME NEW f \in Seq(Byte), NEW g, IsSeq(g), NEW tag \in Nat, NEW p \in 0..Len(f), NEW q \in Nat,
         LoadEnd(f, tag, p) # Bad, NEW n, n = LoadEnd(f, tag, p) - p, Copied(f, p, g, q, n)
  PROVE  n \in Nat /\ LoadEnd(g, tag, q) = Reach(g, q + n)
<1>1. PICK l \in Nat, m \in Nat : l = Len(f) /\ m = Len(g)
  BY DEF IsSeq
<1>2. PICK e : e = LoadEnd(f, tag, p)
  OBVIOUS
<1>3. e = Nest(f)[l][tag][p] /\ LoadEnd(g, tag, q) = Nest(g)[m][tag][q]
  BY <1>1, <1>2, LoadEndIs
<1>4. Moves(f, g, l) /\ m \in 0..Len(g)
  BY <1>1, ValuesMove
<1>5. e \in p..l /\ Follows(LoadEnd(g, tag, q), g, q, m, e - p)
  BY <1>1, <1>2, <1>3, <1>4 DEF Moves
<1>6. n \in Nat /\ (q + n <= m => m >= n)
  BY <1>2, <1>5
<1>7. Follows(LoadEnd(g, tag, q), g, q, m, n)
  BY <1>2, <1>5
<1> QED BY <1>1, <1>6, <1>7 DEF Follows, Reach

\* Every number that is read fits.
LEMMA NumFits ==
  ASSUME NEW f \in Seq(Byte), NEW at \in Nat, at + 3 <= Len(f)
  PROVE  Fits(Num(f, at))
<1>1. /\ at + 1 \in 1..Len(f) /\ at + 2 \in 1..Len(f) /\ at + 3 \in 1..Len(f)
  OBVIOUS
<1>2. PICK x, y, z \in Byte : x = f[at + 1] /\ y = f[at + 2] /\ z = f[at + 3]
  BY <1>1
<1>3. Num(f, at) = x + 256 * y + 65536 * z
  BY <1>2 DEF Num
<1>4. x \in 0..255 /\ y \in 0..255 /\ z \in 0..255
  BY DEF Byte
<1>5. x + 256 * y + 65536 * z \in Nat /\ x + 256 * y + 65536 * z < 256 * 65536
  BY <1>4
<1> QED BY <1>3, <1>5 DEF Fits

\* A key with its value: the payload is one value of that type.
KvGood(kv) == Fits(Len(kv.key)) /\ Fits(kv.tag) /\ LoadEnd(kv.payload, kv.tag, 0) = Len(kv.payload)
KvType == {kv \in [key : Seq(Byte), tag : Nat, payload : Seq(Byte)] : KvGood(kv)}
KvRead(f, r) == r.at \in Places(f) /\ (r.at # Bad => r.item \in KvType)

\* The bytes of a value, on their own, are that value.
LEMMA PayloadIs ==
  ASSUME NEW f \in Seq(Byte), NEW tag \in Nat, NEW p \in 0..Len(f), NEW end,
         end = LoadEnd(f, tag, p), end # Bad, NEW g, g = SubSeq(f, p + 1, end)
  PROVE  g \in Seq(Byte) /\ LoadEnd(g, tag, 0) = Len(g)
<1>1. PICK l \in Nat, x \in Nat : l = Len(f) /\ x = p
  OBVIOUS
<1>2. end \in x..l
  <2>1. Copied(f, p, <<>>, 0, end - p)
    BY DEF Copied
  <2>2. IsSeq(<<>>) /\ 0 \in Nat
    BY DEF IsSeq
  <2>3. end - p \in Nat
    <3>1. PICK n : n = end - p
      OBVIOUS
    <3> QED BY <2>1, <2>2, <3>1, ValueCopied
  <2>4. end \in Places(f)
    <3>1. p \in Places(f)
      BY DEF Places
    <3> QED BY <3>1, ValueIs
  <2> QED BY <1>1, <2>3, <2>4 DEF Places
<1>3. x + 1 \in 1..(l + 1) /\ end \in ((x + 1) - 1)..l
  BY <1>1, <1>2
<1>4. /\ g \in Seq(Byte) /\ Len(g) = end - (x + 1) + 1
      /\ \A i \in 1..(end - (x + 1) + 1) : g[i] = f[(x + 1) + i - 1]
  BY <1>1, <1>3, SubSeqProperties
<1>5. PICK n \in Nat : n = end - x /\ n = end - (x + 1) + 1
  BY <1>2
<1>6. Copied(f, x, g, 0, n)
  <2>1. ASSUME NEW i \in 1..n PROVE g[0 + i] = f[x + i]
    <3>1. 0 + i = i /\ (x + 1) + i - 1 = x + i
      OBVIOUS
    <3> QED BY <1>4, <1>5, <3>1
  <2> QED BY <2>1 DEF Copied
<1>7. LoadEnd(g, tag, 0) = Reach(g, n)
  <2>1. IsSeq(g) /\ 0 \in Nat
    BY <1>4 DEF IsSeq
  <2>2. PICK q \in Nat : q = 0
    OBVIOUS
  <2>3. Copied(f, p, g, q, n) /\ LoadEnd(f, tag, p) # Bad /\ n = LoadEnd(f, tag, p) - p
    BY <1>1, <1>5, <1>6, <2>2
  <2>4. LoadEnd(g, tag, q) = Reach(g, q + n)
    BY <2>1, <2>3, ValueCopied
  <2>5. q + n = n
    BY <2>2
  <2> QED BY <2>2, <2>4, <2>5
<1>8. Len(g) = n
  BY <1>4, <1>5
<1> QED BY <1>4, <1>7, <1>8 DEF Reach

\* A key with its value is read whole or not at all.
LEMMA KvIs ==
  ASSUME NEW f \in Seq(Byte), NEW at \in Places(f)
  PROVE  KvRead(f, LoadKv(f, at))
<1>1. PICK tagAt : tagAt = StringEnd(f, at)
  OBVIOUS
<1>2. PICK end : end = IF Holds(f, tagAt, 4) THEN LoadEnd(f, Num(f, tagAt), tagAt + 4) ELSE Bad
  OBVIOUS
<1>3. LoadKv(f, at) = IF end = Bad
                      THEN [at |-> Bad]
                      ELSE [at |-> end,
                            item |-> [key |-> StringAt(f, at), tag |-> Num(f, tagAt),
                                      payload |-> SubSeq(f, tagAt + 5, end)]]
  BY <1>1, <1>2 DEF LoadKv
<1>4. tagAt \in Places(f)
  BY <1>1, StringIs
<1>5. CASE end = Bad
  BY <1>3, <1>5 DEF KvRead, Places
<1>6. CASE end # Bad
  <2>1. tagAt \in Nat /\ tagAt # Bad /\ tagAt + 4 <= Len(f) /\ Len(f) \in Nat
        /\ end = LoadEnd(f, Num(f, tagAt), tagAt + 4)
    BY <1>2, <1>4, <1>6 DEF Holds, Places, Bad
  <2>2. Num(f, tagAt) \in Nat
    <3>1. tagAt + 3 <= Len(f)
      BY <2>1
    <3> QED BY <2>1, <3>1, NumIs
  <2>3. tagAt + 4 \in Places(f)
    BY <2>1 DEF Places
  <2>4. end \in Places(f)
    BY <2>1, <2>2, <2>3, ValueIs
  <2>5. PICK tag \in Nat : tag = Num(f, tagAt) /\ Fits(tag)
    <3>1. tagAt + 3 <= Len(f)
      BY <2>1
    <3> QED BY <2>1, <2>2, <3>1, NumFits
  <2>6. PICK payload \in Seq(Byte) : /\ payload = SubSeq(f, tagAt + 5, end)
                                    /\ LoadEnd(payload, tag, 0) = Len(payload)
    <3>1. PICK x \in 0..Len(f) : x = tagAt + 4
      BY <2>1
    <3>2. PICK g : g = SubSeq(f, x + 1, end)
      OBVIOUS
    <3>3. g \in Seq(Byte) /\ LoadEnd(g, tag, 0) = Len(g)
      <4>1. end = LoadEnd(f, tag, x) /\ end # Bad
        BY <1>6, <2>1, <2>5, <3>1
      <4> QED BY <3>2, <4>1, PayloadIs
    <3>4. x + 1 = tagAt + 5
      BY <2>1, <3>1
    <3> QED BY <3>2, <3>3, <3>4
  <2>7. PICK key \in Seq(Byte) : key = StringAt(f, at) /\ Fits(Len(key))
    <3>1. at \in 0..Len(f) /\ at + 8 <= Len(f) /\ StringAt(f, at) \in Seq(Byte)
          /\ Len(StringAt(f, at)) = Num(f, at)
      BY <1>1, <2>1, StringIs
    <3>2. at \in Nat /\ at + 3 <= Len(f)
      BY <2>1, <3>1
    <3> QED BY <3>1, <3>2, NumFits
  <2>9. LoadKv(f, at) = [at |-> end, item |-> [key |-> key, tag |-> tag, payload |-> payload]]
    BY <1>3, <1>6, <2>5, <2>6, <2>7, Zenon
  <2>10. LoadKv(f, at).at = end /\ LoadKv(f, at).item \in KvType
    <3>1. PICK kv : kv = [key |-> key, tag |-> tag, payload |-> payload]
      OBVIOUS
    <3>2. kv \in [key : Seq(Byte), tag : Nat, payload : Seq(Byte)] /\ KvGood(kv)
      BY <2>5, <2>6, <2>7, <3>1 DEF KvGood
    <3> QED BY <2>9, <3>1, <3>2 DEF KvType
  <2> QED BY <2>4, <2>10 DEF KvRead
<1> QED BY <1>5, <1>6

\* A shape's product, as a fold.
Times(p, a, b) == a * b
Products == INSTANCE FoldFacts WITH Op <- Times

\* A product of numbers is a number.
LEMMA ProductIs ==
  ASSUME NEW dims \in Seq(Nat)
  PROVE  ProductOf(dims) \in Nat
<1>1. ProductOf(dims) = Products!Fold(0, 1, dims)
  BY DEF ProductOf, FoldLeft, MapThenFoldSet, Products!Fold, Products!FoldLeft,
         Products!MapThenFoldSet, Times, Max, Products!Max
<1>2. \A x \in Nat, k \in 1..Len(dims) : Times(0, x, dims[k]) \in Nat
  <2> SUFFICES ASSUME NEW x \in Nat, NEW y \in Nat PROVE x * y \in Nat
    BY DEF Times
  <2> QED OBVIOUS
<1>3. PICK X : X = Nat
  OBVIOUS
<1>4. 1 \in X
  BY <1>3
<1>5. Products!Fold(0, 1, dims) \in X
  BY <1>2, <1>3, <1>4, Products!FoldKeeps
<1> QED BY <1>1, <1>3, <1>5

\* A tensor's name and shape, as they are read.
Shaped(name, dims) ==
  /\ name \in Seq(Byte) /\ Fits(Len(name))
  /\ dims \in Seq(Nat) /\ Len(dims) <= MaxDims /\ \A d \in 1..Len(dims) : Fits(dims[d])
TensorType ==
  {t \in [name : Seq(Byte), dims : Seq(Nat), elements : Nat, type : Nat, offset : Nat] :
     Shaped(t.name, t.dims) /\ t.elements = ProductOf(t.dims)}
TensorRead(f, r) == r.at \in Places(f) /\ (r.at # Bad => r.item \in TensorType)

\* A record of the index is read whole or not at all.
LEMMA RecordIs ==
  ASSUME NEW f \in Seq(Byte), NEW at \in Places(f)
  PROVE  TensorRead(f, IndexRecord(f, at))
<1> DEFINE nothing == [at |-> Bad]
<1>0. Len(f) \in Nat /\ TensorRead(f, nothing)
  BY DEF TensorRead, Places
<1>1. PICK dimsAt : dimsAt = Take(f, StringEnd(f, at), 4)
  OBVIOUS
<1>2. CASE dimsAt = Bad
  <2>1. IndexRecord(f, at) = nothing
    BY <1>1, <1>2, Zenon DEF IndexRecord
  <2> QED BY <1>0, <2>1
<1>3. CASE dimsAt # Bad
  <2> DEFINE nd == Num(f, dimsAt - 4)
             dims == [d \in 1..nd |-> Num(f, dimsAt + 8 * (d - 1))]
             typeAt == IF nd > MaxDims THEN Bad ELSE Take(f, dimsAt, 8 * nd)
             rec == IF ~Holds(f, typeAt, 12) THEN nothing
                    ELSE [at |-> typeAt + 12,
                          item |-> [name |-> StringAt(f, at), dims |-> dims,
                                    elements |-> ProductOf(dims),
                                    type |-> Num(f, typeAt), offset |-> Num(f, typeAt + 4)]]
  <2>1. IndexRecord(f, at) = rec
    BY <1>1, <1>3, Zenon DEF IndexRecord
  <2>2. StringEnd(f, at) \in 0..Len(f) /\ dimsAt = StringEnd(f, at) + 4 /\ dimsAt \in 0..Len(f)
    <3>1. StringEnd(f, at) \in Places(f) /\ 4 \in Nat
      BY StringIs
    <3> QED BY <1>1, <1>3, <3>1, TakeIs DEF Places
  <2>3. nd \in Nat
    <3>1. dimsAt - 4 \in Nat /\ (dimsAt - 4) + 3 <= Len(f)
      BY <1>0, <2>2
    <3> QED BY <3>1, NumIs
  <2> HIDE DEF nd
  <2>4. CASE ~Holds(f, typeAt, 12)
    BY <1>0, <2>1, <2>4
  <2>5. CASE Holds(f, typeAt, 12)
    <3>1. typeAt = Take(f, dimsAt, 8 * nd) /\ typeAt # Bad
      BY <2>5 DEF Holds, Bad
    <3>2. typeAt \in 0..Len(f) /\ typeAt = dimsAt + 8 * nd
      <4>1. dimsAt \in Places(f) /\ 8 * nd \in Nat
        BY <2>2, <2>3 DEF Places
      <4> QED BY <3>1, <4>1, TakeIs DEF Places
    <3>3. ASSUME NEW d \in 1..nd
          PROVE  Num(f, dimsAt + 8 * (d - 1)) \in Nat /\ Fits(Num(f, dimsAt + 8 * (d - 1)))
      <4>1. dimsAt + 8 * (d - 1) \in Nat /\ dimsAt + 8 * (d - 1) + 3 <= Len(f)
        BY <1>0, <2>2, <2>3, <3>2
      <4> QED BY <4>1, NumIs, NumFits
    <3>4. dims \in Seq(Nat) /\ Len(dims) = nd /\ \A d \in 1..nd : Fits(dims[d])
      BY <2>3, <3>3
    <3>d. nd <= MaxDims
      BY <2>3, <2>5 DEF Holds, MaxDims
    <3>5. ProductOf(dims) \in Nat
      BY <3>4, ProductIs
    <3>6. StringAt(f, at) \in Seq(Byte) /\ Fits(Len(StringAt(f, at)))
      <4>1. StringEnd(f, at) # Bad
        BY <2>2 DEF Bad
      <4>2. at \in 0..Len(f) /\ at + 8 <= Len(f) /\ StringAt(f, at) \in Seq(Byte)
            /\ Len(StringAt(f, at)) = Num(f, at)
        BY <4>1, StringIs
      <4>3. at \in Nat /\ at + 3 <= Len(f)
        BY <1>0, <4>2
      <4> QED BY <4>2, <4>3, NumFits
    <3>7. typeAt + 12 \in Places(f)
      BY <1>0, <2>5, <3>2 DEF Holds, Places
    <3>8. Num(f, typeAt) \in Nat /\ Num(f, typeAt + 4) \in Nat
      <4>1. /\ typeAt \in Nat /\ typeAt + 3 <= Len(f)
            /\ typeAt + 4 \in Nat /\ (typeAt + 4) + 3 <= Len(f)
        BY <1>0, <2>5, <3>2 DEF Holds
      <4> QED BY <4>1, NumIs
    <3> HIDE DEF dims, typeAt
    <3>9. rec.at = typeAt + 12 /\ rec.item \in TensorType
      <4>1. PICK t : t = [name |-> StringAt(f, at), dims |-> dims, elements |-> ProductOf(dims),
                          type |-> Num(f, typeAt), offset |-> Num(f, typeAt + 4)]
        OBVIOUS
      <4>2. Shaped(t.name, t.dims) /\ t.elements = ProductOf(t.dims)
        BY <3>4, <3>d, <3>6, <4>1 DEF Shaped
      <4>3. t \in TensorType
        BY <3>4, <3>5, <3>6, <3>8, <4>1, <4>2 DEF TensorType
      <4> QED BY <2>5, <4>1, <4>3
    <3> HIDE DEF rec
    <3> QED BY <2>1, <3>7, <3>9 DEF TensorRead
  <2> QED BY <2>4, <2>5
<1> QED BY <1>2, <1>3
-----------------------------------------------------------------------------
(* The tables.                                                               *)

Nothing == [at |-> Bad, items |-> <<>>]
Row(acc, r) ==
  IF acc.at = Bad THEN acc
  ELSE IF r.at = Bad THEN Nothing
  ELSE [at |-> r.at, items |-> Append(acc.items, r.item)]

KvOp(f, acc, k) ==
  IF acc.at = Bad THEN acc
  ELSE LET r == LoadKv(f, acc.at)
       IN IF r.at = Bad THEN [at |-> Bad, items |-> <<>>]
          ELSE [at |-> r.at, items |-> Append(acc.items, r.item)]
KvRows == INSTANCE FoldFacts WITH Op <- KvOp

TensorOp(f, acc, k) ==
  IF acc.at = Bad THEN acc
  ELSE LET r == IndexRecord(f, acc.at)
       IN IF r.at = Bad THEN [at |-> Bad, items |-> <<>>]
          ELSE [at |-> r.at, items |-> Append(acc.items, r.item)]
TensorRows == INSTANCE FoldFacts WITH Op <- TensorOp

\* A table is read in n turns: h is what there is after each, r what it reads.
Turns(h, r, at, n) ==
  /\ h[0] = [at |-> at, items |-> <<>>]
  /\ \A k \in 1..n : h[k] = Row(h[k - 1], r[k])

\* The metadata.
KvTurned(f, h, r, at, n) ==
  Turns(h, r, at, n) /\ (\A k \in 1..n : r[k] = LoadKv(f, h[k - 1].at)) /\ Table(LoadKv, f, at, n) = h[n]
LEMMA KvTurns ==
  ASSUME NEW f, NEW at, NEW n \in Nat
  PROVE  \E h, r : KvTurned(f, h, r, at, n)
<1> DEFINE start == [at |-> at, items |-> <<>>]
           turns == [k \in 1..n |-> k]
<1>1. Table(LoadKv, f, at, n) = KvRows!Fold(f, start, turns)
  BY Zenon DEF Table, FoldLeft, MapThenFoldSet, KvRows!Fold, KvRows!FoldLeft,
               KvRows!MapThenFoldSet, KvOp, Max, KvRows!Max
<1>2. PICK T : T = 1..n
  OBVIOUS
<1>3. turns \in Seq(T) /\ Len(turns) = n
  BY <1>2
<1> HIDE DEF turns, start
<1>r. PICK h : KvRows!Runs(f, start, turns, h)
  BY <1>3, KvRows!FoldRuns
<1>4. /\ h[0] = start /\ \A k \in 1..n : h[k] = KvOp(f, h[k - 1], turns[k])
      /\ KvRows!Fold(f, start, turns) = h[n]
  BY <1>3, <1>r DEF KvRows!Runs
<1> DEFINE r == [k \in 1..n |-> LoadKv(f, h[k - 1].at)]
<1>5. ASSUME NEW k \in 1..n PROVE h[k] = Row(h[k - 1], r[k])
  <2>1. PICK x : x = h[k - 1]
    OBVIOUS
  <2>2. h[k] = KvOp(f, x, turns[k]) /\ r[k] = LoadKv(f, x.at)
    BY <1>3, <1>4, <2>1
  <2> QED BY <2>1, <2>2 DEF KvOp, Row, Nothing
<1>6. \A k \in 1..n : r[k] = LoadKv(f, h[k - 1].at)
  OBVIOUS
<1> HIDE DEF r
<1>7. KvTurned(f, h, r, at, n)
  BY <1>1, <1>3, <1>4, <1>5, <1>6 DEF Turns, start, KvTurned
<1> QED BY <1>7

\* The index.
IndexTurned(f, h, r, at, n) ==
  /\ Turns(h, r, at, n) /\ \A k \in 1..n : r[k] = IndexRecord(f, h[k - 1].at)
  /\ Table(IndexRecord, f, at, n) = h[n]
LEMMA IndexTurns ==
  ASSUME NEW f, NEW at, NEW n \in Nat
  PROVE  \E h, r : IndexTurned(f, h, r, at, n)
<1> DEFINE start == [at |-> at, items |-> <<>>]
           turns == [k \in 1..n |-> k]
<1>1. Table(IndexRecord, f, at, n) = TensorRows!Fold(f, start, turns)
  BY Zenon DEF Table, FoldLeft, MapThenFoldSet, TensorRows!Fold, TensorRows!FoldLeft,
               TensorRows!MapThenFoldSet, TensorOp, Max, TensorRows!Max
<1>2. PICK T : T = 1..n
  OBVIOUS
<1>3. turns \in Seq(T) /\ Len(turns) = n
  BY <1>2
<1> HIDE DEF turns, start
<1>r. PICK h : TensorRows!Runs(f, start, turns, h)
  BY <1>3, TensorRows!FoldRuns
<1>4. /\ h[0] = start /\ \A k \in 1..n : h[k] = TensorOp(f, h[k - 1], turns[k])
      /\ TensorRows!Fold(f, start, turns) = h[n]
  BY <1>3, <1>r DEF TensorRows!Runs
<1> DEFINE r == [k \in 1..n |-> IndexRecord(f, h[k - 1].at)]
<1>5. ASSUME NEW k \in 1..n PROVE h[k] = Row(h[k - 1], r[k])
  <2>1. PICK x : x = h[k - 1]
    OBVIOUS
  <2>2. h[k] = TensorOp(f, x, turns[k]) /\ r[k] = IndexRecord(f, x.at)
    BY <1>3, <1>4, <2>1
  <2> QED BY <2>1, <2>2 DEF TensorOp, Row, Nothing
<1>6. \A k \in 1..n : r[k] = IndexRecord(f, h[k - 1].at)
  OBVIOUS
<1> HIDE DEF r
<1>7. IndexTurned(f, h, r, at, n)
  BY <1>1, <1>3, <1>4, <1>5, <1>6 DEF Turns, start, IndexTurned
<1> QED BY <1>7

\* Rows that read items of T within P: as many of them as there are turns, or
\* nothing.
ReadsType(P, T, h, r, n) ==
  \A k \in 1..n : h[k - 1].at \in P => r[k].at \in P /\ (r[k].at # Bad => r[k].item \in T)
TableOf(P, T, n, table) ==
  table \in [at : P, items : Seq(T)] /\ (table.at # Bad => Len(table.items) = n)
LEMMA TurnsType ==
  ASSUME NEW P, NEW T, NEW h, NEW r, NEW at \in P, NEW n \in Nat, Turns(h, r, at, n),
         ReadsType(P, T, h, r, n), Bad \in P
  PROVE  TableOf(P, T, n, h[n])
<1> DEFINE X == [at : P, items : Seq(T)]
           I == {k \in Nat : k <= n => h[k] \in X /\ (h[k].at # Bad => Len(h[k].items) = k)}
<1>1. 0 \in I
  <2>1. PICK e : e = h[0]
    OBVIOUS
  <2>2. e = [at |-> at, items |-> <<>>] /\ <<>> \in Seq(T) /\ Len(<<>>) = 0
    BY <2>1 DEF Turns
  <2>3. e \in X /\ Len(e.items) = 0
    BY <2>2
  <2> QED BY <2>1, <2>3
<1>2. ASSUME NEW k \in Nat, k \in I PROVE k + 1 \in I
  <2> SUFFICES ASSUME k + 1 <= n
               PROVE  h[k + 1] \in X /\ (h[k + 1].at # Bad => Len(h[k + 1].items) = k + 1)
    OBVIOUS
  <2>1. k + 1 \in 1..n /\ (k + 1) - 1 = k
    OBVIOUS
  <2>2. PICK x, y : x = h[k] /\ y = r[k + 1]
    OBVIOUS
  <2>3. x \in X /\ (x.at # Bad => Len(x.items) = k)
    BY <1>2, <2>2
  <2>4. h[k + 1] = Row(x, y)
    BY <2>1, <2>2 DEF Turns
  <2>5. y.at \in P /\ (y.at # Bad => y.item \in T)
    BY <2>1, <2>2, <2>3 DEF ReadsType
  <2>6. CASE x.at = Bad
    BY <2>3, <2>4, <2>6 DEF Row
  <2>7. CASE x.at # Bad /\ y.at = Bad
    <3>1. h[k + 1] = Nothing
      BY <2>4, <2>7 DEF Row
    <3>2. Nothing \in X /\ Nothing.at = Bad
      BY DEF Nothing
    <3> QED BY <3>1, <3>2
  <2>8. CASE x.at # Bad /\ y.at # Bad
    <3>1. h[k + 1] = [at |-> y.at, items |-> Append(x.items, y.item)]
      BY <2>4, <2>8 DEF Row
    <3>2. Append(x.items, y.item) \in Seq(T) /\ Len(Append(x.items, y.item)) = k + 1
      BY <2>3, <2>5, <2>8
    <3> QED BY <2>5, <3>1, <3>2
  <2> QED BY <2>6, <2>7, <2>8
<1>3. n \in I
  <2> HIDE DEF I
  <2> QED BY <1>1, <1>2, KvRows!NatInd
<1> QED BY <1>3 DEF TableOf

\* The metadata is a sequence of keys with their values.
LEMMA KvTableIs ==
  ASSUME NEW f \in Seq(Byte), NEW at \in Places(f), NEW n \in Nat
  PROVE  TableOf(Places(f), KvType, n, Table(LoadKv, f, at, n))
<1>1. PICK h, r : KvTurned(f, h, r, at, n)
  BY KvTurns
<1>2. ReadsType(Places(f), KvType, h, r, n)
  BY <1>1, KvIs DEF KvTurned, KvRead, ReadsType
<1>3. Bad \in Places(f) /\ Turns(h, r, at, n)
  BY <1>1 DEF Places, KvTurned
<1>4. TableOf(Places(f), KvType, n, h[n])
  BY <1>2, <1>3, TurnsType
<1> QED BY <1>1, <1>4 DEF KvTurned

\* The index is a sequence of tensors.
LEMMA IndexTableIs ==
  ASSUME NEW f \in Seq(Byte), NEW at \in Places(f), NEW n \in Nat
  PROVE  TableOf(Places(f), TensorType, n, Table(IndexRecord, f, at, n))
<1>1. PICK h, r : IndexTurned(f, h, r, at, n)
  BY IndexTurns
<1>2. ReadsType(Places(f), TensorType, h, r, n)
  BY <1>1, RecordIs DEF IndexTurned, TensorRead, ReadsType
<1>3. Bad \in Places(f) /\ Turns(h, r, at, n)
  BY <1>1 DEF Places, IndexTurned
<1>4. TableOf(Places(f), TensorType, n, h[n])
  BY <1>2, <1>3, TurnsType
<1> QED BY <1>1, <1>4 DEF IndexTurned

\* A loaded file: good metadata, and tensors with good names and shapes.
LoadedType(l) ==
  /\ l.kvs \in Seq(KvType) /\ Fits(Len(l.kvs)) /\ IsSeq(l.tensors) /\ Fits(Len(l.tensors))
  /\ \A k \in 1..Len(l.tensors) : Shaped(l.tensors[k].name, l.tensors[k].dims)

\* What the loader makes of any file.
LEMMA LoadIs ==
  ASSUME NEW f \in Seq(Byte)
  PROVE  Load(f) = Refused \/ (Load(f).ok = TRUE /\ LoadedType(Load(f)))
<1>1. CASE ~HeaderOK(f)
  BY <1>1, Zenon DEF Load
<1>2. CASE HeaderOK(f)
  <2> DEFINE kvs == Table(LoadKv, f, 24, Num(f, 16))
             index == Table(IndexRecord, f, kvs.at, Num(f, 8))
             start == AlignUp(index.at, AlignmentOf(kvs.items))
             byte(k) == IF k <= Len(f) THEN f[k] ELSE 0
             data(t) == [b \in 1..RowBytes(t.type, t.elements) |-> byte(start + t.offset + b)]
             tensors == [k \in DOMAIN index.items |->
                           [name |-> index.items[k].name, dims |-> index.items[k].dims,
                            type |-> index.items[k].type, data |-> data(index.items[k])]]
  <2>1. \/ Load(f) = Refused
        \/ kvs.at # Bad /\ index.at # Bad
           /\ Load(f) = [ok |-> TRUE, kvs |-> kvs.items, tensors |-> tensors]
    BY <1>2, Zenon DEF Load
  <2>2. Len(f) \in Nat /\ 24 <= Len(f) /\ 24 \in Places(f)
    BY <1>2 DEF HeaderOK, Holds, Places
  <2>3. Num(f, 16) \in Nat /\ Num(f, 8) \in Nat /\ Fits(Num(f, 16)) /\ Fits(Num(f, 8))
    BY <2>2, NumIs, NumFits
  <2>k. TableOf(Places(f), KvType, Num(f, 16), kvs)
    BY <2>2, <2>3, KvTableIs
  <2>4. /\ kvs \in [at : Places(f), items : Seq(KvType)]
        /\ kvs.at # Bad => Len(kvs.items) = Num(f, 16)
    <3> HIDE DEF kvs
    <3> QED BY <2>k DEF TableOf
  <2> HIDE DEF kvs
  <2>5. kvs.at \in Places(f) /\ kvs.items \in Seq(KvType)
    BY <2>4
  <2>i. TableOf(Places(f), TensorType, Num(f, 8), index)
    BY <2>3, <2>5, IndexTableIs
  <2> HIDE DEF index
  <2>6. /\ index \in [at : Places(f), items : Seq(TensorType)]
        /\ index.at # Bad => Len(index.items) = Num(f, 8)
    BY <2>i DEF TableOf
  <2>7. PICK items \in Seq(TensorType) : items = index.items
    BY <2>6
  <2>8. DOMAIN items = 1..Len(items) /\ Len(items) \in Nat
        /\ \A k \in 1..Len(items) : Shaped(items[k].name, items[k].dims)
    <3>1. ASSUME NEW t \in TensorType PROVE Shaped(t.name, t.dims)
      BY DEF TensorType
    <3>2. \A k \in 1..Len(items) : items[k] \in TensorType
      OBVIOUS
    <3> QED BY <3>1, <3>2
  <2> HIDE DEF data
  <2>9. tensors = [k \in 1..Len(items) |-> tensors[k]]
    BY <2>7, <2>8
  <2>10. \A k \in 1..Len(items) : tensors[k].name = items[k].name /\ tensors[k].dims = items[k].dims
    BY <2>7, <2>8
  <2> HIDE DEF tensors
  <2>11. IsSeq(tensors) /\ Len(tensors) = Len(items)
    BY <2>8, <2>9, BuiltIs
  <2>12. ASSUME Load(f) # Refused PROVE Load(f).ok = TRUE /\ LoadedType(Load(f))
    <3>1. Load(f).ok = TRUE /\ Load(f).kvs = kvs.items /\ Load(f).tensors = tensors
      BY <2>1, <2>12
    <3>2. \A k \in 1..Len(tensors) : Shaped(tensors[k].name, tensors[k].dims)
      BY <2>8, <2>10, <2>11
    <3>3. Fits(Len(kvs.items)) /\ Fits(Len(tensors))
      BY <2>1, <2>3, <2>4, <2>6, <2>7, <2>11, <2>12
    <3> QED BY <2>5, <2>11, <3>1, <3>2, <3>3 DEF LoadedType
  <2> QED BY <2>12
<1> QED BY <1>1, <1>2

-----------------------------------------------------------------------------
(* What the writer writes.                                                   *)

\* A row's size is a number.
LEMMA RowBytesIs ==
  ASSUME NEW type, NEW n \in Nat
  PROVE  RowBytes(type, n) \in Nat
<1>1. BlockElems(type) \in Nat /\ BlockBytes(type) \in Nat
  BY DEF BlockElems, BlockBytes
<1>2. PICK e \in Nat, b \in Nat : e = BlockElems(type) /\ b = BlockBytes(type)
  BY <1>1
<1>3. RowBytes(type, n) = IF e = 0 \/ n % e # 0 THEN 0 ELSE (n \div e) * b
  BY <1>2 DEF RowBytes
<1>4. CASE e = 0
  BY <1>3, <1>4
<1>5. CASE e # 0
  <2>1. n \div e \in Nat
    BY <1>5, QuotientBounds
  <2>2. (n \div e) * b \in Nat
    BY <2>1
  <2> QED BY <1>3, <2>2
<1> QED BY <1>4, <1>5

TensorOut(t) == t.name \in Seq(Byte) /\ t.dims \in Seq(Nat) /\ IsSeq(t.data)

\* A recoded tensor.
LEMMA RecodedIs ==
  ASSUME NEW t, t.name \in Seq(Byte), t.dims \in Seq(Nat)
  PROVE  TensorOut(Recoded(t))
<1>1. PICK n \in Nat : n = ProductOf(t.dims)
  BY ProductIs
<1>2. PICK target : target = TargetType(NameHas(t.name), Base, n)
  OBVIOUS
<1>3. PICK size \in Nat : size = RowBytes(target, n)
  BY RowBytesIs
<1>4. PICK data : data = Stretch(t.data, size)
  OBVIOUS
<1>5. Recoded(t) = [name |-> t.name, dims |-> t.dims, type |-> target, data |-> data]
  BY <1>1, <1>2, <1>3, <1>4 DEF Recoded
<1>6. IsSeq(data)
  <2>1. data = [k \in 1..size |-> data[k]]
    BY <1>4 DEF Stretch
  <2> QED BY <2>1, BuiltIs
<1> QED BY <1>5, <1>6 DEF TensorOut

\* Numbers and strings.
LEMMA NumbersAre == \A v : IsSeq(U32(v)) /\ IsSeq(U64(v))
<1>1. ASSUME NEW v, NEW w \in Nat PROVE IsSeq(Le(v, w))
  <2>1. Le(v, w) = [k \in 1..w |-> Le(v, w)[k]]
    BY DEF Le
  <2> QED BY <2>1, BuiltIs
<1> QED BY <1>1 DEF U32, U64

LEMMA StrIs == ASSUME NEW s, IsSeq(s) PROVE IsSeq(Str(s))
BY NumbersAre, ConcatIs DEF Str

\* A record of the metadata.
LEMMA KvBytesAre == ASSUME NEW kv \in KvType PROVE IsSeq(KvBytes(kv))
<1>1. IsSeq(kv.key) /\ IsSeq(kv.payload)
  BY DEF KvType, IsSeq
<1>2. IsSeq(Str(kv.key)) /\ IsSeq(U32(kv.tag))
  BY <1>1, StrIs, NumbersAre
<1>3. IsSeq(Str(kv.key) \o U32(kv.tag))
  BY <1>2, ConcatIs
<1> QED BY <1>1, <1>3, ConcatIs DEF KvBytes

\* The start of the header.
LEMMA HeaderIs ==
  ASSUME NEW kvs \in Seq(KvType), NEW n
  PROVE  IsSeq(HeaderBytes(kvs, n))
<1> DEFINE rows == [k \in DOMAIN kvs |-> KvBytes(kvs[k])]
<1>1. IsSeq(Magic)
  BY BytesAssumption DEF IsSeq
<1>2. IsSeq(FlattenSeq(rows))
  <2>1. rows = [k \in 1..Len(kvs) |-> rows[k]]
    OBVIOUS
  <2>2. \A k \in 1..Len(kvs) : kvs[k] \in KvType /\ rows[k] = KvBytes(kvs[k])
    OBVIOUS
  <2> HIDE DEF rows
  <2>3. IsSeq(rows) /\ Len(rows) = Len(kvs)
    BY <2>1, BuiltIs
  <2>4. PICK U : rows \in Seq(U)
    BY <2>3 DEF IsSeq
  <2>5. \A k \in 1..Len(rows) : IsSeq(rows[k])
    BY <2>2, <2>3, KvBytesAre
  <2> QED BY <2>4, <2>5, FlattenIs
<1> HIDE DEF rows
<1>3. PICK a, b, c, d : /\ a = U32(Version) /\ b = U64(n) /\ c = U64(Len(kvs))
                        /\ d = FlattenSeq(rows)
  OBVIOUS
<1>4. IsSeq(a) /\ IsSeq(b) /\ IsSeq(c) /\ IsSeq(d)
  BY <1>2, <1>3, NumbersAre
<1>5. IsSeq(Magic \o a)
  BY <1>1, <1>4, ConcatIs
<1>6. IsSeq((Magic \o a) \o b)
  BY <1>4, <1>5, ConcatIs
<1>7. IsSeq(((Magic \o a) \o b) \o c)
  BY <1>4, <1>6, ConcatIs
<1>8. IsSeq((((Magic \o a) \o b) \o c) \o d)
  BY <1>4, <1>7, ConcatIs
<1>9. HeaderBytes(kvs, n) = (((Magic \o a) \o b) \o c) \o d
  BY <1>3 DEF HeaderBytes, rows
<1> QED BY <1>8, <1>9

\* A record of the index.
LEMMA IndexBytesAre ==
  ASSUME NEW t, TensorOut(t), NEW o
  PROVE  IsSeq(IndexBytes(t, o))
<1> DEFINE rows == [d \in DOMAIN t.dims |-> U64(t.dims[d])]
<1>1. PICK dims \in Seq(Nat) : dims = t.dims
  BY DEF TensorOut
<1>2. IsSeq(FlattenSeq(rows))
  <2>1. rows = [k \in 1..Len(dims) |-> rows[k]] /\ \A k \in 1..Len(dims) : rows[k] = U64(dims[k])
    BY <1>1
  <2> HIDE DEF rows
  <2>2. IsSeq(rows) /\ Len(rows) = Len(dims)
    BY <2>1, BuiltIs
  <2>3. PICK U : rows \in Seq(U)
    BY <2>2 DEF IsSeq
  <2>4. \A k \in 1..Len(rows) : IsSeq(rows[k])
    BY <2>1, <2>2, NumbersAre
  <2> QED BY <2>3, <2>4, FlattenIs
<1> HIDE DEF rows
<1>3. PICK a, b, c, d, e : /\ a = Str(t.name) /\ b = U32(Len(t.dims)) /\ c = FlattenSeq(rows)
                           /\ d = U32(t.type) /\ e = U64(o)
  OBVIOUS
<1>4. IsSeq(a) /\ IsSeq(b) /\ IsSeq(c) /\ IsSeq(d) /\ IsSeq(e)
  <2>1. IsSeq(t.name)
    BY DEF TensorOut, IsSeq
  <2> QED BY <1>2, <1>3, <2>1, NumbersAre, StrIs
<1>5. IsSeq(a \o b)
  BY <1>4, ConcatIs
<1>6. IsSeq((a \o b) \o c)
  BY <1>4, <1>5, ConcatIs
<1>7. IsSeq(((a \o b) \o c) \o d)
  BY <1>4, <1>6, ConcatIs
<1>8. IsSeq((((a \o b) \o c) \o d) \o e)
  BY <1>4, <1>7, ConcatIs
<1>9. IndexBytes(t, o) = (((a \o b) \o c) \o d) \o e
  BY <1>3 DEF IndexBytes, rows
<1> QED BY <1>8, <1>9

\* Padding brings a file to a multiple of the alignment.
LEMMA PadIs ==
  ASSUME NEW f, IsSeq(f)
  PROVE  IsSeq(PadTo(f, Alignment)) /\ Len(PadTo(f, Alignment)) = AlignUp(Len(f), Alignment)
<1>1. Len(f) \in Nat
  BY DEF IsSeq
<1>2. PICK n \in Nat : n = AlignUp(Len(f), Alignment) - Len(f)
  <2>1. AlignUp(Len(f), Alignment) \in Nat /\ AlignUp(Len(f), Alignment) >= Len(f)
    BY <1>1, AlignmentAssumption, AlignUpBounds
  <2> QED BY <1>1, <2>1
<1> DEFINE pad == [k \in 1..n |-> 0]
<1>3. IsSeq(pad) /\ Len(pad) = n
  BY DEF IsSeq
<1>4. PadTo(f, Alignment) = f \o pad
  BY <1>2 DEF PadTo
<1> HIDE DEF pad
<1>5. IsSeq(f \o pad) /\ Len(f \o pad) = Len(f) + n
  BY <1>3, ConcatIs
<1>6. AlignUp(Len(f), Alignment) \in Nat
  BY <1>1, AlignmentAssumption, AlignUpBounds
<1> QED BY <1>1, <1>2, <1>4, <1>5, <1>6
-----------------------------------------------------------------------------
(* The writer implements the layout.                                         *)

(***************************************************************************)
(* What the mapping stands on: files are bytes and tensors sequences of    *)
(* them, and before the output is opened nothing of it exists.             *)
(***************************************************************************)
WriterInv ==
  /\ input \in Seq(Byte)
  /\ phase = "recode" => LoadedType(loaded)
  /\ IsSeq(recoded) /\ \A k \in 1..Len(recoded) : TensorOut(recoded[k])
  /\ IsSeq(header) /\ IsSeq(disk) /\ IsSeq(offs) /\ written \in Nat
  /\ phase \in {"load", "recode"} => header = <<>>

SizesOf(r) == [k \in DOMAIN r |-> Len(r[k].data)]
StartOf(p, h) == IF p \in {"load", "recode", "index"} THEN 0 ELSE AlignUp(Len(h), Alignment)
PhaseOf(p) == CASE p \in {"load", "recode"} -> "collect" [] p = "failed" -> "stopped" [] OTHER -> p

\* One more element.
LEMMA AppendIs ==
  ASSUME NEW s, IsSeq(s), NEW e
  PROVE  /\ IsSeq(Append(s, e)) /\ Len(s) \in Nat /\ Len(Append(s, e)) = Len(s) + 1
         /\ DOMAIN s = 1..Len(s) /\ DOMAIN Append(s, e) = 1..(Len(s) + 1)
         /\ Append(s, e)[Len(s) + 1] = e
         /\ \A k \in 1..Len(s) : Append(s, e)[k] = s[k]
<1>1. PICK S : s \in Seq(S)
  BY DEF IsSeq
<1>2. s \in Seq(S \cup {e}) /\ e \in S \cup {e}
  BY <1>1
<1>3. Append(s, e) \in Seq(S \cup {e})
  BY <1>2
<1> QED BY <1>2, <1>3 DEF IsSeq

\* It holds at the start.
LEMMA InitWriterInv == Init => WriterInv
<1> SUFFICES ASSUME Init PROVE WriterInv
  OBVIOUS
<1>1. input \in Seq(Byte)
  BY BytesAssumption DEF Init, Byte
<1>2. IsSeq(<<>>) /\ Len(<<>>) = 0
  BY DEF IsSeq
<1> QED BY <1>1, <1>2 DEF Init, WriterInv, NoFile

\* Every step keeps it.
LEMMA WriterStep == WriterInv /\ [Next]_vars => WriterInv'
<1> SUFFICES ASSUME WriterInv, [Next]_vars PROVE WriterInv'
  OBVIOUS
<1> USE DEF WriterInv
<1>1. CASE LoadInput
  <2>1. phase' = "recode" => LoadedType(loaded')
    <3>1. Load(input) = Refused \/ (Load(input).ok = TRUE /\ LoadedType(Load(input)))
      BY LoadIs
    <3>2. loaded' = Load(input) /\ phase' = IF loaded'.ok THEN "recode" ELSE "failed"
      BY <1>1 DEF LoadInput
    <3>3. Refused.ok = FALSE
      BY DEF Refused
    <3> QED BY <3>1, <3>2, <3>3
  <2> QED BY <1>1, <2>1 DEF LoadInput
<1>2. CASE Recode
  <2>1. LoadedType(loaded) /\ loaded' = loaded
    BY <1>2 DEF Recode
  <2>2. PICK n : n = Len(recoded) + 1
    OBVIOUS
  <2>3. PICK t : t = loaded.tensors[n]
    OBVIOUS
  <2>4. CASE CanDecode(t.type)
    <3>1. recoded' = Append(recoded, Recoded(t)) /\ phase' = phase
      BY <1>2, <2>2, <2>3, <2>4 DEF Recode
    <3>2. Len(recoded) \in Nat /\ n \in 1..Len(loaded.tensors)
      <4>1. Len(recoded) \in Nat /\ Len(loaded.tensors) \in Nat
        BY <2>1 DEF IsSeq, LoadedType
      <4>2. Len(recoded) < Len(loaded.tensors)
        BY <1>2 DEF Recode
      <4> QED BY <2>2, <4>1, <4>2
    <3>3. TensorOut(Recoded(t))
      <4>1. t.name \in Seq(Byte) /\ t.dims \in Seq(Nat)
        BY <2>1, <2>3, <3>2 DEF LoadedType, Shaped
      <4> QED BY <4>1, RecodedIs
    <3>4. PICK e : e = Recoded(t)
      OBVIOUS
    <3>5. IsSeq(recoded') /\ \A k \in 1..Len(recoded') : TensorOut(recoded'[k])
      <4>1. IsSeq(recoded') /\ Len(recoded') = Len(recoded) + 1 /\ recoded'[Len(recoded) + 1] = e
            /\ \A k \in 1..Len(recoded) : recoded'[k] = recoded[k]
        BY <3>1, <3>4, AppendIs
      <4>2. ASSUME NEW k \in 1..Len(recoded') PROVE TensorOut(recoded'[k])
        <5>1. CASE k = Len(recoded) + 1
          BY <3>3, <3>4, <4>1, <5>1
        <5>2. CASE k # Len(recoded) + 1
          <6>1. k \in 1..Len(recoded)
            BY <3>2, <4>1, <5>2
          <6>2. recoded'[k] = recoded[k] /\ TensorOut(recoded[k])
            BY <4>1, <6>1
          <6> QED BY <6>2
        <5> QED BY <5>1, <5>2
      <4> QED BY <4>1, <4>2
    <3> QED BY <1>2, <2>1, <3>1, <3>5 DEF Recode
  <2>5. CASE ~CanDecode(t.type)
    BY <1>2, <2>2, <2>3, <2>5 DEF Recode
  <2> QED BY <2>4, <2>5
<1>3. CASE OpenOutput
  <2>1. IsSeq(header')
    <3>1. LoadedType(loaded)
      BY <1>3 DEF OpenOutput
    <3>2. IsSeq(HeaderBytes(loaded.kvs, Len(recoded)))
      BY <3>1, HeaderIs DEF LoadedType
    <3> QED BY <1>3, <3>2 DEF OpenOutput
  <2> QED BY <1>3, <2>1 DEF OpenOutput
<1>4. CASE IndexTensor
  <2>1. PICK t : t = recoded[Len(offs) + 1]
    OBVIOUS
  <2>2. header' = header \o IndexBytes(t, off) /\ offs' = Append(offs, off)
    BY <1>4, <2>1 DEF IndexTensor
  <2>3. TensorOut(t)
    <3>1. Len(offs) \in Nat /\ Len(recoded) \in Nat
      BY DEF IsSeq
    <3>2. Len(offs) + 1 \in 1..Len(recoded)
      BY <1>4, <3>1 DEF IndexTensor
    <3> QED BY <2>1, <3>2
  <2>4. IsSeq(header')
    BY <2>2, <2>3, IndexBytesAre, ConcatIs
  <2>5. IsSeq(offs')
    BY <2>2, AppendIs
  <2> QED BY <1>4, <2>4, <2>5 DEF IndexTensor
<1>5. CASE WriteHeader
  <2>1. IsSeq(disk')
    BY <1>5, PadIs DEF WriteHeader
  <2> QED BY <1>5, <2>1 DEF WriteHeader
<1>6. CASE WriteTensor
  <2>1. IsSeq(recoded[written + 1].data)
    <3>1. Len(recoded) \in Nat
      BY DEF IsSeq
    <3>2. written + 1 \in 1..Len(recoded)
      BY <1>6, <3>1 DEF WriteTensor
    <3> QED BY <3>2 DEF TensorOut
  <2>2. PICK d : d = recoded[written + 1].data
    OBVIOUS
  <2>3. IsSeq(disk \o d)
    BY <2>1, <2>2, ConcatIs
  <2>4. disk' = PadTo(disk \o d, Alignment) /\ written' = written + 1
    BY <1>6, <2>2 DEF WriteTensor
  <2>5. IsSeq(disk') /\ written' \in Nat
    BY <2>3, <2>4, PadIs
  <2> QED BY <1>6, <2>5 DEF WriteTensor
<1>7. CASE CloseOutput
  BY <1>7 DEF CloseOutput
<1>8. CASE Cut
  <2>1. PICK k \in 0..Len(disk) : disk' = SubSeq(disk, 1, k)
    BY <1>8 DEF Cut
  <2>2. IsSeq(disk')
    <3>1. PICK S : disk \in Seq(S)
      BY DEF IsSeq
    <3>2. SubSeq(disk, 1, k) \in Seq(S)
      BY <3>1
    <3> QED BY <2>1, <3>2 DEF IsSeq
  <2> QED BY <1>8, <2>2 DEF Cut
<1>9. CASE Done \/ UNCHANGED vars
  BY <1>9 DEF Done, vars
<1> QED BY <1>1, <1>2, <1>3, <1>4, <1>5, <1>6, <1>7, <1>8, <1>9 DEF Next

\* What the mapping makes of the variables.
LEMMA MappedIs ==
  /\ Layout!Init <=> /\ SizesOf(recoded) = <<>>
                     /\ offs = <<>> /\ off = 0
                     /\ StartOf(phase, header) = 0 /\ Len(disk) = 0 /\ written = 0
                     /\ PhaseOf(phase) = "collect"
  /\ Layout!vars = <<SizesOf(recoded), offs, off, StartOf(phase, header), Len(disk), written,
                     PhaseOf(phase)>>
BY DEF Layout!Init, Layout!vars, SizesOf, StartOf, PhaseOf

\* The initial states map to the initial state.
LEMMA InitMaps == Init => Layout!Init
<1> SUFFICES ASSUME Init PROVE Layout!Init
  OBVIOUS
<1>1. SizesOf(<<>>) = <<>>
  BY DEF SizesOf
<1> QED BY <1>1, MappedIs DEF Init, StartOf, PhaseOf, NoFile

\* Sizes are numbers, one for every tensor.
LEMMA SizesAre ==
  ASSUME NEW r, IsSeq(r), \A k \in 1..Len(r) : IsSeq(r[k].data)
  PROVE  /\ SizesOf(r) \in Seq(Nat) /\ Len(SizesOf(r)) = Len(r) /\ Len(r) \in Nat
         /\ \A k \in 1..Len(r) : SizesOf(r)[k] = Len(r[k].data)
<1>1. Len(r) \in Nat /\ DOMAIN r = 1..Len(r)
  BY DEF IsSeq
<1>2. \A k \in 1..Len(r) : Len(r[k].data) \in Nat
  BY DEF IsSeq
<1>3. SizesOf(r) = [k \in 1..Len(r) |-> Len(r[k].data)]
  BY <1>1 DEF SizesOf
<1> QED BY <1>1, <1>2, <1>3

\* A place that is rounded up is a place.
LEMMA AlignUpTwice ==
  ASSUME NEW x \in Nat
  PROVE  AlignUp(AlignUp(x, Alignment), Alignment) = AlignUp(x, Alignment)
<1>1. PICK a \in Nat \ {0} : a = Alignment
  BY AlignmentAssumption
<1>2. PICK q \in Nat : q = (x + a - 1) \div a
  <2>1. x + a - 1 \in Nat
    BY <1>1
  <2> QED BY <1>1, <2>1, QuotientBounds
<1>3. AlignUp(x, a) = q * a
  BY <1>2 DEF AlignUp
<1>4. AlignUp(q * a + 0, a) = q * a + AlignUp(0, a) /\ q * a \in Nat
  BY AlignUpShift
<1>5. AlignUp(0, a) = 0
  <2>1. a * 0 + (a - 1) = 0 + a - 1 /\ a - 1 \in 0..(a - 1)
    OBVIOUS
  <2>2. (0 + a - 1) \div a = 0
    BY <2>1, QuotientUnique
  <2> QED BY <2>2 DEF AlignUp
<1>6. q * a + 0 = q * a
  BY <1>4
<1> QED BY <1>1, <1>3, <1>4, <1>5, <1>6

\* Every step maps to a step of the layout, or to none.
LEMMA StepMaps == WriterInv /\ WriterInv' /\ [Next]_vars => [Layout!Next]_(Layout!vars)
<1> SUFFICES ASSUME WriterInv, WriterInv', [Next]_vars PROVE [Layout!Next]_(Layout!vars)
  OBVIOUS
<1> DEFINE s == SizesOf(recoded)
           z == SizesOf(recoded')
<1>0. /\ Len(disk) \in Nat /\ Len(disk') \in Nat /\ Len(header) \in Nat /\ Len(offs) \in Nat
      /\ s \in Seq(Nat) /\ Len(s) = Len(recoded) /\ Len(recoded) \in Nat
      /\ \A k \in 1..Len(recoded) : s[k] = Len(recoded[k].data)
      /\ z \in Seq(Nat) /\ Len(z) = Len(recoded')
      /\ \A k \in 1..Len(recoded') : z[k] = Len(recoded'[k].data)
  <2>1. /\ Len(disk) \in Nat /\ Len(disk') \in Nat /\ Len(header) \in Nat /\ Len(offs) \in Nat
    BY DEF WriterInv, IsSeq
  <2>2. \A k \in 1..Len(recoded) : IsSeq(recoded[k].data)
    BY DEF WriterInv, TensorOut
  <2>3. \A k \in 1..Len(recoded') : IsSeq(recoded'[k].data)
    BY DEF WriterInv, TensorOut
  <2>4. IsSeq(recoded) /\ IsSeq(recoded')
    BY DEF WriterInv
  <2>5. /\ s \in Seq(Nat) /\ Len(s) = Len(recoded) /\ Len(recoded) \in Nat
        /\ \A k \in 1..Len(recoded) : s[k] = Len(recoded[k].data)
    BY <2>2, <2>4, SizesAre
  <2>6. /\ z \in Seq(Nat) /\ Len(z) = Len(recoded')
        /\ \A k \in 1..Len(recoded') : z[k] = Len(recoded'[k].data)
    BY <2>3, <2>4, SizesAre
  <2> QED BY <2>1, <2>5, <2>6
<1>s. ASSUME phase' = "failed", phase \in {"load", "recode", "data"},
             UNCHANGED <<recoded, header, offs, off, written>>
      PROVE  Layout!Stop
  <2>1. phase \in {"load", "recode"} => AlignUp(Len(header), Alignment) = 0
    <3>1. ASSUME phase \in {"load", "recode"} PROVE header = <<>>
      BY <3>1 DEF WriterInv
    <3>2. PICK a \in Nat \ {0} : a = Alignment
      BY AlignmentAssumption
    <3>3. a * 0 + (a - 1) = 0 + a - 1 /\ a - 1 \in 0..(a - 1)
      OBVIOUS
    <3>4. (0 + a - 1) \div a = 0
      BY <3>3, QuotientUnique
    <3>5. AlignUp(0, a) = 0
      BY <3>4 DEF AlignUp
    <3> QED BY <3>1, <3>2, <3>5
  <2>2. StartOf(phase', header') = StartOf(phase, header)
    BY <1>s, <2>1 DEF StartOf
  <2>3. PhaseOf(phase') = "stopped" /\ PhaseOf(phase) \in {"collect", "index", "data"}
    BY <1>s DEF PhaseOf
  <2> QED BY <1>0, <1>s, <2>2, <2>3 DEF Layout!Stop, SizesOf, StartOf, PhaseOf
<1>1. CASE LoadInput
  <2>1. CASE phase' = "failed"
    BY <1>1, <1>s, <2>1 DEF LoadInput, Layout!Next
  <2>2. CASE phase' = "recode"
    BY <1>1, <2>2, MappedIs DEF LoadInput, Layout!vars, SizesOf, StartOf, PhaseOf
  <2> QED BY <1>1, <2>1, <2>2 DEF LoadInput
<1>2. CASE Recode
  <2>1. CASE phase' = "failed"
    BY <1>2, <1>s, <2>1 DEF Recode, Layout!Next
  <2>2. CASE phase' # "failed"
    <3>1. PICK e : recoded' = Append(recoded, e)
      BY <1>2, <2>2 DEF Recode
    <3>2. Len(z) = Len(s) + 1 /\ \A k \in 1..Len(s) : recoded'[k] = recoded[k]
      BY <1>0, <3>1, AppendIs DEF WriterInv
    <3>3. SubSeq(z, 1, Len(s)) = s
      <4>1. ASSUME NEW k \in 1..Len(s) PROVE z[k] = s[k]
        <5>1. k \in 1..Len(recoded) /\ k \in 1..Len(recoded')
          BY <1>0, <3>2
        <5>2. z[k] = Len(recoded'[k].data) /\ s[k] = Len(recoded[k].data)
          BY <1>0, <5>1
        <5> QED BY <3>2, <5>2
      <4> HIDE DEF s, z
      <4> QED BY <1>0, <3>2, <4>1
    <3>4. phase = "recode" /\ phase' = "recode" /\ UNCHANGED <<header, offs, off, disk, written>>
      BY <1>2, <2>2 DEF Recode
    <3>5. Layout!Add
      BY <1>0, <3>2, <3>3, <3>4 DEF Layout!Add, SizesOf, StartOf, PhaseOf
    <3> QED BY <3>5 DEF Layout!Next
  <2> QED BY <2>1, <2>2
<1>3. CASE OpenOutput
  <2>1. CASE phase' = "failed"
    BY <1>3, <1>s, <2>1 DEF OpenOutput, Layout!Next
  <2>2. CASE phase' # "failed"
    BY <1>3, <2>2 DEF OpenOutput, Layout!Open, Layout!Next
  <2> QED BY <2>1, <2>2
<1>4. CASE IndexTensor
  <2>1. Len(offs) + 1 \in 1..Len(recoded)
    BY <1>0, <1>4 DEF IndexTensor
  <2>2. s[Len(offs) + 1] = Len(recoded[Len(offs) + 1].data)
    BY <1>0, <2>1
  <2>3. off' = AlignUp(off + s[Len(offs) + 1], Alignment)
    BY <1>4, <2>2 DEF IndexTensor
  <2>4. Layout!Index
    BY <1>0, <1>4, <2>3 DEF IndexTensor, Layout!Index, Layout!AlignUp, AlignUp, SizesOf
  <2> QED BY <2>4 DEF Layout!Next
<1>5. CASE WriteHeader
  <2>1. PICK x \in Nat : x = AlignUp(Len(header), Alignment)
    BY <1>0, AlignmentAssumption, AlignUpBounds
  <2>2. x = AlignUp(x, Alignment) /\ Len(disk') = x
    <3>1. AlignUp(AlignUp(Len(header), Alignment), Alignment) = AlignUp(Len(header), Alignment)
      BY <1>0, AlignUpTwice
    <3>2. Len(PadTo(header, Alignment)) = AlignUp(Len(header), Alignment)
      BY PadIs DEF WriterInv
    <3> QED BY <1>5, <2>1, <3>1, <3>2 DEF WriteHeader
  <2>3. StartOf(phase', header') = x
    BY <1>5, <2>1 DEF WriteHeader, StartOf
  <2>4. Layout!Header
    BY <1>0, <1>5, <2>2, <2>3
       DEF WriteHeader, Layout!Header, Layout!AlignUp, AlignUp, SizesOf, StartOf
  <2> QED BY <2>4 DEF Layout!Next
<1>6. CASE WriteTensor
  <2>1. written + 1 \in 1..Len(recoded)
    BY <1>0, <1>6 DEF WriteTensor, WriterInv
  <2>2. PICK d : d = recoded[written + 1].data
    OBVIOUS
  <2>3. IsSeq(d) /\ s[written + 1] = Len(d)
    BY <1>0, <2>1, <2>2 DEF WriterInv, TensorOut
  <2>4. Len(disk') = AlignUp(Len(disk) + s[written + 1], Alignment)
    <3>1. IsSeq(disk \o d) /\ Len(disk \o d) = Len(disk) + Len(d)
      BY <2>3, ConcatIs DEF WriterInv
    <3>2. Len(PadTo(disk \o d, Alignment)) = AlignUp(Len(disk \o d), Alignment)
      BY <3>1, PadIs
    <3> QED BY <1>6, <2>2, <2>3, <3>1, <3>2 DEF WriteTensor
  <2>5. Layout!Write
    BY <1>0, <1>6, <2>4 DEF WriteTensor, Layout!Write, Layout!AlignUp, AlignUp, SizesOf
  <2> QED BY <2>5 DEF Layout!Next
<1>7. CASE CloseOutput
  BY <1>0, <1>7 DEF CloseOutput, Layout!Close, Layout!Next, SizesOf
<1>8. CASE Cut
  BY <1>8, <1>s DEF Cut, Layout!Next
<1>9. CASE Done \/ UNCHANGED vars
  BY <1>9 DEF Done, vars, Layout!vars
<1> QED BY <1>1, <1>2, <1>3, <1>4, <1>5, <1>6, <1>7, <1>8, <1>9 DEF Next

(***************************************************************************)
(* Every behaviour of the writer is one of the layout, whatever the input, *)
(* the types its tensors are recoded to and the point where it is cut off: *)
(* the bytes it writes lie where the index it has written before says.     *)
(***************************************************************************)
THEOREM WriteImplementsLayout == Spec => LayoutSpec
<1>1. Init => WriterInv
  BY InitWriterInv
<1>2. WriterInv /\ [Next]_vars => WriterInv'
  BY WriterStep
<1>3. Init => Layout!Init
  BY InitMaps
<1>4. WriterInv /\ WriterInv' /\ [Next]_vars => [Layout!Next]_(Layout!vars)
  BY StepMaps
<1> QED
  BY <1>1, <1>2, <1>3, <1>4, PTL DEF Spec, LayoutSpec, Layout!Spec

-----------------------------------------------------------------------------
(* Records, one after the other.                                             *)

\* What lies within the bytes of a longer sequence is in them where they go on.
LEMMA AtKept ==
  ASSUME NEW f, NEW g, NEW p \in Nat, NEW s, IsSeq(f), IsSeq(g), IsSeq(s),
         At(f, p, s), p + Len(s) <= Len(f)
  PROVE  At(f \o g, p, s)
<1>1. PICK l \in Nat, m \in Nat, n \in Nat : l = Len(f) /\ m = Len(g) /\ n = Len(s)
  BY DEF IsSeq
<1>2. \A i \in 1..l : (f \o g)[i] = f[i]
  <2>1. PICK S, T : f \in Seq(S) /\ g \in Seq(T)
    BY DEF IsSeq
  <2>2. f \in Seq(S \cup T) /\ g \in Seq(S \cup T)
    BY <2>1
  <2> QED BY <1>1, <2>2
<1>3. ASSUME NEW i \in 1..n PROVE (f \o g)[p + i] = s[i]
  <2>1. p + i \in 1..l
    BY <1>1
  <2>2. f[p + i] = s[i]
    BY <1>1, <2>1 DEF At
  <2> QED BY <1>2, <2>1, <2>2
<1> QED BY <1>1, <1>3 DEF At

\* A part of what a file holds is held by the file.
LEMMA AtWithin ==
  ASSUME NEW f, NEW p \in Nat, NEW h, NEW o \in Nat, NEW s, IsSeq(h), IsSeq(s),
         At(f, p, h), At(h, o, s), o + Len(s) <= Len(h)
  PROVE  At(f, p + o, s)
<1>1. PICK l \in Nat, n \in Nat : l = Len(h) /\ n = Len(s)
  BY DEF IsSeq
<1>2. ASSUME NEW i \in 1..n, (p + o) + i <= Len(f) PROVE f[(p + o) + i] = s[i]
  <2>1. o + i \in 1..l /\ p + (o + i) = (p + o) + i
    BY <1>1
  <2>2. h[o + i] = s[i]
    BY <1>1, <2>1 DEF At
  <2>3. f[p + (o + i)] = h[o + i]
    BY <1>1, <1>2, <2>1 DEF At
  <2> QED BY <2>1, <2>2, <2>3
<1> QED BY <1>1, <1>2 DEF At

\* The bytes h are n rows, from place P[0] to the end; row k ends at P[k].
Strung(h, P, rows, n) ==
  /\ IsSeq(h) /\ P[n] = Len(h)
  /\ \A k \in 0..n : P[k] \in 0..Len(h)
  /\ \A k \in 1..n : IsSeq(rows[k]) /\ P[k] = P[k - 1] + Len(rows[k]) /\ At(h, P[k - 1], rows[k])

\* One more row.
LEMMA StrungMore ==
  ASSUME NEW h, NEW P, NEW rows, NEW n \in Nat, Strung(h, P, rows, n), NEW r, IsSeq(r),
         NEW more, \A k \in 1..n : more[k] = rows[k], more[n + 1] = r
  PROVE  \E Q : Q[0] = P[0] /\ Strung(h \o r, Q, more, n + 1)
<1> DEFINE Q == [k \in 0..(n + 1) |-> IF k = n + 1 THEN Len(h) + Len(r) ELSE P[k]]
<1>1. PICK l \in Nat, m \in Nat : l = Len(h) /\ m = Len(r)
  BY DEF Strung, IsSeq
<1>2. IsSeq(h \o r) /\ Len(h \o r) = l + m
  BY <1>1, ConcatIs DEF Strung
<1>3. Q[n + 1] = l + m /\ \A k \in 0..n : Q[k] = P[k]
  <2>1. \A k \in 0..n : k \in 0..(n + 1) /\ k # n + 1
    OBVIOUS
  <2> QED BY <1>1, <2>1
<1> HIDE DEF Q
<1>4. \A k \in 0..(n + 1) : Q[k] \in 0..(l + m)
  <2> SUFFICES ASSUME NEW k \in 0..(n + 1) PROVE Q[k] \in 0..(l + m)
    OBVIOUS
  <2>1. CASE k = n + 1
    BY <1>3, <2>1
  <2>2. CASE k \in 0..n
    <3>1. P[k] \in 0..l
      BY <1>1, <2>2 DEF Strung
    <3> QED BY <1>3, <2>2, <3>1
  <2> QED BY <2>1, <2>2
<1>5. ASSUME NEW k \in 1..(n + 1)
      PROVE  IsSeq(more[k]) /\ Q[k] = Q[k - 1] + Len(more[k]) /\ At(h \o r, Q[k - 1], more[k])
  <2>1. CASE k = n + 1
    <3>1. Q[k - 1] = l /\ more[k] = r /\ Q[k] = l + m
      <4>1. k - 1 = n /\ n \in 0..n
        BY <2>1
      <4> QED BY <1>1, <1>3, <2>1, <4>1 DEF Strung
    <3>2. At(h \o r, l, r)
      <4>1. PICK z \in Nat : z = 0
        OBVIOUS
      <4>2. At(h \o r, z, h \o r)
        <5>1. \A i \in 1..Len(h \o r) : z + i = i
          BY <1>2, <4>1
        <5> QED BY <5>1 DEF At
      <4>3. At(h \o r, z + Len(h), r)
        BY <1>2, <4>2, AtConcat DEF Strung
      <4>4. z + Len(h) = l
        BY <1>1, <4>1
      <4> QED BY <4>3, <4>4
    <3> QED BY <1>1, <3>1, <3>2
  <2>2. CASE k \in 1..n
    <3>1. PICK row : row = rows[k]
      OBVIOUS
    <3>2. IsSeq(row) /\ P[k] = P[k - 1] + Len(row) /\ At(h, P[k - 1], row)
      BY <2>2, <3>1 DEF Strung
    <3>3. P[k] \in 0..l /\ P[k - 1] \in 0..l /\ k - 1 \in 0..n /\ k \in 0..n
      BY <1>1, <2>2 DEF Strung
    <3>4. At(h \o r, P[k - 1], row)
      <4>1. PICK p \in Nat : p = P[k - 1]
        BY <3>3
      <4>2. p + Len(row) <= Len(h)
        BY <1>1, <3>2, <3>3, <4>1
      <4>3. IsSeq(h) /\ At(h, p, row)
        BY <3>2, <4>1 DEF Strung
      <4> QED BY <3>2, <4>1, <4>2, <4>3, AtKept
    <3>5. Q[k] = P[k] /\ Q[k - 1] = P[k - 1]
      BY <1>3, <3>3
    <3>6. more[k] = row
      BY <2>2, <3>1
    <3> QED BY <3>2, <3>4, <3>5, <3>6
  <2> QED BY <2>1, <2>2
<1>6. Strung(h \o r, Q, more, n + 1)
  BY <1>2, <1>3, <1>4, <1>5 DEF Strung
<1>7. Q[0] = P[0]
  <2>1. 0 \in 0..n
    OBVIOUS
  <2> QED BY <1>3, <2>1
<1> QED BY <1>6, <1>7

\* Sequences flattened are their elements, one after the other.
LEMMA FlattenStrung ==
  ASSUME NEW U, NEW ss \in Seq(U), \A k \in 1..Len(ss) : IsSeq(ss[k])
  PROVE  \E P : P[0] = 0 /\ Strung(FlattenSeq(ss), P, ss, Len(ss))
<1> DEFINE n == Len(ss)
           r == Flats!Rec(ss, 1, n)
<1>1. n \in Nat
  OBVIOUS
<1>2. FlattenSeq(ss) = IF n = 0 THEN ss ELSE r[n]
  BY DEF FlattenSeq, Flats!Rec, FlatOp
<1>3. \A i \in 1..n : r[i] = FlatOp(ss, r[i - 1], i)
  <2>1. \A x, y : FlatOp(ss, x, 1) = FlatOp(ss, y, 1)
    BY DEF FlatOp
  <2>2. 1 \in Int /\ n \in Int
    BY <1>1
  <2> HIDE DEF n
  <2> QED BY <2>1, <2>2, Flats!RecAt
<1>e. PICK h, Z : h = <<>> /\ Z = [k \in 0..0 |-> 0]
  OBVIOUS
<1>z. Z[0] = 0 /\ Strung(h, Z, ss, 0)
  <2>1. IsSeq(h) /\ Len(h) = 0
    BY <1>e DEF IsSeq
  <2>2. \A k \in 0..0 : Z[k] = 0
    BY <1>e
  <2> QED BY <2>1, <2>2 DEF Strung
<1> HIDE DEF r
<1> DEFINE I == {m \in Nat : m \in 1..n => \E P : P[0] = 0 /\ Strung(r[m], P, ss, m)}
<1>4. 0 \in I
  OBVIOUS
<1>5. ASSUME NEW m \in Nat, m \in I PROVE m + 1 \in I
  <2>1. CASE m + 1 \notin 1..n
    BY <2>1
  <2>2. CASE m + 1 \in 1..n /\ m = 0
    <3>1. r[m + 1] = ss[1] /\ IsSeq(ss[1])
      BY <1>3, <2>2 DEF FlatOp
    <3>2. PICK S : ss[1] \in Seq(S)
      BY <3>1 DEF IsSeq
    <3>3. h \o ss[1] = ss[1]
      BY <1>e, <3>2
    <3>4. \E P : P[0] = Z[0] /\ Strung(h \o ss[1], P, ss, 0 + 1)
      BY <1>z, <3>1, StrungMore
    <3> QED BY <1>z, <2>2, <3>1, <3>3, <3>4
  <2>3. CASE m + 1 \in 1..n /\ m # 0
    <3>1. m \in 1..n /\ IsSeq(ss[m + 1])
      BY <1>1, <2>3
    <3>2. r[m + 1] = r[m] \o ss[m + 1]
      <4>1. m + 1 # 1 /\ (m + 1) - 1 = m
        BY <2>3
      <4>2. r[m + 1] = FlatOp(ss, r[m], m + 1)
        BY <1>3, <2>3, <4>1
      <4>3. \A s, i : i # 1 => FlatOp(ss, s, i) = s \o ss[i]
        BY DEF FlatOp
      <4> QED BY <4>1, <4>2, <4>3
    <3>3. PICK P : P[0] = 0 /\ Strung(r[m], P, ss, m)
      BY <1>5, <3>1
    <3>4. PICK Q : Q[0] = P[0] /\ Strung(r[m] \o ss[m + 1], Q, ss, m + 1)
      BY <3>1, <3>3, StrungMore
    <3>5. Q[0] = 0 /\ Strung(r[m + 1], Q, ss, m + 1)
      BY <3>2, <3>3, <3>4
    <3> QED BY <3>5
  <2> QED BY <2>1, <2>2, <2>3
<1>6. n \in I
  <2>1. \A m \in Nat : m \in I
    <3> HIDE DEF I, n
    <3> QED BY <1>4, <1>5, Flats!NatInd
  <2> QED BY <1>1, <2>1
<1>7. CASE n = 0
  <2>1. ss = h
    BY <1>7, <1>e
  <2> QED BY <1>2, <1>7, <1>z, <2>1
<1>8. CASE n # 0
  <2>1. n \in 1..n
    BY <1>1, <1>8
  <2> QED BY <1>2, <1>6, <1>8, <2>1
<1> QED BY <1>7, <1>8

-----------------------------------------------------------------------------
(* Reading back what was written.                                            *)

\* The first k of some items.
First(it, k) == [i \in 1..k |-> it[i]]

\* One more of them.
LEMMA FirstMore ==
  ASSUME NEW it, NEW k \in Nat
  PROVE  Append(First(it, k), it[k + 1]) = First(it, k + 1)
<1>1. PICK s, t, e : s = First(it, k) /\ t = First(it, k + 1) /\ e = it[k + 1]
  OBVIOUS
<1>2. s = [i \in 1..k |-> s[i]] /\ t = [i \in 1..(k + 1) |-> t[i]] /\ k + 1 \in Nat
  BY <1>1 DEF First
<1>3. IsSeq(s) /\ Len(s) = k /\ IsSeq(t) /\ Len(t) = k + 1
  BY <1>2, BuiltIs
<1>4. PICK a : a = Append(s, e)
  OBVIOUS
<1>5. IsSeq(a) /\ Len(a) = k + 1 /\ a[k + 1] = e /\ \A i \in 1..k : a[i] = s[i]
  BY <1>3, <1>4, AppendIs
<1>6. ASSUME NEW i \in 1..(k + 1) PROVE a[i] = t[i]
  <2>1. t[i] = it[i]
    BY <1>1 DEF First
  <2>2. CASE i = k + 1
    BY <1>1, <1>5, <2>1, <2>2
  <2>3. CASE i \in 1..k
    <3>1. s[i] = it[i]
      BY <1>1, <2>3 DEF First
    <3> QED BY <1>5, <2>1, <2>3, <3>1
  <2> QED BY <2>2, <2>3
<1>7. a = t
  <2>1. PICK S, T : a \in Seq(S) /\ t \in Seq(T)
    BY <1>3, <1>5 DEF IsSeq
  <2> QED BY <1>3, <1>5, <1>6, <2>1
<1> QED BY <1>1, <1>4, <1>7

\* What a reader makes of a record that ends at that place.
Back(f, end, item) == IF end <= Len(f) THEN [at |-> end, item |-> item] ELSE [at |-> Bad]

\* Rows that read back n records, which end at the places of P.
ReadsBack(f, P, it, h, r, n) ==
  /\ \A k \in 0..n : P[k] \in Nat
  /\ \A k \in 1..n : P[k - 1] <= P[k] /\ (h[k - 1].at = P[k - 1] => r[k] = Back(f, P[k], it[k]))

\* They give the records, or nothing if the file ends before they do.
LEMMA TurnsBack ==
  ASSUME NEW f, IsSeq(f), NEW P, NEW it, NEW h, NEW r, NEW n \in Nat, Turns(h, r, P[0], n),
         ReadsBack(f, P, it, h, r, n), P[0] <= Len(f)
  PROVE  h[n] = IF P[n] <= Len(f) THEN [at |-> P[n], items |-> First(it, n)] ELSE Nothing
<1>1. PICK l \in Nat : l = Len(f)
  BY DEF IsSeq
<1> DEFINE got(k) == IF P[k] <= l THEN [at |-> P[k], items |-> First(it, k)] ELSE Nothing
           I == {k \in Nat : k <= n => h[k] = got(k)}
<1>2. 0 \in I
  <2>1. First(it, 0) = <<>>
    BY DEF First
  <2> QED BY <1>1, <2>1 DEF Turns
<1>3. ASSUME NEW k \in Nat, k \in I PROVE k + 1 \in I
  <2> SUFFICES ASSUME k + 1 <= n PROVE h[k + 1] = got(k + 1)
    OBVIOUS
  <2>1. k + 1 \in 1..n /\ (k + 1) - 1 = k /\ k \in 0..n /\ k + 1 \in 0..n
    OBVIOUS
  <2>2. PICK x, y, p, q, e : x = h[k] /\ y = r[k + 1] /\ p = P[k] /\ q = P[k + 1] /\ e = it[k + 1]
    OBVIOUS
  <2>3. p \in Nat /\ q \in Nat /\ p <= q /\ (x.at = p => y = Back(f, q, e))
    BY <2>1, <2>2 DEF ReadsBack
  <2>4. x = IF p <= l THEN [at |-> p, items |-> First(it, k)] ELSE Nothing
    BY <1>3, <2>1, <2>2
  <2>5. h[k + 1] = Row(x, y)
    BY <2>1, <2>2 DEF Turns
  <2>6. CASE ~(p <= l)
    <3>1. x.at = Bad /\ ~(q <= l)
      BY <2>3, <2>4, <2>6 DEF Nothing
    <3> QED BY <2>2, <2>4, <2>5, <2>6, <3>1 DEF Row
  <2>7. CASE p <= l
    <3>1. x.at = p /\ x.items = First(it, k) /\ x.at # Bad
      BY <2>3, <2>4, <2>7 DEF Bad
    <3>2. y = Back(f, q, e)
      BY <2>3, <3>1
    <3>3. CASE q <= l
      <4>1. y.at = q /\ y.item = e /\ y.at # Bad
        BY <1>1, <2>3, <3>2, <3>3 DEF Back, Bad
      <4>2. Row(x, y) = [at |-> q, items |-> Append(First(it, k), e)]
        BY <3>1, <4>1 DEF Row
      <4> QED BY <2>2, <2>5, <3>3, <4>2, FirstMore
    <3>4. CASE ~(q <= l)
      <4>1. y.at = Bad
        BY <1>1, <3>2, <3>4 DEF Back
      <4> QED BY <2>2, <2>5, <3>1, <3>4, <4>1 DEF Row
    <3> QED BY <3>3, <3>4
  <2> QED BY <2>6, <2>7
<1>4. n \in I
  <2>1. \A k \in Nat : k \in I
    <3> HIDE DEF I
    <3> QED BY <1>2, <1>3, KvRows!NatInd
  <2> QED BY <2>1
<1> QED BY <1>1, <1>4

\* The bytes that a file has of something written.
LEMMA PartWritten ==
  ASSUME NEW f, NEW s, NEW p \in Nat, IsSeq(f), IsSeq(s), At(f, p, s), p + Len(s) <= Len(f)
  PROVE  SubSeq(f, p + 1, p + Len(s)) = s
<1>1. PICK n \in Nat, l \in Nat : n = Len(s) /\ l = Len(f)
  BY DEF IsSeq
<1>2. PICK S, T : f \in Seq(S) /\ s \in Seq(T)
  BY DEF IsSeq
<1>3. \A i \in 1..n : f[p + i] = s[i]
  <2>1. \A i \in 1..n : p + i <= l
    BY <1>1
  <2> QED BY <1>1, <2>1 DEF At
<1>4. p + 1 \in 1..(l + 1) /\ p + n \in ((p + 1) - 1)..l
  BY <1>1
<1>5. PICK u : u = SubSeq(f, p + 1, p + n)
  OBVIOUS
<1>6. u \in Seq(S) /\ Len(u) = n /\ \A i \in 1..n : u[i] = f[p + i]
  <2>1. (p + n) - (p + 1) + 1 = n
    OBVIOUS
  <2>2. \A i \in 1..n : (p + 1) + i - 1 = p + i
    OBVIOUS
  <2> QED BY <1>1, <1>2, <1>4, <1>5, <2>1, <2>2, SubSeqProperties
<1>7. u = s
  BY <1>1, <1>2, <1>3, <1>6
<1> QED BY <1>1, <1>5, <1>7

\* Numbers take their width.
LEMMA WidthIs ==
  \A v : IsSeq(U32(v)) /\ Len(U32(v)) = 4 /\ IsSeq(U64(v)) /\ Len(U64(v)) = 8
<1>1. ASSUME NEW v, NEW w \in Nat PROVE IsSeq(Le(v, w)) /\ Len(Le(v, w)) = w
  <2>1. Le(v, w) = [k \in 1..w |-> Le(v, w)[k]]
    BY DEF Le
  <2> QED BY <2>1, BuiltIs
<1> QED BY <1>1 DEF U32, U64

\* A key with its value is read as it was written.
LEMMA KvBack ==
  ASSUME NEW f, IsSeq(f), NEW p \in Nat, NEW kv \in KvType, At(f, p, KvBytes(kv))
  PROVE  LoadKv(f, p) = Back(f, p + Len(KvBytes(kv)), kv)
<1>1. PICK key \in Seq(Byte), tag \in Nat, payload \in Seq(Byte) :
        key = kv.key /\ tag = kv.tag /\ payload = kv.payload
  BY DEF KvType
<1>2. /\ Fits(Len(key)) /\ Fits(tag) /\ LoadEnd(payload, tag, 0) = Len(payload)
      /\ kv = [key |-> key, tag |-> tag, payload |-> payload]
  BY <1>1 DEF KvType, KvGood
<1>3. PICK a \in Nat, n \in Nat, l \in Nat : a = 8 + Len(key) /\ n = Len(payload) /\ l = Len(f)
  BY DEF IsSeq
<1>4. IsSeq(key) /\ IsSeq(payload) /\ IsSeq(Str(key)) /\ IsSeq(U32(tag)) /\ Len(U32(tag)) = 4
  BY StrIs, WidthIs DEF IsSeq
<1>5. IsSeq(Str(key) \o U32(tag))
  BY <1>4, ConcatIs
<1>6. At(f, p, Str(key) \o U32(tag)) /\ At(f, p + Len(Str(key) \o U32(tag)), payload)
  BY <1>1, <1>4, <1>5, AtConcat DEF KvBytes
<1>7. At(f, p, Str(key)) /\ At(f, p + Len(Str(key)), U32(tag))
  BY <1>4, <1>6, AtConcat
<1>8. /\ Len(Str(key)) = a
      /\ p + a <= l => StringEnd(f, p) = p + a /\ StringAt(f, p) = key
      /\ ~(p + a <= l) => StringEnd(f, p) = Bad
  <2>1. p + 8 + Len(key) = p + a
    BY <1>3
  <2> QED BY <1>2, <1>3, <1>4, <1>7, <2>1, StringWritten
<1>9. Len(Str(key) \o U32(tag)) = a + 4 /\ Len(KvBytes(kv)) = a + 4 + n
  <2>1. PICK x, y : x = Str(key) /\ y = U32(tag)
    OBVIOUS
  <2>2. Len(x \o y) = a + 4
    BY <1>4, <1>8, <2>1, ConcatIs
  <2>3. Len((x \o y) \o payload) = (a + 4) + n
    BY <1>3, <1>4, <1>5, <2>1, <2>2, ConcatIs
  <2>4. KvBytes(kv) = (x \o y) \o payload
    BY <1>1, <2>1 DEF KvBytes
  <2> QED BY <2>1, <2>2, <2>3, <2>4
<1>10. PICK tagAt : tagAt = StringEnd(f, p)
  OBVIOUS
<1>11. PICK end : end = IF Holds(f, tagAt, 4) THEN LoadEnd(f, Num(f, tagAt), tagAt + 4) ELSE Bad
  OBVIOUS
<1>12. LoadKv(f, p) = IF end = Bad
                      THEN [at |-> Bad]
                      ELSE [at |-> end,
                            item |-> [key |-> StringAt(f, p), tag |-> Num(f, tagAt),
                                      payload |-> SubSeq(f, tagAt + 5, end)]]
  BY <1>10, <1>11 DEF LoadKv
<1>13. CASE ~(p + a + 4 <= l)
  <2>1. ~Holds(f, tagAt, 4)
    <3>1. CASE p + a <= l
      BY <1>3, <1>8, <1>10, <1>13, <3>1 DEF Holds
    <3>2. CASE ~(p + a <= l)
      BY <1>8, <1>10, <3>2 DEF Holds
    <3> QED BY <3>1, <3>2
  <2>2. LoadKv(f, p) = [at |-> Bad]
    BY <1>11, <1>12, <2>1
  <2>3. ~(p + (a + 4 + n) <= l)
    BY <1>13
  <2> QED BY <1>3, <1>9, <2>2, <2>3 DEF Back
<1>14. CASE p + a + 4 <= l
  <2>1. tagAt = p + a /\ StringAt(f, p) = key
    BY <1>8, <1>10, <1>14
  <2>2. Holds(f, tagAt, 4)
    BY <1>3, <1>14, <2>1 DEF Holds, Bad
  <2>3. Num(f, tagAt) = tag
    <3>1. PICK x \in Nat : x = p + a
      OBVIOUS
    <3>2. x + 3 <= Len(f) /\ At(f, x, Le(tag, 4)) /\ 4 \in {4, 8}
      BY <1>3, <1>7, <1>8, <1>14, <3>1 DEF U32
    <3>3. Num(f, x) = tag
      BY <1>2, <3>2, NumWritten
    <3> QED BY <2>1, <3>1, <3>3
  <2>4. PICK q \in Nat : q = p + a + 4 /\ q = tagAt + 4 /\ At(f, q, payload)
    <3>1. p + (a + 4) = p + a + 4
      OBVIOUS
    <3> QED BY <1>6, <1>9, <2>1, <3>1
  <2>5. end = Reach(f, q + n)
    <3>1. PICK z \in 0..Len(payload) : z = 0
      BY <1>3
    <3>2. Copied(payload, z, f, q, n)
      <4>1. \A i \in 1..n : z + i = i
        BY <3>1
      <4> QED BY <1>3, <2>4, <4>1 DEF Copied, At
    <3>3. LoadEnd(payload, tag, z) = n /\ n # Bad /\ n = LoadEnd(payload, tag, z) - z
      BY <1>2, <1>3, <3>1 DEF Bad
    <3>4. LoadEnd(f, tag, q) = Reach(f, q + n)
      BY <3>2, <3>3, ValueCopied
    <3> QED BY <1>11, <2>2, <2>3, <2>4, <3>4
  <2>6. q + n = p + Len(KvBytes(kv))
    BY <1>9, <2>4
  <2>7. CASE ~(q + n <= l)
    BY <1>3, <1>12, <2>5, <2>6, <2>7 DEF Reach, Back
  <2>8. CASE q + n <= l
    <3>1. end = q + n /\ end # Bad
      BY <1>3, <2>5, <2>8 DEF Reach, Bad
    <3>2. SubSeq(f, q + 1, q + n) = payload
      BY <1>3, <1>4, <2>4, <2>8, PartWritten
    <3>3. tagAt + 5 = q + 1
      BY <2>1, <2>4
    <3>4. LoadKv(f, p) = [at |-> end, item |-> [key |-> key, tag |-> tag, payload |-> payload]]
      BY <1>12, <2>1, <2>3, <3>1, <3>2, <3>3, Zenon
    <3> QED BY <1>2, <1>3, <2>6, <2>8, <3>1, <3>4 DEF Back
  <2> QED BY <2>7, <2>8
<1> QED BY <1>13, <1>14

\* The bytes of a shape.
DimBytes(dims) == FlattenSeq([d \in DOMAIN dims |-> U64(dims[d])])

\* They are a number of eight bytes for each dimension.
LEMMA DimsStrung ==
  ASSUME NEW dims \in Seq(Nat)
  PROVE  /\ IsSeq(DimBytes(dims)) /\ Len(DimBytes(dims)) = 8 * Len(dims)
         /\ \A d \in 1..Len(dims) : At(DimBytes(dims), 8 * (d - 1), U64(dims[d]))
<1>1. PICK rows : rows = [d \in DOMAIN dims |-> U64(dims[d])]
  OBVIOUS
<1>2. PICK n \in Nat : n = Len(dims) /\ DOMAIN dims = 1..n
  OBVIOUS
<1>3. rows = [d \in 1..n |-> rows[d]] /\ \A d \in 1..n : rows[d] = U64(dims[d])
  BY <1>1, <1>2
<1>4. IsSeq(rows) /\ Len(rows) = n
  BY <1>3, BuiltIs
<1>5. PICK U : rows \in Seq(U)
  BY <1>4 DEF IsSeq
<1>6. \A d \in 1..Len(rows) : IsSeq(rows[d]) /\ Len(rows[d]) = 8
  BY <1>3, <1>4, WidthIs
<1>7. PICK flat : flat = FlattenSeq(rows)
  OBVIOUS
<1>8. PICK P : P[0] = 0 /\ Strung(flat, P, rows, n)
  BY <1>4, <1>5, <1>6, <1>7, FlattenStrung
<1> DEFINE I == {k \in Nat : k <= n => P[k] = 8 * k}
<1>9. \A k \in Nat : k \in I
  <2>1. 0 \in I
    BY <1>8
  <2>2. ASSUME NEW k \in Nat, k \in I PROVE k + 1 \in I
    <3> SUFFICES ASSUME k + 1 <= n PROVE P[k + 1] = 8 * (k + 1)
      OBVIOUS
    <3>1. k + 1 \in 1..n /\ (k + 1) - 1 = k /\ P[k] = 8 * k
      BY <2>2
    <3>2. P[k + 1] = P[k] + 8
      BY <1>4, <1>6, <1>8, <3>1 DEF Strung
    <3> QED BY <3>1, <3>2
  <2> HIDE DEF I
  <2> QED BY <2>1, <2>2, KvRows!NatInd
<1>10. \A k \in 0..n : P[k] = 8 * k
  BY <1>9
<1>11. IsSeq(flat) /\ Len(flat) = 8 * n
  <2>1. n \in 0..n
    OBVIOUS
  <2> QED BY <1>8, <1>10, <2>1 DEF Strung
<1>12. ASSUME NEW d \in 1..n PROVE At(flat, 8 * (d - 1), U64(dims[d]))
  <2>1. d - 1 \in 0..n
    OBVIOUS
  <2>2. P[d - 1] = 8 * (d - 1)
    BY <1>10, <2>1
  <2>3. At(flat, P[d - 1], rows[d])
    BY <1>8 DEF Strung
  <2> QED BY <1>3, <2>2, <2>3
<1>13. DimBytes(dims) = flat
  BY <1>1, <1>7 DEF DimBytes
<1> QED BY <1>2, <1>11, <1>12, <1>13

\* Five parts, one after the other.
Parts(f, p, a, b, c, d, e) ==
  /\ At(f, p, a) /\ At(f, p + Len(a), b) /\ At(f, (p + Len(a)) + Len(b), c)
  /\ At(f, ((p + Len(a)) + Len(b)) + Len(c), d)
  /\ At(f, (((p + Len(a)) + Len(b)) + Len(c)) + Len(d), e)
LEMMA FiveParts ==
  ASSUME NEW f, NEW p \in Nat, IsSeq(f), NEW a, NEW b, NEW c, NEW d, NEW e,
         IsSeq(a), IsSeq(b), IsSeq(c), IsSeq(d), IsSeq(e)
  PROVE  /\ Len((((a \o b) \o c) \o d) \o e)
              = (((Len(a) + Len(b)) + Len(c)) + Len(d)) + Len(e)
         /\ IsSeq((((a \o b) \o c) \o d) \o e)
         /\ At(f, p, (((a \o b) \o c) \o d) \o e) => Parts(f, p, a, b, c, d, e)
<1>1. PICK u : u = a \o b
  OBVIOUS
<1>2. PICK v : v = u \o c
  OBVIOUS
<1>3. PICK w : w = v \o d
  OBVIOUS
<1>4. IsSeq(u) /\ Len(u) = Len(a) + Len(b) /\ Len(a) \in Nat /\ Len(b) \in Nat
  BY <1>1, ConcatIs
<1>5. IsSeq(v) /\ Len(v) = Len(u) + Len(c) /\ Len(c) \in Nat
  BY <1>2, <1>4, ConcatIs
<1>6. IsSeq(w) /\ Len(w) = Len(v) + Len(d) /\ Len(d) \in Nat
  BY <1>3, <1>5, ConcatIs
<1>7. IsSeq(w \o e) /\ Len(w \o e) = Len(w) + Len(e)
  BY <1>6, ConcatIs
<1>8. ASSUME At(f, p, w \o e) PROVE Parts(f, p, a, b, c, d, e)
  <2>1. At(f, p, w) /\ At(f, p + Len(w), e)
    BY <1>6, <1>8, AtConcat
  <2>2. At(f, p, v) /\ At(f, p + Len(v), d)
    BY <1>3, <1>5, <2>1, AtConcat
  <2>3. At(f, p, u) /\ At(f, p + Len(u), c)
    BY <1>2, <1>4, <2>2, AtConcat
  <2>4. At(f, p, a) /\ At(f, p + Len(a), b)
    BY <1>1, <2>3, AtConcat
  <2>5. /\ p + Len(u) = (p + Len(a)) + Len(b)
        /\ p + Len(v) = ((p + Len(a)) + Len(b)) + Len(c)
        /\ p + Len(w) = (((p + Len(a)) + Len(b)) + Len(c)) + Len(d)
    BY <1>4, <1>5, <1>6
  <2> QED BY <2>1, <2>2, <2>3, <2>4, <2>5 DEF Parts
<1> QED BY <1>1, <1>2, <1>3, <1>4, <1>5, <1>6, <1>7, <1>8

\* What the index says of a tensor.
ItemOf(t, o) ==
  [name |-> t.name, dims |-> t.dims, elements |-> ProductOf(t.dims), type |-> t.type, offset |-> o]

\* A record of the index is read as it was written.
LEMMA IndexBack ==
  ASSUME NEW f, IsSeq(f), NEW p \in Nat, NEW t, NEW o, Shaped(t.name, t.dims), Fits(t.type), Fits(o),
         At(f, p, IndexBytes(t, o))
  PROVE  IsSeq(IndexBytes(t, o)) /\ IndexRecord(f, p) = Back(f, p + Len(IndexBytes(t, o)), ItemOf(t, o))
<1>n. PICK name \in Seq(Byte) : name = t.name
  BY DEF Shaped
<1>d. PICK dims \in Seq(Nat) : dims = t.dims
  BY DEF Shaped
<1>t. PICK type : type = t.type
  OBVIOUS
<1>l. PICK l \in Nat : l = Len(f)
  BY DEF IsSeq
<1>m. PICK n \in Nat, m \in Nat : n = Len(dims) /\ m = Len(name)
  OBVIOUS
<1>1. /\ name = t.name /\ dims = t.dims /\ type = t.type
      /\ n = Len(dims) /\ l = Len(f) /\ m = Len(name)
  BY <1>n, <1>d, <1>t, <1>l, <1>m
<1>2. Fits(m) /\ n <= MaxDims /\ (\A d \in 1..n : Fits(dims[d])) /\ Fits(type)
  BY <1>1 DEF Shaped
<1>3. PICK a, b, c, d, e : /\ a = Str(name) /\ b = U32(n) /\ c = DimBytes(dims)
                           /\ d = U32(type) /\ e = U64(o)
  OBVIOUS
<1>4. IndexBytes(t, o) = (((a \o b) \o c) \o d) \o e
  BY <1>1, <1>3 DEF IndexBytes, DimBytes
<1>5. IsSeq(name) /\ IsSeq(a) /\ IsSeq(b) /\ IsSeq(c) /\ IsSeq(d) /\ IsSeq(e)
  BY <1>3, StrIs, WidthIs, DimsStrung DEF IsSeq
<1>6. /\ Len((((a \o b) \o c) \o d) \o e) = (((Len(a) + Len(b)) + Len(c)) + Len(d)) + Len(e)
      /\ IsSeq((((a \o b) \o c) \o d) \o e)
      /\ Parts(f, p, a, b, c, d, e)
  BY <1>4, <1>5, FiveParts
<1>7. At(f, p, a)
  BY <1>6 DEF Parts
<1>8. /\ Len(a) = 8 + m
      /\ p + 8 + m <= l => StringEnd(f, p) = p + 8 + m /\ StringAt(f, p) = name
      /\ ~(p + 8 + m <= l) => StringEnd(f, p) = Bad
  BY <1>1, <1>2, <1>3, <1>5, <1>7, StringWritten
<1>9. Len(b) = 4 /\ Len(c) = 8 * n /\ Len(d) = 4 /\ Len(e) = 8
  BY <1>1, <1>3, WidthIs, DimsStrung
<1>e. PICK s \in Nat : s = 8 * n
  OBVIOUS
<1>x. PICK x \in Nat, y \in Nat : x = p + 8 + m /\ y = x + 4
  OBVIOUS
<1>z. PICK z \in Nat, w \in Nat : z = y + s /\ w = z + 12
  OBVIOUS
<1>10. x = p + 8 + m /\ y = x + 4 /\ z = y + 8 * n /\ w = z + 12
  BY <1>e, <1>x, <1>z
<1>11. Len(IndexBytes(t, o)) = w - p /\ p + Len(IndexBytes(t, o)) = w
  BY <1>4, <1>6, <1>8, <1>9, <1>10
<1>12. At(f, x, b) /\ At(f, y, c) /\ At(f, z, d) /\ At(f, z + 4, e)
  <2>1. /\ p + Len(a) = x /\ (p + Len(a)) + Len(b) = y /\ ((p + Len(a)) + Len(b)) + Len(c) = z
        /\ (((p + Len(a)) + Len(b)) + Len(c)) + Len(d) = z + 4
    <3>1. p + Len(a) = x
      BY <1>8, <1>x
    <3>2. x + Len(b) = y /\ y + Len(c) = z /\ z + Len(d) = z + 4
      BY <1>9, <1>e, <1>x, <1>z
    <3> QED BY <3>1, <3>2
  <2> QED BY <1>6, <2>1 DEF Parts
<1>13. StringEnd(f, p) = IF x <= l THEN x ELSE Bad
  BY <1>8, <1>10
<1> DEFINE nothing == [at |-> Bad]
<1>14. PICK dimsAt : dimsAt = Take(f, StringEnd(f, p), 4)
  OBVIOUS
<1>15. dimsAt = IF y <= l THEN y ELSE Bad
  <2>1. CASE x <= l
    <3>1. dimsAt = Take(f, x, 4)
      BY <1>13, <1>14, <2>1
    <3> QED BY <1>l, <1>x, <3>1 DEF Take, Holds, Bad
  <2>2. CASE ~(x <= l)
    <3>1. dimsAt = Bad
      BY <1>13, <1>14, <2>2 DEF Take, Holds
    <3>2. ~(y <= l)
      BY <1>x, <2>2
    <3> QED BY <3>1, <3>2
  <2> QED BY <2>1, <2>2
<1>16. CASE ~(y <= l)
  <2>1. IndexRecord(f, p) = nothing
    BY <1>14, <1>15, <1>16, Zenon DEF IndexRecord
  <2>2. ~(w <= l)
    BY <1>10, <1>16
  <2> QED BY <1>1, <1>4, <1>6, <1>11, <2>1, <2>2 DEF Back
<1>17. CASE y <= l
  <2> DEFINE nd == Num(f, dimsAt - 4)
             shape == [k \in 1..nd |-> Num(f, dimsAt + 8 * (k - 1))]
             typeAt == IF nd > MaxDims THEN Bad ELSE Take(f, dimsAt, 8 * nd)
             rec == IF ~Holds(f, typeAt, 12) THEN nothing
                    ELSE [at |-> typeAt + 12,
                          item |-> [name |-> StringAt(f, p), dims |-> shape,
                                    elements |-> ProductOf(shape),
                                    type |-> Num(f, typeAt), offset |-> Num(f, typeAt + 4)]]
  <2>0. dimsAt = y /\ dimsAt # Bad
    BY <1>15, <1>17 DEF Bad
  <2>1. IndexRecord(f, p) = rec
    BY <1>14, <2>0, Zenon DEF IndexRecord
  <2>2. nd = n
    <3>1. Fits(n)
      BY <1>2 DEF Fits, MaxDims
    <3>2. x + 3 <= Len(f) /\ At(f, x, Le(n, 4)) /\ 4 \in {4, 8}
      <4>1. x + 3 <= Len(f)
        BY <1>l, <1>x, <1>17
      <4> QED BY <1>3, <1>12, <4>1 DEF U32
    <3>3. Num(f, x) = n
      BY <3>1, <3>2, NumWritten
    <3>4. dimsAt - 4 = x
      BY <1>10, <2>0
    <3> QED BY <3>3, <3>4
  <2>3. typeAt = IF z <= l THEN z ELSE Bad
    <3>1. typeAt = Take(f, y, s)
      <4>1. ~(n > MaxDims)
        BY <1>2 DEF MaxDims
      <4> HIDE DEF nd
      <4> QED BY <1>e, <2>0, <2>2, <4>1
    <3> HIDE DEF typeAt
    <3> QED BY <1>l, <1>z, <3>1 DEF Take, Holds, Bad
  <2> HIDE DEF nd, typeAt
  <2>4. CASE ~(w <= l)
    <3>1. ~Holds(f, typeAt, 12)
      BY <1>l, <1>z, <2>3, <2>4 DEF Holds
    <3> QED BY <1>1, <1>4, <1>6, <1>11, <2>1, <2>4, <3>1 DEF Back
  <2>5. CASE w <= l
    <3>1. typeAt = z /\ Holds(f, typeAt, 12)
      BY <1>l, <1>z, <2>3, <2>5 DEF Holds, Bad
    <3>2. StringAt(f, p) = name
      BY <1>8, <1>10, <1>17
    <3>3. ASSUME NEW k \in 1..n PROVE Num(f, dimsAt + 8 * (k - 1)) = dims[k]
      <4>1. PICK v : v = dims[k] /\ Fits(v)
        BY <1>2
      <4>2. PICK u \in Nat : u = y + 8 * (k - 1) /\ u + 8 <= z
        <5>1. y + 8 * (k - 1) \in Nat /\ y + 8 * (k - 1) + 8 <= z
          BY <1>10
        <5> QED BY <5>1
      <4>3. At(f, u, U64(v))
        <5>1. PICK g \in Nat : g = 8 * (k - 1) /\ g + 8 <= 8 * n
          OBVIOUS
        <5>2. At(c, g, U64(v))
          BY <1>1, <1>3, <4>1, <5>1, DimsStrung
        <5>3. IsSeq(U64(v)) /\ Len(U64(v)) = 8
          BY WidthIs
        <5>4. At(f, y + g, U64(v))
          BY <1>5, <1>9, <1>12, <5>1, <5>2, <5>3, AtWithin
        <5> QED BY <4>2, <5>1, <5>4
      <4>4. u + 3 <= Len(f) /\ At(f, u, Le(v, 8)) /\ 8 \in {4, 8}
        <5>1. u + 3 <= Len(f)
          <6>1. u + 8 <= z
            BY <4>2
          <6> QED BY <1>l, <1>z, <2>5, <6>1
        <5> QED BY <4>3, <5>1 DEF U64
      <4>5. Num(f, u) = v
        BY <4>1, <4>4, NumWritten
      <4> QED BY <2>0, <4>1, <4>2, <4>5
    <3>4. shape = dims
      <4>1. DOMAIN dims = 1..n /\ dims = [k \in DOMAIN dims |-> dims[k]]
        BY <1>1
      <4> HIDE DEF nd
      <4> QED BY <2>2, <3>3, <4>1
    <3>5. Num(f, typeAt) = type
      <4>1. z + 3 <= Len(f) /\ At(f, z, Le(type, 4)) /\ 4 \in {4, 8}
        <5>1. z + 3 <= Len(f)
          BY <1>l, <1>z, <2>5
        <5> QED BY <1>3, <1>12, <5>1 DEF U32
      <4> QED BY <1>2, <3>1, <4>1, NumWritten
    <3>6. Num(f, typeAt + 4) = o
      <4>1. PICK u \in Nat : u = z + 4
        OBVIOUS
      <4>2. u + 3 <= Len(f) /\ At(f, u, Le(o, 8)) /\ 8 \in {4, 8}
        <5>1. u + 3 <= Len(f)
          BY <1>l, <1>z, <2>5, <4>1
        <5> QED BY <1>3, <1>12, <4>1, <5>1 DEF U64
      <4>3. Num(f, u) = o
        BY <4>2, NumWritten
      <4> QED BY <3>1, <4>1, <4>3
    <3> HIDE DEF shape, typeAt
    <3>7. rec = [at |-> w, item |-> ItemOf(t, o)]
      BY <1>1, <1>10, <3>1, <3>2, <3>4, <3>5, <3>6 DEF ItemOf
    <3> HIDE DEF rec
    <3> QED BY <1>1, <1>4, <1>6, <1>11, <2>1, <2>5, <3>7 DEF Back
  <2> QED BY <2>4, <2>5
<1> QED BY <1>16, <1>17

\* A reader's rows, each of which reads back its record wherever it starts.
RowsRead(f, rows, it, g, r, n) ==
  \A k \in 1..n, p \in Nat :
    At(f, p, rows[k]) /\ g[k - 1].at = p => r[k] = Back(f, p + Len(rows[k]), it[k])

\* Where a file holds the records, the reader reads them back.
LEMMA StrungReads ==
  ASSUME NEW f, NEW b \in Nat, NEW h, At(f, b, h), NEW P, NEW rows, NEW n \in Nat,
         Strung(h, P, rows, n), NEW it, NEW g, NEW r, RowsRead(f, rows, it, g, r, n),
         NEW Q, \A k \in 0..n : Q[k] = b + P[k]
  PROVE  ReadsBack(f, Q, it, g, r, n)
<1>1. PICK l \in Nat : l = Len(h)
  BY DEF Strung, IsSeq
<1>2. \A k \in 0..n : P[k] \in 0..l
  BY <1>1 DEF Strung
<1>3. \A k \in 0..n : Q[k] \in Nat
  BY <1>2
<1>4. ASSUME NEW k \in 1..n
      PROVE  Q[k - 1] <= Q[k] /\ (g[k - 1].at = Q[k - 1] => r[k] = Back(f, Q[k], it[k]))
  <2>1. PICK row : row = rows[k]
    OBVIOUS
  <2>2. k - 1 \in 0..n /\ k \in 0..n
    OBVIOUS
  <2>3. PICK o \in Nat, e \in Nat : o = P[k - 1] /\ e = P[k] /\ e <= l /\ Q[k - 1] = b + o /\ Q[k] = b + e
    <3>1. P[k - 1] \in 0..l /\ P[k] \in 0..l /\ Q[k - 1] = b + P[k - 1] /\ Q[k] = b + P[k]
      BY <1>2, <2>2
    <3> QED BY <3>1
  <2>4. IsSeq(row) /\ e = o + Len(row) /\ At(h, o, row)
    BY <2>1, <2>3 DEF Strung
  <2>5. Len(row) \in Nat
    BY <2>4 DEF IsSeq
  <2>6. At(f, b + o, row)
    <3>1. IsSeq(h) /\ o + Len(row) <= Len(h)
      BY <1>1, <2>3, <2>4 DEF Strung
    <3> QED BY <2>4, <3>1, AtWithin
  <2>7. Q[k - 1] <= Q[k] /\ Q[k] = (b + o) + Len(row)
    <3>1. PICK x \in Nat : x = Len(row)
      BY <2>5
    <3>2. b + o <= b + e /\ b + e = (b + o) + x
      BY <2>4, <3>1
    <3> QED BY <2>3, <3>1, <3>2
  <2>8. ASSUME g[k - 1].at = Q[k - 1] PROVE r[k] = Back(f, Q[k], it[k])
    <3>1. PICK p \in Nat : p = b + o
      OBVIOUS
    <3>2. At(f, p, rows[k]) /\ g[k - 1].at = p
      BY <2>1, <2>3, <2>6, <2>8, <3>1
    <3>3. r[k] = Back(f, p + Len(rows[k]), it[k])
      BY <3>2 DEF RowsRead
    <3> QED BY <2>1, <2>7, <3>1, <3>3
  <2> QED BY <2>7, <2>8
<1> QED BY <1>3, <1>4 DEF ReadsBack

\* All of some items.
LEMMA FirstAll ==
  ASSUME NEW it, NEW n \in Nat, IsSeq(it), Len(it) = n
  PROVE  First(it, n) = it
<1>1. PICK S : it \in Seq(S)
  BY DEF IsSeq
<1>2. DOMAIN it = 1..n /\ it = [k \in DOMAIN it |-> it[k]]
  BY <1>1
<1> QED BY <1>2 DEF First

\* The bytes of the metadata.
KvRowsOf(kvs) == [k \in DOMAIN kvs |-> KvBytes(kvs[k])]

\* The metadata is read as it was written.
LEMMA KvsBack ==
  ASSUME NEW f, IsSeq(f), NEW kvs \in Seq(KvType), NEW b \in Nat, b <= Len(f),
         At(f, b, FlattenSeq(KvRowsOf(kvs)))
  PROVE  /\ IsSeq(FlattenSeq(KvRowsOf(kvs)))
         /\ Table(LoadKv, f, b, Len(kvs))
              = IF b + Len(FlattenSeq(KvRowsOf(kvs))) <= Len(f)
                THEN [at |-> b + Len(FlattenSeq(KvRowsOf(kvs))), items |-> kvs] ELSE Nothing
<1>1. PICK rows, flat : rows = KvRowsOf(kvs) /\ flat = FlattenSeq(rows)
  OBVIOUS
<1>2. PICK n \in Nat : n = Len(kvs) /\ DOMAIN kvs = 1..n
  OBVIOUS
<1>3. rows = [k \in 1..n |-> rows[k]] /\ \A k \in 1..n : rows[k] = KvBytes(kvs[k])
  BY <1>1, <1>2 DEF KvRowsOf
<1>4. IsSeq(rows) /\ Len(rows) = n
  BY <1>3, BuiltIs
<1>5. \A k \in 1..n : kvs[k] \in KvType
  BY <1>2
<1>6. PICK U : rows \in Seq(U)
  BY <1>4 DEF IsSeq
<1>7. \A k \in 1..Len(rows) : IsSeq(rows[k])
  BY <1>3, <1>4, <1>5, KvBytesAre
<1>8. PICK P : P[0] = 0 /\ Strung(flat, P, rows, n)
  BY <1>1, <1>4, <1>6, <1>7, FlattenStrung
<1>9. PICK h, r : KvTurned(f, h, r, b, n)
  BY KvTurns
<1>10. RowsRead(f, rows, kvs, h, r, n)
  <2> SUFFICES ASSUME NEW k \in 1..n, NEW p \in Nat, At(f, p, rows[k]), h[k - 1].at = p
               PROVE  r[k] = Back(f, p + Len(rows[k]), kvs[k])
    BY DEF RowsRead
  <2>1. r[k] = LoadKv(f, p)
    BY <1>9 DEF KvTurned
  <2>2. PICK kv \in KvType : kv = kvs[k] /\ rows[k] = KvBytes(kv)
    BY <1>3, <1>5
  <2>3. At(f, p, KvBytes(kv))
    BY <2>2
  <2>4. LoadKv(f, p) = Back(f, p + Len(KvBytes(kv)), kv)
    BY <2>3, KvBack
  <2> QED BY <2>1, <2>2, <2>4
<1> DEFINE Q == [k \in 0..n |-> b + P[k]]
<1>11. /\ \A k \in 0..n : Q[k] = b + P[k]
       /\ Q[0] = b /\ Q[n] = b + Len(flat)
  <2>1. 0 \in 0..n /\ n \in 0..n /\ b + 0 = b /\ P[n] = Len(flat)
    BY <1>8 DEF Strung
  <2> QED BY <1>8, <2>1
<1> HIDE DEF Q
<1>12. ReadsBack(f, Q, kvs, h, r, n)
  <2>1. At(f, b, flat)
    BY <1>1
  <2> QED BY <1>8, <1>10, <1>11, <2>1, StrungReads
<1>13. Turns(h, r, Q[0], n) /\ Q[0] <= Len(f)
  BY <1>9, <1>11 DEF KvTurned
<1>14. h[n] = IF Q[n] <= Len(f) THEN [at |-> Q[n], items |-> First(kvs, n)] ELSE Nothing
  BY <1>12, <1>13, TurnsBack
<1>15. First(kvs, n) = kvs
  <2>1. IsSeq(kvs)
    BY DEF IsSeq
  <2> QED BY <1>2, <2>1, FirstAll
<1>16. Table(LoadKv, f, b, n) = h[n]
  BY <1>9 DEF KvTurned
<1>17. IsSeq(flat)
  BY <1>8 DEF Strung
<1> QED BY <1>1, <1>2, <1>11, <1>14, <1>15, <1>16, <1>17

\* Records of the index, each read back wherever it starts.
RecordsRead(f, rows, it, n) ==
  \A k \in 1..n, p \in Nat :
    At(f, p, rows[k]) => IndexRecord(f, p) = Back(f, p + Len(rows[k]), it[k])

\* The index is read as it was written.
LEMMA IndexBacks ==
  ASSUME NEW f, IsSeq(f), NEW h, At(f, 0, h), NEW P, NEW rows, NEW n \in Nat,
         Strung(h, P, rows, n), P[0] <= Len(f), NEW it, IsSeq(it), Len(it) = n,
         RecordsRead(f, rows, it, n)
  PROVE  Table(IndexRecord, f, P[0], n)
           = IF Len(h) <= Len(f) THEN [at |-> Len(h), items |-> it] ELSE Nothing
<1>1. PICK z \in Nat : z = 0
  OBVIOUS
<1>2. PICK b \in Nat : b = P[0]
  <2>1. 0 \in 0..n
    OBVIOUS
  <2>2. P[0] \in 0..Len(h)
    BY <2>1 DEF Strung
  <2> QED BY <2>2
<1>3. PICK g, r : IndexTurned(f, g, r, b, n)
  BY IndexTurns
<1>4. RowsRead(f, rows, it, g, r, n)
  <2> SUFFICES ASSUME NEW k \in 1..n, NEW p \in Nat, At(f, p, rows[k]), g[k - 1].at = p
               PROVE  r[k] = Back(f, p + Len(rows[k]), it[k])
    BY DEF RowsRead
  <2>1. r[k] = IndexRecord(f, p)
    BY <1>3 DEF IndexTurned
  <2> QED BY <2>1 DEF RecordsRead
<1>5. \A k \in 0..n : P[k] = z + P[k]
  <2> SUFFICES ASSUME NEW k \in 0..n PROVE P[k] = z + P[k]
    OBVIOUS
  <2>1. P[k] \in Nat
    BY DEF Strung
  <2> QED BY <1>1, <2>1
<1>6. ReadsBack(f, P, it, g, r, n)
  <2>1. At(f, z, h)
    BY <1>1
  <2> QED BY <1>4, <1>5, <2>1, StrungReads
<1>7. Turns(g, r, P[0], n)
  BY <1>2, <1>3 DEF IndexTurned
<1>8. g[n] = IF P[n] <= Len(f) THEN [at |-> P[n], items |-> First(it, n)] ELSE Nothing
  BY <1>6, <1>7, TurnsBack
<1>9. First(it, n) = it
  BY FirstAll
<1>10. P[n] = Len(h) /\ Table(IndexRecord, f, b, n) = g[n]
  BY <1>3 DEF IndexTurned, Strung
<1> QED BY <1>2, <1>8, <1>9, <1>10

\* The start of the header is read as it was written.
LEMMA HeaderBack ==
  ASSUME NEW f, IsSeq(f), NEW kvs \in Seq(KvType), Fits(Len(kvs)), NEW n, Fits(n),
         At(f, 0, HeaderBytes(kvs, n))
  PROVE  /\ Len(HeaderBytes(kvs, n)) \in Nat /\ Len(HeaderBytes(kvs, n)) >= 24
         /\ ~(24 <= Len(f)) => ~HeaderOK(f)
         /\ 24 <= Len(f) =>
              /\ HeaderOK(f) /\ Num(f, 8) = n
              /\ Table(LoadKv, f, 24, Num(f, 16))
                   = IF Len(HeaderBytes(kvs, n)) <= Len(f)
                     THEN [at |-> Len(HeaderBytes(kvs, n)), items |-> kvs] ELSE Nothing
<1>1. PICK z \in Nat, l \in Nat, m \in Nat : z = 0 /\ l = Len(f) /\ m = Len(kvs)
  BY DEF IsSeq
<1>2. PICK a, b, c, d, e : /\ a = Magic /\ b = U32(Version) /\ c = U64(n) /\ d = U64(m)
                           /\ e = FlattenSeq(KvRowsOf(kvs))
  OBVIOUS
<1>3. HeaderBytes(kvs, n) = (((a \o b) \o c) \o d) \o e
  BY <1>1, <1>2 DEF HeaderBytes, KvRowsOf
<1>4. IsSeq(a) /\ Len(a) = 4
  BY <1>2, BytesAssumption DEF IsSeq
<1>5. /\ IsSeq(b) /\ Len(b) = 4 /\ IsSeq(c) /\ Len(c) = 8 /\ IsSeq(d) /\ Len(d) = 8
  BY <1>2, WidthIs
<1>6. IsSeq(e)
  <2>1. PICK rows : rows = KvRowsOf(kvs)
    OBVIOUS
  <2>2. rows = [k \in 1..m |-> rows[k]] /\ \A k \in 1..m : kvs[k] \in KvType /\ rows[k] = KvBytes(kvs[k])
    BY <1>1, <2>1 DEF KvRowsOf
  <2>3. IsSeq(rows) /\ Len(rows) = m
    BY <2>2, BuiltIs
  <2>4. PICK U : rows \in Seq(U)
    BY <2>3 DEF IsSeq
  <2>5. \A k \in 1..Len(rows) : IsSeq(rows[k])
    BY <2>2, <2>3, KvBytesAre
  <2> QED BY <1>2, <2>1, <2>4, <2>5, FlattenIs
<1>7. At(f, z, (((a \o b) \o c) \o d) \o e)
  BY <1>1, <1>3
<1>8. /\ Len((((a \o b) \o c) \o d) \o e) = (((Len(a) + Len(b)) + Len(c)) + Len(d)) + Len(e)
      /\ Parts(f, z, a, b, c, d, e)
  <2>1. IsSeq(a) /\ IsSeq(b) /\ IsSeq(c) /\ IsSeq(d) /\ IsSeq(e)
    BY <1>4, <1>5, <1>6
  <2> QED BY <1>7, <2>1, FiveParts
<1>9. At(f, z, a) /\ At(f, 4, b) /\ At(f, 8, c) /\ At(f, 16, d) /\ At(f, 24, e)
  <2>1. /\ z + Len(a) = 4 /\ (z + Len(a)) + Len(b) = 8 /\ ((z + Len(a)) + Len(b)) + Len(c) = 16
        /\ (((z + Len(a)) + Len(b)) + Len(c)) + Len(d) = 24
    BY <1>1, <1>4, <1>5
  <2> QED BY <1>8, <2>1 DEF Parts
<1>10. PICK w \in Nat : w = Len(e)
  BY <1>6 DEF IsSeq
<1>11. Len(HeaderBytes(kvs, n)) = 24 + w
  BY <1>3, <1>4, <1>5, <1>8, <1>10
<1>12. ASSUME ~(24 <= l) PROVE ~HeaderOK(f)
  BY <1>1, <1>12 DEF HeaderOK, Holds
<1>13. ASSUME 24 <= l
       PROVE  /\ HeaderOK(f) /\ Num(f, 8) = n
              /\ Table(LoadKv, f, 24, Num(f, 16))
                   = IF 24 + w <= l THEN [at |-> 24 + w, items |-> kvs] ELSE Nothing
  <2>1. Num(f, 4) = Version
    <3>1. Fits(Version)
      BY DEF Fits, Version
    <3>2. At(f, 4, Le(Version, 4)) /\ 4 + 3 <= Len(f) /\ 4 \in {4, 8} /\ 4 \in Nat
      BY <1>1, <1>2, <1>9, <1>13 DEF U32
    <3> QED BY <3>1, <3>2, NumWritten
  <2>2. Num(f, 8) = n
    <3>1. At(f, 8, Le(n, 8)) /\ 8 + 3 <= Len(f) /\ 8 \in {4, 8} /\ 8 \in Nat
      BY <1>1, <1>2, <1>9, <1>13 DEF U64
    <3> QED BY <3>1, NumWritten
  <2>3. Num(f, 16) = m
    <3>1. At(f, 16, Le(m, 8)) /\ 16 + 3 <= Len(f) /\ 8 \in {4, 8} /\ 16 \in Nat /\ Fits(m)
      BY <1>1, <1>2, <1>9, <1>13 DEF U64
    <3> QED BY <3>1, NumWritten
  <2>4. SubSeq(f, 1, 4) = Magic
    <3>1. z + Len(a) <= Len(f)
      BY <1>1, <1>4, <1>13
    <3>2. SubSeq(f, z + 1, z + Len(a)) = a
      BY <1>4, <1>9, <3>1, PartWritten
    <3>3. z + 1 = 1 /\ z + Len(a) = 4
      BY <1>1, <1>4
    <3> QED BY <1>2, <3>2, <3>3
  <2>5. HeaderOK(f)
    <3>1. Holds(f, 0, 24)
      BY <1>1, <1>13 DEF Holds, Bad
    <3>2. Version \in 2..3
      BY DEF Version
    <3> QED BY <2>1, <2>4, <3>1, <3>2 DEF HeaderOK
  <2>6. Table(LoadKv, f, 24, m) = IF 24 + w <= l THEN [at |-> 24 + w, items |-> kvs] ELSE Nothing
    <3>1. PICK p \in Nat : p = 24
      OBVIOUS
    <3>2. p <= Len(f) /\ At(f, p, FlattenSeq(KvRowsOf(kvs)))
      BY <1>1, <1>2, <1>9, <1>13, <3>1
    <3>3. Table(LoadKv, f, p, Len(kvs))
            = IF p + Len(FlattenSeq(KvRowsOf(kvs))) <= Len(f)
              THEN [at |-> p + Len(FlattenSeq(KvRowsOf(kvs))), items |-> kvs] ELSE Nothing
      BY <3>2, KvsBack
    <3> QED BY <1>1, <1>2, <1>10, <3>1, <3>3
  <2> QED BY <2>2, <2>3, <2>5, <2>6
<1> QED BY <1>1, <1>10, <1>11, <1>12, <1>13

\* What a tensor is written as fits, and a tensor that has elements has bytes.
LEMMA TargetIs ==
  ASSUME NEW has, NEW n \in Nat, NEW target, target = TargetType(has, Base, n)
  PROVE  Fits(target) /\ (n # 0 => RowBytes(target, n) # 0)
<1>1. PICK want : want = PolicyTarget(has, Base)
  OBVIOUS
<1>2. target = IF IsImplemented(want) /\ RowBytes(want, n) # 0 THEN want ELSE F16
  BY <1>1 DEF TargetType
<1>3. CASE IsImplemented(want) /\ RowBytes(want, n) # 0
  <2>1. BlockElems(want) # 0
    BY <1>3 DEF IsImplemented
  <2>2. want \in {F32, F16, BF16, Q8_0, Q4_0, IQ2_XXS} \union KQuants
    BY <2>1 DEF BlockElems
  <2>3. want \in 0..30
    BY <2>2 DEF F32, F16, BF16, Q8_0, Q4_0, IQ2_XXS, KQuants, Q2_K, Q4_K, Q5_K, Q6_K
  <2> QED BY <1>2, <1>3, <2>3 DEF Fits
<1>4. CASE ~(IsImplemented(want) /\ RowBytes(want, n) # 0)
  <2>1. target = 1 /\ target = F16
    BY <1>2, <1>4 DEF F16
  <2>2. BlockElems(F16) = 1 /\ BlockBytes(F16) = 2
    BY DEF BlockElems, BlockBytes, F32, F16, BF16, Q8_0, Q4_0, IQ2_XXS, KQuants, Q2_K, Q4_K,
           Q5_K, Q6_K
  <2>3. RowBytes(F16, n) = (n \div 1) * 2
    <3>1. n % 1 = 0
      OBVIOUS
    <3> QED BY <2>2, <3>1 DEF RowBytes
  <2>4. (n \div 1) * 2 = n * 2
    OBVIOUS
  <2>5. n # 0 => RowBytes(F16, n) # 0
    BY <2>3, <2>4
  <2> QED BY <2>1, <2>5 DEF Fits
<1> QED BY <1>3, <1>4

\* A tensor with all of its bytes.
Size(t) == RowBytes(t.type, ProductOf(t.dims))
Complete(t) ==
  /\ Shaped(t.name, t.dims) /\ Fits(t.type)
  /\ t = [name |-> t.name, dims |-> t.dims, type |-> t.type, data |-> t.data]
  /\ t.data = [b \in 1..Size(t) |-> t.data[b]]
  /\ ProductOf(t.dims) # 0 => Size(t) # 0

\* A recoded tensor is complete.
LEMMA RecodedComplete ==
  ASSUME NEW t, Shaped(t.name, t.dims)
  PROVE  Complete(Recoded(t))
<1>1. PICK n \in Nat : n = ProductOf(t.dims)
  BY ProductIs DEF Shaped
<1>2. PICK target : target = TargetType(NameHas(t.name), Base, n)
  OBVIOUS
<1>3. PICK size : size = RowBytes(target, n)
  OBVIOUS
<1>4. PICK data : data = Stretch(t.data, size)
  OBVIOUS
<1>5. PICK u : u = Recoded(t)
  OBVIOUS
<1>6. u = [name |-> t.name, dims |-> t.dims, type |-> target, data |-> data]
  BY <1>1, <1>2, <1>3, <1>4, <1>5 DEF Recoded
<1>7. u.name = t.name /\ u.dims = t.dims /\ u.type = target /\ u.data = data
  BY <1>6
<1>8. Size(u) = size
  BY <1>1, <1>3, <1>7 DEF Size
<1>9. data = [b \in 1..size |-> data[b]]
  BY <1>4 DEF Stretch
<1>10. Fits(target) /\ (n # 0 => size # 0)
  BY <1>2, <1>3, TargetIs
<1> QED BY <1>1, <1>5, <1>6, <1>7, <1>8, <1>9, <1>10 DEF Complete

\* The header once m of n tensors are in the index.
HeaderSays(h, kvs, n, ts, os, m) ==
  \E P, rows : /\ Strung(h, P, rows, m)
               /\ P[0] = Len(HeaderBytes(kvs, n)) /\ At(h, 0, HeaderBytes(kvs, n))
               /\ \A k \in 1..m : rows[k] = IndexBytes(ts[k], os[k])

\* What is written can be read.
Writable(kvs, ts, os) ==
  /\ kvs \in Seq(KvType) /\ Fits(Len(kvs)) /\ AlignmentOf(kvs) = Alignment
  /\ IsSeq(ts) /\ Fits(Len(ts)) /\ \A k \in 1..Len(ts) : Complete(ts[k]) /\ Fits(os[k])

\* The bytes the loader takes for a tensor: past the file, a mapped page is zero.
Fetched(f, start, o, size) ==
  [b \in 1..size |-> IF start + o + b <= Len(f) THEN f[start + o + b] ELSE 0]

\* A tensor of a file that holds its bytes is read as it was written.
LEMMA TensorBack ==
  ASSUME NEW f, NEW start \in Nat, NEW t, Complete(t), NEW o, Fits(o), IsSeq(f),
         At(f, start + o, t.data), NEW size, size = Size(t), NEW data,
         data = Fetched(f, start, o, size), TensorFits(f, start, ItemOf(t, o))
  PROVE  data = t.data
<1>1. PICK l \in Nat, p \in Nat, n \in Nat : l = Len(f) /\ p = o /\ n = size
  <2>1. size \in Nat
    <3>1. ProductOf(t.dims) \in Nat
      BY ProductIs DEF Complete, Shaped
    <3> QED BY <3>1, RowBytesIs DEF Size
  <2>2. Len(f) \in Nat
    BY DEF IsSeq
  <2>3. o \in Nat
    BY DEF Fits
  <2> QED BY <2>1, <2>2, <2>3
<1>2. RowBytes(ItemOf(t, o).type, ItemOf(t, o).elements) = n /\ ItemOf(t, o).offset = p
  BY <1>1 DEF ItemOf, Size
<1>3. n <= l - start - p
  BY <1>1, <1>2 DEF TensorFits
<1>4. t.data = [b \in 1..n |-> t.data[b]]
  BY <1>1 DEF Complete
<1>5. Len(t.data) = n
  BY <1>4, BuiltIs
<1>6. ASSUME NEW b \in 1..n PROVE data[b] = t.data[b]
  <2>1. (start + p) + b <= l
    BY <1>3
  <2>2. f[(start + p) + b] = t.data[b]
    BY <1>1, <1>5, <2>1 DEF At
  <2> QED BY <1>1, <2>1, <2>2 DEF Fetched
<1>7. data = [b \in 1..n |-> data[b]]
  BY <1>1 DEF Fetched
<1> QED BY <1>4, <1>6, <1>7

\* A file that holds what was written, as far as it goes, is read as it was
\* written or refused; and it is not refused if nothing is missing.
LEMMA FileBack ==
  ASSUME NEW f, IsSeq(f), NEW kvs, NEW ts, NEW os, NEW h, Writable(kvs, ts, os),
         HeaderSays(h, kvs, Len(ts), ts, os, Len(ts)), At(f, 0, h),
         NEW start, start = AlignUp(Len(h), Alignment),
         \A k \in 1..Len(ts) : At(f, start + os[k], ts[k].data)
  PROVE  \/ Load(f) = [ok |-> TRUE, kvs |-> kvs, tensors |-> ts]
         \/ /\ Load(f) = Refused
            /\ ~(start <= Len(f) /\ \A k \in 1..Len(ts) : start + os[k] + Len(ts[k].data) <= Len(f))
<1>0. PICK n \in Nat : n = Len(ts) /\ DOMAIN ts = 1..n /\ Fits(n)
  BY DEF Writable, IsSeq
<1>1. PICK P, rows : /\ Strung(h, P, rows, n)
                     /\ P[0] = Len(HeaderBytes(kvs, n)) /\ At(h, 0, HeaderBytes(kvs, n))
                     /\ \A k \in 1..n : rows[k] = IndexBytes(ts[k], os[k])
  BY <1>0 DEF HeaderSays
<1>2. PICK l \in Nat, m \in Nat, z \in Nat : l = Len(f) /\ m = Len(h) /\ z = 0
  BY <1>1 DEF Strung, IsSeq
<1>3. PICK head : head = HeaderBytes(kvs, n)
  OBVIOUS
<1>4. IsSeq(head)
  BY <1>3, HeaderIs DEF Writable
<1>5. PICK H \in Nat : H = Len(head) /\ H = P[0] /\ H <= m
  <2>1. 0 \in 0..n
    OBVIOUS
  <2>2. P[0] \in 0..m
    BY <1>1, <1>2, <2>1 DEF Strung
  <2> QED BY <1>1, <1>3, <2>2
<1>6. At(f, 0, head)
  <2>1. At(f, z, h) /\ At(h, z, head)
    BY <1>1, <1>2, <1>3
  <2>2. IsSeq(h) /\ z + Len(head) <= Len(h)
    BY <1>1, <1>2, <1>5 DEF Strung
  <2>3. At(f, z + z, head)
    BY <1>4, <2>1, <2>2, AtWithin
  <2>4. z + z = 0
    BY <1>2
  <2> QED BY <2>3, <2>4
<1>7. /\ H >= 24
      /\ ~(24 <= l) => ~HeaderOK(f)
      /\ 24 <= l =>
           /\ HeaderOK(f) /\ Num(f, 8) = n
           /\ Table(LoadKv, f, 24, Num(f, 16))
                = IF H <= l THEN [at |-> H, items |-> kvs] ELSE Nothing
  <2>1. kvs \in Seq(KvType) /\ Fits(Len(kvs)) /\ Fits(n) /\ At(f, 0, HeaderBytes(kvs, n))
    BY <1>0, <1>3, <1>6 DEF Writable
  <2>2. Len(HeaderBytes(kvs, n)) = H /\ Len(f) = l
    BY <1>2, <1>3, <1>5
  <2> QED BY <2>1, <2>2, HeaderBack
<1>8. start \in Nat /\ start >= m
  BY <1>2, AlignmentAssumption, AlignUpBounds
<1>9. CASE ~(24 <= l)
  <2>1. Load(f) = Refused
    BY <1>7, <1>9, Zenon DEF Load
  <2>2. ~(start <= l)
    BY <1>5, <1>7, <1>8, <1>9
  <2> QED BY <1>2, <2>1, <2>2
<1>10. CASE 24 <= l
  <2> DEFINE kvt == Table(LoadKv, f, 24, Num(f, 16))
             index == Table(IndexRecord, f, kvt.at, Num(f, 8))
             place == AlignUp(index.at, AlignmentOf(kvt.items))
             byte(k) == IF k <= Len(f) THEN f[k] ELSE 0
             data(t) == [b \in 1..RowBytes(t.type, t.elements) |-> byte(place + t.offset + b)]
             tensors == [k \in DOMAIN index.items |->
                           [name |-> index.items[k].name, dims |-> index.items[k].dims,
                            type |-> index.items[k].type, data |-> data(index.items[k])]]
  <2>1. Load(f) = IF kvt.at = Bad THEN Refused
                  ELSE IF index.at = Bad THEN Refused
                  ELSE IF place > Len(f) \/ \E k \in DOMAIN index.items : ~TensorFits(f, place, index.items[k])
                  THEN Refused
                  ELSE [ok |-> TRUE, kvs |-> kvt.items, tensors |-> tensors]
    BY <1>7, <1>10, Zenon DEF Load
  <2>2. kvt = IF H <= l THEN [at |-> H, items |-> kvs] ELSE Nothing
    BY <1>7, <1>10
  <2> HIDE DEF kvt
  <2>3. CASE ~(H <= l)
    <3>1. kvt.at = Bad
      BY <2>2, <2>3 DEF Nothing
    <3>2. Load(f) = Refused
      BY <2>1, <3>1
    <3>3. ~(start <= l)
      BY <1>5, <1>8, <2>3
    <3> QED BY <1>2, <3>2, <3>3
  <2>4. CASE H <= l
    <3>1. kvt.at = H /\ kvt.at # Bad /\ kvt.items = kvs
      BY <2>2, <2>4 DEF Bad
    <3>2. PICK items : items = [k \in 1..n |-> ItemOf(ts[k], os[k])]
      OBVIOUS
    <3>3. items = [k \in 1..n |-> items[k]] /\ \A k \in 1..n : items[k] = ItemOf(ts[k], os[k])
      BY <3>2
    <3>4. IsSeq(items) /\ Len(items) = n /\ DOMAIN items = 1..n
      BY <3>3, BuiltIs
    <3>5. ASSUME NEW k \in 1..n, NEW p \in Nat, At(f, p, rows[k])
          PROVE  IndexRecord(f, p) = Back(f, p + Len(rows[k]), items[k])
      <4>1. PICK t, o : t = ts[k] /\ o = os[k]
        OBVIOUS
      <4>2. Shaped(t.name, t.dims) /\ Fits(t.type) /\ Fits(o)
        BY <1>0, <4>1 DEF Writable, Complete
      <4>3. rows[k] = IndexBytes(t, o) /\ items[k] = ItemOf(t, o)
        BY <1>1, <3>3, <4>1
      <4>4. At(f, p, IndexBytes(t, o))
        BY <3>5, <4>3
      <4>5. IndexRecord(f, p) = Back(f, p + Len(IndexBytes(t, o)), ItemOf(t, o))
        BY <4>2, <4>4, IndexBack
      <4> QED BY <4>3, <4>5
    <3>6. Table(IndexRecord, f, P[0], n) = IF m <= l THEN [at |-> m, items |-> items] ELSE Nothing
      <4>1. P[0] <= Len(f)
        BY <1>2, <1>5, <2>4
      <4>2. Table(IndexRecord, f, P[0], n)
              = IF Len(h) <= Len(f) THEN [at |-> Len(h), items |-> items] ELSE Nothing
        <5>1. RecordsRead(f, rows, items, n)
          BY <3>5 DEF RecordsRead
        <5> QED BY <1>1, <3>4, <4>1, <5>1, IndexBacks
      <4> QED BY <1>2, <4>2
    <3>7. index = IF m <= l THEN [at |-> m, items |-> items] ELSE Nothing
      BY <1>5, <1>7, <1>10, <3>1, <3>6
    <3> HIDE DEF index
    <3>8. CASE ~(m <= l)
      <4>1. index.at = Bad
        BY <3>7, <3>8 DEF Nothing
      <4>2. Load(f) = Refused
        BY <2>1, <4>1
      <4>3. ~(start <= l)
        BY <1>2, <1>8, <3>8
      <4> QED BY <1>2, <4>2, <4>3
    <3>9. CASE m <= l
      <4>1. index.at = m /\ index.at # Bad /\ index.items = items
        BY <3>7, <3>9 DEF Bad
      <4>2. place = start
        BY <1>2, <3>1, <4>1 DEF Writable
      <4> HIDE DEF place
      <4>3. Load(f) = IF start > Len(f) \/ \E k \in 1..n : ~TensorFits(f, start, items[k])
                      THEN Refused ELSE [ok |-> TRUE, kvs |-> kvs, tensors |-> tensors]
        <5> HIDE DEF tensors
        <5> QED BY <2>1, <3>1, <3>4, <4>1, <4>2
      <4>4. ASSUME start <= Len(f), \A k \in 1..n : TensorFits(f, start, items[k])
            PROVE  tensors = ts
        <5>1. ASSUME NEW k \in 1..n PROVE tensors[k] = ts[k]
          <6>1. PICK t, o, got : t = ts[k] /\ o = os[k] /\ got = data(items[k])
            OBVIOUS
          <6>2. Complete(t) /\ Fits(o) /\ At(f, start + o, t.data)
            BY <1>0, <6>1 DEF Writable
          <6>3. items[k] = ItemOf(t, o)
            BY <3>3, <6>1
          <6>4. PICK size : size = Size(t) /\ size = RowBytes(items[k].type, items[k].elements)
            BY <6>3 DEF ItemOf, Size
          <6>5. got = Fetched(f, start, o, size)
            <7>1. items[k].offset = o
              BY <6>3 DEF ItemOf
            <7> QED BY <4>2, <6>1, <6>4, <7>1 DEF Fetched
          <6>6. got = t.data
            <7>1. TensorFits(f, start, ItemOf(t, o))
              BY <4>4, <6>3, Zenon
            <7> QED BY <1>8, <6>2, <6>4, <6>5, <7>1, TensorBack
          <6> HIDE DEF data
          <6>7. tensors[k] = [name |-> t.name, dims |-> t.dims, type |-> t.type, data |-> got]
            BY <3>4, <4>1, <6>1, <6>3 DEF ItemOf
          <6> QED BY <6>1, <6>2, <6>6, <6>7 DEF Complete
        <5>2. tensors = [k \in 1..n |-> tensors[k]]
          <6> HIDE DEF data
          <6> QED BY <3>4, <4>1
        <5>3. ts = [k \in 1..n |-> ts[k]]
          <6>1. PICK S : ts \in Seq(S)
            BY DEF Writable, IsSeq
          <6> QED BY <1>0, <6>1
        <5> HIDE DEF tensors
        <5> QED BY <5>1, <5>2, <5>3
      <4> HIDE DEF tensors
      <4>5. ASSUME start <= l, NEW k \in 1..n, start + os[k] + Len(ts[k].data) <= l
            PROVE  TensorFits(f, start, items[k])
        <5>1. PICK t, o : t = ts[k] /\ o = os[k] /\ o \in Nat
          BY <1>0 DEF Writable, Fits
        <5>2. Complete(t) /\ items[k] = ItemOf(t, o)
          BY <1>0, <3>3, <5>1 DEF Writable
        <5>3. PICK size \in Nat : size = Size(t)
          <6>1. ProductOf(t.dims) \in Nat
            BY <5>2, ProductIs DEF Complete, Shaped
          <6> QED BY <6>1, RowBytesIs DEF Size
        <5>4. Len(t.data) = size
          BY <5>2, <5>3, BuiltIs DEF Complete
        <5>5. start + o + size <= l
          BY <4>5, <5>1, <5>4
        <5>6. o <= l - start /\ size <= l - start - o
          <6>1. o \in Nat
            BY <5>1
          <6> QED BY <1>8, <5>5, <6>1
        <5> QED BY <1>2, <5>2, <5>3, <5>6 DEF TensorFits, ItemOf, Size, Complete
      <4>6. CASE start <= l /\ \A k \in 1..n : TensorFits(f, start, items[k])
        <5>1. Load(f) = [ok |-> TRUE, kvs |-> kvs, tensors |-> tensors]
          BY <1>2, <1>8, <4>3, <4>6
        <5> QED BY <1>2, <4>4, <4>6, <5>1
      <4>7. CASE ~(start <= l /\ \A k \in 1..n : TensorFits(f, start, items[k]))
        <5>1. Load(f) = Refused
          BY <1>2, <1>8, <4>3, <4>7
        <5>2. ~(start <= l /\ \A k \in 1..n : start + os[k] + Len(ts[k].data) <= l)
          BY <4>5, <4>7
        <5> QED BY <1>0, <1>2, <5>1, <5>2
      <4> QED BY <4>6, <4>7
    <3> QED BY <3>8, <3>9
  <2> QED BY <2>3, <2>4
<1> QED BY <1>9, <1>10
===========================================================================
