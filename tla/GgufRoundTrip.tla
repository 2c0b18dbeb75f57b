---------------------------- MODULE GgufRoundTrip ----------------------------
(***************************************************************************)
(* The round trip of GgufWrite: what the loader reads of a file the writer *)
(* closed, or left cut short; and the two readers of a file against each   *)
(* other. The fields and how they are read are in GgufProofs.              *)
(***************************************************************************)
EXTENDS GgufProofs

(* The places, the header and the disk, step by step.                        *)

\* The place of tensor k in the data section: its offset, or the next one to be given.
Spot(os, o, k) == IF k <= Len(os) THEN os[k] ELSE o
Spots(os, o, ts) ==
  /\ \A k \in 1..(Len(os) + 1) : Spot(os, o, k) \in Nat
  /\ Spot(os, o, 1) = 0
  /\ \A k \in 1..Len(os) : Spot(os, o, k + 1) = AlignUp(Spot(os, o, k) + Len(ts[k].data), Alignment)
  /\ \A k \in 1..Len(os) : \A j \in (k + 1)..(Len(os) + 1) : Spot(os, o, k + 1) <= Spot(os, o, j)

\* No place has been given.
LEMMA SpotsStart == ASSUME NEW ts PROVE Spots(<<>>, 0, ts)
<1>1. Len(<<>>) = 0
  OBVIOUS
<1> QED BY <1>1 DEF Spots, Spot

\* One more place.
LEMMA SpotsMore ==
  ASSUME NEW os, IsSeq(os), NEW o, NEW ts, Spots(os, o, ts), IsSeq(ts[Len(os) + 1].data)
  PROVE  Spots(Append(os, o), AlignUp(o + Len(ts[Len(os) + 1].data), Alignment), ts)
<1>1. PICK m \in Nat, s \in Nat : m = Len(os) /\ s = Len(ts[Len(os) + 1].data)
  BY DEF IsSeq
<1>2. o \in Nat
  <2>1. m + 1 \in 1..(m + 1) /\ ~(m + 1 <= m)
    OBVIOUS
  <2>2. Spot(os, o, m + 1) \in Nat
    BY <1>1, <2>1 DEF Spots
  <2> QED BY <1>1, <2>1, <2>2 DEF Spot
<1>3. PICK new \in Nat : new = AlignUp(o + s, Alignment) /\ new >= o
  <2>1. o + s \in Nat
    BY <1>2
  <2>2. AlignUp(o + s, Alignment) \in Nat /\ AlignUp(o + s, Alignment) >= o + s
    BY <2>1, AlignmentAssumption, AlignUpBounds
  <2> QED BY <1>2, <2>2
<1>4. PICK more : more = Append(os, o)
  OBVIOUS
<1>5. Len(more) = m + 1 /\ more[m + 1] = o /\ \A k \in 1..m : more[k] = os[k]
  BY <1>1, <1>4, AppendIs
<1>6. ASSUME NEW k \in 1..(m + 1) PROVE Spot(more, new, k) = Spot(os, o, k)
  <2>1. CASE k = m + 1
    BY <1>1, <1>5, <2>1 DEF Spot
  <2>2. CASE k \in 1..m
    BY <1>1, <1>5, <2>2 DEF Spot
  <2> QED BY <2>1, <2>2
<1>7. Spot(more, new, m + 2) = new /\ Spot(os, o, m + 1) = o
  BY <1>1, <1>5 DEF Spot
<1>8. ASSUME NEW k \in 1..(m + 2) PROVE Spot(more, new, k) \in Nat
  <2>1. CASE k = m + 2
    BY <1>7, <2>1
  <2>2. CASE k \in 1..(m + 1)
    <3>1. Spot(os, o, k) \in Nat
      BY <1>1, <2>2 DEF Spots
    <3> QED BY <1>6, <2>2, <3>1
  <2> QED BY <2>1, <2>2
<1>9. ASSUME NEW k \in 1..(m + 1)
      PROVE  Spot(more, new, k + 1) = AlignUp(Spot(more, new, k) + Len(ts[k].data), Alignment)
  <2>1. CASE k = m + 1
    <3>1. k + 1 = m + 2 /\ Spot(more, new, k) = o /\ Len(ts[k].data) = s
      BY <1>1, <1>6, <1>7, <2>1
    <3> QED BY <1>3, <1>7, <3>1
  <2>2. CASE k \in 1..m
    <3>1. k + 1 \in 1..(m + 1)
      BY <2>2
    <3>2. Spot(os, o, k + 1) = AlignUp(Spot(os, o, k) + Len(ts[k].data), Alignment)
      BY <1>1, <2>2 DEF Spots
    <3> QED BY <1>6, <3>1, <3>2
  <2> QED BY <2>1, <2>2
<1>10. ASSUME NEW k \in 1..(m + 1), NEW j \in (k + 1)..(m + 2)
       PROVE  Spot(more, new, k + 1) <= Spot(more, new, j)
  <2>1. CASE j = m + 2
    <3>1. CASE k = m + 1
      <4>1. k + 1 = m + 2
        BY <3>1
      <4> QED BY <1>7, <2>1, <4>1
    <3>2. CASE k \in 1..m
      <4>1. k + 1 \in 1..(m + 1) /\ m + 1 \in (k + 1)..(m + 1)
        BY <3>2
      <4>2. PICK x \in Nat : x = Spot(os, o, k + 1) /\ x <= o
        <5>1. Spot(os, o, k + 1) <= Spot(os, o, m + 1) /\ Spot(os, o, k + 1) \in Nat
          BY <1>1, <3>2, <4>1 DEF Spots
        <5> QED BY <1>7, <5>1
      <4>3. Spot(more, new, k + 1) = x
        BY <1>6, <4>1, <4>2
      <4> QED BY <1>2, <1>3, <1>7, <2>1, <4>2, <4>3
    <3> QED BY <3>1, <3>2
  <2>2. CASE j \in (k + 1)..(m + 1)
    <3>1. k \in 1..m /\ k + 1 \in 1..(m + 1) /\ j \in 1..(m + 1)
      BY <2>2
    <3>2. Spot(os, o, k + 1) <= Spot(os, o, j)
      BY <1>1, <2>2, <3>1 DEF Spots
    <3> QED BY <1>6, <3>1, <3>2
  <2> QED BY <2>1, <2>2
<1>11. Spot(more, new, 1) = 0
  <2>1. 1 \in 1..(m + 1)
    OBVIOUS
  <2> QED BY <1>6, <2>1 DEF Spots
<1>12. Spots(more, new, ts)
  <2>1. Len(more) + 1 = m + 2
    BY <1>5
  <2> QED BY <1>5, <1>8, <1>9, <1>10, <1>11, <2>1 DEF Spots
<1> QED BY <1>1, <1>3, <1>4, <1>12

\* The start of the header has no index yet.
LEMMA HeaderStart ==
  ASSUME NEW kvs \in Seq(KvType), NEW n, NEW ts, NEW os
  PROVE  HeaderSays(HeaderBytes(kvs, n), kvs, n, ts, os, 0)
<1>1. PICK h : h = HeaderBytes(kvs, n)
  OBVIOUS
<1>2. IsSeq(h) /\ Len(h) \in Nat
  BY <1>1, HeaderIs DEF IsSeq
<1>3. PICK P : P = [k \in 0..0 |-> Len(h)]
  OBVIOUS
<1>4. P[0] = Len(h) /\ \A k \in 0..0 : P[k] \in 0..Len(h)
  BY <1>2, <1>3
<1>5. Strung(h, P, <<>>, 0)
  BY <1>2, <1>4 DEF Strung
<1>6. At(h, 0, h)
  <2>1. \A i \in 1..Len(h) : 0 + i = i
    BY <1>2
  <2> QED BY <2>1 DEF At
<1> QED BY <1>1, <1>4, <1>5, <1>6 DEF HeaderSays

\* One more record.
LEMMA HeaderMore ==
  ASSUME NEW h, NEW kvs \in Seq(KvType), NEW n, NEW ts, NEW os, IsSeq(os), NEW o,
         HeaderSays(h, kvs, n, ts, os, Len(os)), TensorOut(ts[Len(os) + 1])
  PROVE  HeaderSays(h \o IndexBytes(ts[Len(os) + 1], o), kvs, n, ts, Append(os, o), Len(Append(os, o)))
<1>1. PICK m \in Nat : m = Len(os)
  BY DEF IsSeq
<1>2. PICK P, rows : /\ Strung(h, P, rows, m)
                     /\ P[0] = Len(HeaderBytes(kvs, n)) /\ At(h, 0, HeaderBytes(kvs, n))
                     /\ \A k \in 1..m : rows[k] = IndexBytes(ts[k], os[k])
  BY <1>1 DEF HeaderSays
<1>3. PICK r, head, new : r = IndexBytes(ts[m + 1], o) /\ head = HeaderBytes(kvs, n) /\ new = Append(os, o)
  OBVIOUS
<1>4. IsSeq(r) /\ IsSeq(head) /\ IsSeq(h)
  BY <1>1, <1>2, <1>3, IndexBytesAre, HeaderIs DEF Strung
<1> DEFINE more == [k \in 1..(m + 1) |-> IF k = m + 1 THEN r ELSE rows[k]]
<1>5. more[m + 1] = r /\ \A k \in 1..m : more[k] = rows[k]
  <2>1. \A k \in 1..m : k \in 1..(m + 1) /\ k # m + 1
    OBVIOUS
  <2> QED BY <2>1
<1> HIDE DEF more
<1>6. PICK Q : Q[0] = P[0] /\ Strung(h \o r, Q, more, m + 1)
  BY <1>2, <1>4, <1>5, StrungMore
<1>7. At(h \o r, 0, head)
  <2>1. PICK z \in Nat : z = 0
    OBVIOUS
  <2>2. z + Len(head) <= Len(h)
    <3>1. 0 \in 0..m
      OBVIOUS
    <3>2. P[0] \in 0..Len(h)
      BY <1>2, <3>1 DEF Strung
    <3> QED BY <1>2, <1>3, <2>1, <3>2
  <2>3. At(h, z, head)
    BY <1>2, <1>3, <2>1
  <2> QED BY <1>4, <2>1, <2>2, <2>3, AtKept
<1>8. Len(new) = m + 1 /\ new[m + 1] = o /\ \A k \in 1..m : new[k] = os[k]
  BY <1>1, <1>3, AppendIs
<1>9. ASSUME NEW k \in 1..(m + 1) PROVE more[k] = IndexBytes(ts[k], new[k])
  <2>1. CASE k = m + 1
    BY <1>3, <1>5, <1>8, <2>1
  <2>2. CASE k \in 1..m
    BY <1>2, <1>5, <1>8, <2>2
  <2> QED BY <2>1, <2>2
<1>10. HeaderSays(h \o r, kvs, n, ts, new, m + 1)
  <2>1. /\ Strung(h \o r, Q, more, m + 1)
        /\ Q[0] = Len(HeaderBytes(kvs, n)) /\ At(h \o r, 0, HeaderBytes(kvs, n))
    BY <1>2, <1>3, <1>6, <1>7
  <2>2. \A k \in 1..(m + 1) : more[k] = IndexBytes(ts[k], new[k])
    BY <1>9
  <2> QED BY <2>1, <2>2, Zenon DEF HeaderSays
<1> QED BY <1>1, <1>3, <1>8, <1>10

\* What the disk holds, as far as it goes: the header, and the data of every
\* tensor where the index says.
Start(h) == AlignUp(Len(h), Alignment)
DiskSays(d, h, ts, os) ==
  At(d, 0, h) /\ \A k \in 1..Len(ts) : At(d, Start(h) + os[k], ts[k].data)

\* Padding adds to a file.
LEMMA Padded ==
  ASSUME NEW f, IsSeq(f)
  PROVE  \E pad : IsSeq(pad) /\ PadTo(f, Alignment) = f \o pad
<1> DEFINE n == AlignUp(Len(f), Alignment) - Len(f)
           pad == [k \in 1..n |-> 0]
<1>1. n \in Nat
  <2>1. Len(f) \in Nat
    BY DEF IsSeq
  <2> QED BY <2>1, AlignmentAssumption, AlignUpBounds
<1>2. PadTo(f, Alignment) = f \o pad
  BY DEF PadTo
<1> HIDE DEF n
<1>3. pad = [k \in 1..n |-> pad[k]]
  OBVIOUS
<1> HIDE DEF pad
<1>4. IsSeq(pad)
  BY <1>1, <1>3, BuiltIs
<1> QED BY <1>2, <1>4

\* A file holds itself.
LEMMA AtSelf == ASSUME NEW f, IsSeq(f) PROVE At(f, 0, f)
<1>1. \A i \in 1..Len(f) : 0 + i = i
  BY DEF IsSeq
<1> QED BY <1>1 DEF At

\* Nothing is asked of what lies past the end.
LEMMA AtPast ==
  ASSUME NEW f, IsSeq(f), NEW p \in Nat, NEW s, IsSeq(s), p >= Len(f)
  PROVE  At(f, p, s)
<1>1. Len(f) \in Nat
  BY DEF IsSeq
<1>2. \A i \in 1..Len(s) : ~(p + i <= Len(f))
  BY <1>1
<1> QED BY <1>2 DEF At

\* The header alone.
LEMMA DiskStart ==
  ASSUME NEW h, IsSeq(h), NEW ts, NEW os, \A k \in 1..Len(ts) : IsSeq(ts[k].data) /\ os[k] \in Nat
  PROVE  DiskSays(PadTo(h, Alignment), h, ts, os)
<1>1. PICK d : d = PadTo(h, Alignment)
  OBVIOUS
<1>2. PICK s \in Nat : s = Start(h)
  <2>1. Len(h) \in Nat
    BY DEF IsSeq
  <2> QED BY <2>1, AlignmentAssumption, AlignUpBounds DEF Start
<1>3. IsSeq(d) /\ Len(d) = s
  BY <1>1, <1>2, PadIs DEF Start
<1>4. At(d, 0, h)
  <2>1. PICK pad : IsSeq(pad) /\ d = h \o pad
    BY <1>1, Padded
  <2>2. PICK z \in Nat : z = 0
    OBVIOUS
  <2>3. At(h, z, h) /\ z + Len(h) <= Len(h)
    <3>1. Len(h) \in Nat
      BY DEF IsSeq
    <3> QED BY <2>2, <3>1, AtSelf
  <2>4. At(h \o pad, z, h)
    BY <2>1, <2>3, AtKept
  <2> QED BY <2>1, <2>2, <2>4
<1>5. ASSUME NEW k \in 1..Len(ts) PROVE At(d, s + os[k], ts[k].data)
  <2>1. PICK p \in Nat : p = s + os[k] /\ p >= Len(d)
    BY <1>3
  <2> QED BY <1>3, <2>1, AtPast
<1> QED BY <1>1, <1>2, <1>4, <1>5 DEF DiskSays

\* The start of the data section is a multiple of the alignment.
LEMMA StartIs ==
  ASSUME NEW h, IsSeq(h)
  PROVE  \E q \in Nat : Start(h) = q * Alignment
<1>1. PICK a \in Nat \ {0} : a = Alignment
  BY AlignmentAssumption
<1>2. PICK l \in Nat : l = Len(h)
  BY DEF IsSeq
<1>3. PICK q \in Nat : q = (l + a - 1) \div a
  <2>1. l + a - 1 \in Nat
    BY <1>1, <1>2
  <2> QED BY <1>1, <2>1, QuotientBounds
<1>4. Start(h) = q * a
  BY <1>1, <1>2, <1>3 DEF Start, AlignUp
<1> QED BY <1>1, <1>4

\* The file holds the data of w tensors and ends where the next belongs.
EndsAt(d, h, ts, os, o, w) ==
  /\ IsSeq(d) /\ IsSeq(h) /\ IsSeq(os) /\ Len(os) = Len(ts)
  /\ \A k \in 1..Len(ts) : IsSeq(ts[k].data)
  /\ Spots(os, o, ts) /\ DiskSays(d, h, ts, os)
  /\ Len(d) = Start(h) + Spot(os, o, w + 1)

\* The data of one tensor more: the file ends where the next one belongs.
LEMMA DiskMore ==
  ASSUME NEW d, NEW h, NEW ts, NEW os, NEW o, NEW w \in Nat, w < Len(ts), EndsAt(d, h, ts, os, o, w),
         NEW g, g = PadTo(d \o ts[w + 1].data, Alignment)
  PROVE  DiskSays(g, h, ts, os) /\ Len(g) = Start(h) + Spot(os, o, w + 2)
<1>0. /\ IsSeq(d) /\ IsSeq(h) /\ IsSeq(os) /\ Len(os) = Len(ts)
      /\ \A k \in 1..Len(ts) : IsSeq(ts[k].data)
      /\ Spots(os, o, ts) /\ DiskSays(d, h, ts, os)
      /\ Len(d) = Start(h) + Spot(os, o, w + 1)
  BY DEF EndsAt
<1> USE <1>0
<1>1. PICK n \in Nat : n = Len(ts) /\ n = Len(os)
  BY DEF IsSeq
<1>2. w + 1 \in 1..n
  BY <1>1
<1>3. PICK q \in Nat : Start(h) = q * Alignment
  BY StartIs
<1>4. PICK s \in Nat : s = Start(h) /\ s = q * Alignment
  BY <1>3, AlignmentAssumption
<1>5. PICK x \in Nat, y \in Nat : x = Spot(os, o, w + 1) /\ y = Spot(os, o, w + 2)
  <2>1. w + 1 \in 1..(n + 1) /\ w + 2 \in 1..(n + 1)
    BY <1>2
  <2> QED BY <1>1, <2>1 DEF Spots
<1>6. PICK data : data = ts[w + 1].data /\ IsSeq(data)
  BY <1>1, <1>2
<1>7. PICK m \in Nat, l \in Nat : m = Len(data) /\ l = Len(d) /\ l = s + x
  BY <1>4, <1>5, <1>6 DEF IsSeq
<1>8. PICK e : e = d \o data /\ g = PadTo(e, Alignment)
  BY <1>6
<1>9. IsSeq(e) /\ Len(e) = l + m
  BY <1>6, <1>7, <1>8, ConcatIs
<1>10. y = AlignUp(x + m, Alignment)
  <2>1. w + 1 \in 1..Len(os) /\ (w + 1) + 1 = w + 2
    BY <1>1, <1>2
  <2>2. Spot(os, o, (w + 1) + 1) = AlignUp(Spot(os, o, w + 1) + Len(ts[w + 1].data), Alignment)
    BY <2>1 DEF Spots
  <2> QED BY <1>5, <1>6, <1>7, <2>1, <2>2
<1>11. IsSeq(g) /\ Len(g) = s + y
  <2>1. IsSeq(g) /\ Len(g) = AlignUp(l + m, Alignment)
    BY <1>8, <1>9, PadIs
  <2>2. PICK v \in Nat : v = x + m
    OBVIOUS
  <2>3. AlignUp(q * Alignment + v, Alignment) = q * Alignment + AlignUp(v, Alignment)
    BY AlignmentAssumption, AlignUpShift
  <2>4. l + m = s + v
    <3>1. l = s + x
      BY <1>7
    <3> QED BY <2>2, <3>1
  <2> QED BY <1>4, <1>10, <2>1, <2>2, <2>3, <2>4
<1>12. PICK pad : IsSeq(pad) /\ g = e \o pad
  BY <1>8, <1>9, Padded
<1>13. ASSUME NEW p \in Nat, NEW t, IsSeq(t), At(d, p, t), p + Len(t) <= l PROVE At(g, p, t)
  <2>1. At(e, p, t)
    BY <1>6, <1>7, <1>8, <1>13, AtKept
  <2>2. p + Len(t) <= Len(e)
    <3>1. Len(t) \in Nat
      BY <1>13 DEF IsSeq
    <3> QED BY <1>9, <1>13, <3>1
  <2> QED BY <1>9, <1>12, <1>13, <2>1, <2>2, AtKept
<1>14. At(g, 0, h)
  <2>1. PICK z \in Nat : z = 0
    OBVIOUS
  <2>2. At(d, z, h)
    BY <2>1 DEF DiskSays
  <2>3. z + Len(h) <= l
    <3>1. Len(h) \in Nat
      BY DEF IsSeq
    <3>2. s >= Len(h)
      BY <1>4, <3>1, AlignmentAssumption, AlignUpBounds DEF Start
    <3> QED BY <1>7, <2>1, <3>1, <3>2
  <2>4. At(g, z, h)
    BY <1>13, <2>2, <2>3
  <2> QED BY <2>1, <2>4
<1>15. ASSUME NEW k \in 1..n PROVE At(g, s + os[k], ts[k].data)
  <2>1. PICK t : t = ts[k].data /\ IsSeq(t)
    BY <1>1
  <2>2. PICK j \in Nat, c \in Nat : j = Spot(os, o, k) /\ j = os[k] /\ c = Spot(os, o, k + 1)
    <3>1. k \in 1..(n + 1) /\ k + 1 \in 1..(n + 1) /\ k <= Len(os)
      BY <1>1
    <3>2. Spot(os, o, k) \in Nat /\ Spot(os, o, k + 1) \in Nat
      BY <1>1, <3>1 DEF Spots
    <3> QED BY <3>1, <3>2 DEF Spot
  <2>3. PICK p \in Nat : p = s + j
    OBVIOUS
  <2>4. At(d, p, t)
    BY <1>1, <1>4, <2>1, <2>2, <2>3 DEF DiskSays
  <2>5. CASE k < w + 1
    <3>1. j + Len(t) <= c
      <4>1. c = AlignUp(j + Len(t), Alignment)
        BY <1>1, <2>1, <2>2 DEF Spots
      <4>2. j + Len(t) \in Nat
        BY <2>1 DEF IsSeq
      <4> QED BY <4>1, <4>2, AlignmentAssumption, AlignUpBounds
    <3>2. c <= x
      <4>1. k \in 1..Len(os) /\ w + 1 \in (k + 1)..(Len(os) + 1)
        BY <1>1, <1>2, <2>5
      <4> QED BY <1>5, <2>2, <4>1 DEF Spots
    <3>3. p + Len(t) <= l
      <4>1. Len(t) \in Nat
        BY <2>1 DEF IsSeq
      <4> QED BY <1>7, <2>3, <3>1, <3>2, <4>1
    <3>4. At(g, p, t)
      BY <1>13, <2>1, <2>4, <3>3
    <3> QED BY <2>1, <2>2, <2>3, <3>4
  <2>6. CASE k = w + 1
    <3>1. t = data /\ p = l
      BY <1>5, <1>6, <1>7, <2>1, <2>2, <2>3, <2>6
    <3>2. At(e, l, data)
      <4>1. PICK z \in Nat : z = 0
        OBVIOUS
      <4>2. At(e, z, d \o data)
        BY <1>8, <1>9, <4>1, AtSelf
      <4>3. At(e, z + Len(d), data)
        BY <1>6, <1>9, <4>2, AtConcat
      <4>4. z + Len(d) = l
        BY <1>7, <4>1
      <4> QED BY <4>3, <4>4
    <3>3. l + Len(data) <= Len(e)
      BY <1>7, <1>9
    <3>4. At(g, l, data)
      BY <1>6, <1>9, <1>12, <3>2, <3>3, AtKept
    <3> QED BY <2>1, <2>2, <2>3, <3>1, <3>4
  <2>7. CASE k > w + 1
    <3>1. y <= j
      <4>1. w + 1 \in 1..Len(os) /\ k \in ((w + 1) + 1)..(Len(os) + 1) /\ (w + 1) + 1 = w + 2
        BY <1>1, <1>2, <2>7
      <4>2. Spot(os, o, (w + 1) + 1) <= Spot(os, o, k)
        BY <4>1 DEF Spots
      <4> QED BY <1>5, <2>2, <4>1, <4>2
    <3>2. p >= Len(g)
      BY <1>11, <2>3, <3>1
    <3>3. At(g, p, t)
      BY <1>11, <2>1, <3>2, AtPast
    <3> QED BY <2>1, <2>2, <2>3, <3>3
  <2> QED BY <2>5, <2>6, <2>7
<1>16. DiskSays(g, h, ts, os)
  BY <1>1, <1>4, <1>14, <1>15 DEF DiskSays
<1> QED BY <1>4, <1>5, <1>11, <1>16

\* What is left of a file that is cut.
LEMMA DiskCut ==
  ASSUME NEW d, IsSeq(d), NEW h, IsSeq(h), NEW ts, NEW os, \A k \in 1..Len(ts) : os[k] \in Nat,
         NEW k \in 0..Len(d), DiskSays(d, h, ts, os)
  PROVE  DiskSays(SubSeq(d, 1, k), h, ts, os)
<1>1. PICK S : d \in Seq(S)
  BY DEF IsSeq
<1>2. PICK g : g = SubSeq(d, 1, k)
  OBVIOUS
<1>3. Len(g) = k /\ \A i \in 1..k : g[i] = d[i]
  BY <1>1, <1>2
<1>4. ASSUME NEW p, NEW s, At(d, p, s), p \in Nat PROVE At(g, p, s)
  <2> SUFFICES ASSUME NEW i \in 1..Len(s), p + i <= Len(g) PROVE g[p + i] = s[i]
    BY DEF At
  <2>1. p + i \in 1..k /\ p + i <= Len(d)
    BY <1>1, <1>3, <1>4
  <2> QED BY <1>3, <1>4, <2>1 DEF At
<1>5. At(g, 0, h)
  BY <1>4 DEF DiskSays
<1>6. ASSUME NEW j \in 1..Len(ts) PROVE At(g, Start(h) + os[j], ts[j].data)
  <2>1. Start(h) \in Nat
    <3>1. Len(h) \in Nat
      BY DEF IsSeq
    <3> QED BY <3>1, AlignmentAssumption, AlignUpBounds DEF Start
  <2>2. PICK p \in Nat : p = Start(h) + os[j]
    BY <2>1
  <2>3. At(d, p, ts[j].data)
    BY <2>2 DEF DiskSays
  <2> QED BY <1>4, <2>2, <2>3
<1> QED BY <1>2, <1>5, <1>6 DEF DiskSays

-----------------------------------------------------------------------------
(* What is loaded, what is recoded and what is on the disk, at every step.   *)

(***************************************************************************)
(* What was loaded, and of its tensors the ones recoded so far.            *)
(***************************************************************************)
RecodeInv ==
  /\ loaded = Refused \/ (loaded.ok = TRUE /\ LoadedType(loaded))
  /\ phase \in {"recode", "index", "data", "closed"} => loaded # Refused
  /\ phase = "load" => recoded = <<>>
  /\ loaded # Refused => Len(recoded) <= Len(loaded.tensors)
  /\ \A k \in 1..Len(recoded) : recoded[k] = Recoded(loaded.tensors[k])
  /\ phase \in {"index", "data", "closed"} => Len(recoded) = Len(loaded.tensors)

\* It holds at the start, ...
LEMMA InitRecodeInv == Init => RecodeInv
BY DEF Init, RecodeInv

\* ... and every step keeps it.
LEMMA RecodeStep == WriterInv /\ RecodeInv /\ [Next]_vars => RecodeInv'
<1> SUFFICES ASSUME WriterInv, RecodeInv, [Next]_vars PROVE RecodeInv'
  OBVIOUS
<1>1. CASE LoadInput
  <2>1. PICK got : got = Load(input) /\ (got = Refused \/ (got.ok = TRUE /\ LoadedType(got)))
    BY LoadIs DEF WriterInv
  <2>2. /\ loaded' = got /\ phase' = (IF got.ok THEN "recode" ELSE "failed")
        /\ recoded' = <<>> /\ Len(<<>>) = 0
    BY <1>1, <2>1 DEF LoadInput, RecodeInv
  <2>3. Refused.ok = FALSE
    BY DEF Refused
  <2>4. CASE got = Refused
    BY <2>2, <2>3, <2>4 DEF RecodeInv
  <2>5. CASE got.ok = TRUE /\ LoadedType(got)
    <3>1. Len(got.tensors) \in Nat
      BY <2>5 DEF LoadedType, IsSeq
    <3>2. got # Refused /\ phase' = "recode"
      BY <2>2, <2>3, <2>5
    <3> QED BY <2>2, <2>5, <3>1, <3>2 DEF RecodeInv
  <2> QED BY <2>1, <2>4, <2>5
<1>2. CASE Recode
  <2>1. PICK m \in Nat : m = Len(recoded)
    BY DEF WriterInv, IsSeq
  <2>2. PICK t : t = loaded.tensors[m + 1]
    OBVIOUS
  <2>3. phase = "recode" /\ m < Len(loaded.tensors) /\ loaded' = loaded /\ loaded # Refused
        /\ Len(loaded.tensors) \in Nat
    BY <1>2, <2>1 DEF Recode, RecodeInv, LoadedType, IsSeq
  <2>4. CASE CanDecode(t.type)
    <3>1. recoded' = Append(recoded, Recoded(t)) /\ phase' = phase
      BY <1>2, <2>1, <2>2, <2>4 DEF Recode
    <3>2. /\ Len(recoded') = m + 1 /\ recoded'[m + 1] = Recoded(t)
          /\ \A k \in 1..m : recoded'[k] = recoded[k]
      BY <2>1, <3>1, AppendIs DEF WriterInv
    <3>3. ASSUME NEW k \in 1..(m + 1) PROVE recoded'[k] = Recoded(loaded.tensors[k])
      <4>1. CASE k = m + 1
        BY <2>2, <3>2, <4>1
      <4>2. CASE k \in 1..m
        BY <2>1, <3>2, <4>2 DEF RecodeInv
      <4> QED BY <4>1, <4>2
    <3>4. Len(recoded') <= Len(loaded.tensors)
      BY <2>3, <3>2
    <3> QED BY <2>3, <3>1, <3>2, <3>3, <3>4 DEF RecodeInv
  <2>5. CASE ~CanDecode(t.type)
    <3>1. recoded' = recoded /\ phase' = "failed"
      BY <1>2, <2>1, <2>2, <2>5 DEF Recode
    <3> QED BY <2>3, <3>1 DEF RecodeInv
  <2> QED BY <2>4, <2>5
<1>3. CASE OpenOutput
  BY <1>3 DEF OpenOutput, RecodeInv
<1>4. CASE IndexTensor
  BY <1>4 DEF IndexTensor, RecodeInv
<1>5. CASE WriteHeader
  BY <1>5 DEF WriteHeader, RecodeInv
<1>6. CASE WriteTensor
  BY <1>6 DEF WriteTensor, RecodeInv
<1>7. CASE CloseOutput
  BY <1>7 DEF CloseOutput, RecodeInv
<1>8. CASE Cut
  BY <1>8 DEF Cut, RecodeInv
<1>9. CASE Done \/ UNCHANGED vars
  BY <1>9 DEF Done, vars, RecodeInv
<1> QED BY <1>1, <1>2, <1>3, <1>4, <1>5, <1>6, <1>7, <1>8, <1>9 DEF Next

\* The header of everything that is recoded.
Whole(l, ts, os, h) ==
  /\ l # Refused /\ Len(ts) = Len(l.tensors) /\ Len(os) = Len(ts)
  /\ HeaderSays(h, l.kvs, Len(ts), ts, os, Len(ts))

(***************************************************************************)
(* The index grows with the places; once the header is out the disk ends   *)
(* where the next tensor belongs, and whatever cuts the file leaves a      *)
(* prefix of what the index promises.                                      *)
(***************************************************************************)
FileInv ==
  /\ Spots(offs, off, recoded)
  /\ phase \in {"load", "recode"} => offs = <<>> /\ off = 0 /\ disk = <<>> /\ written = 0
  /\ phase = "index" =>
       /\ disk = <<>> /\ written = 0 /\ Len(offs) <= Len(recoded)
       /\ HeaderSays(header, loaded.kvs, Len(recoded), recoded, offs, Len(offs))
  /\ phase \in {"data", "closed"} =>
       /\ Whole(loaded, recoded, offs, header) /\ DiskSays(disk, header, recoded, offs)
       /\ written <= Len(recoded) /\ Len(disk) = Start(header) + Spot(offs, off, written + 1)
  /\ phase = "closed" => written = Len(recoded)
  /\ phase = "failed" =>
       \/ disk = <<>>
       \/ Whole(loaded, recoded, offs, header) /\ DiskSays(disk, header, recoded, offs)

\* It holds at the start.
LEMMA InitFileInv == Init => FileInv
<1> SUFFICES ASSUME Init PROVE FileInv
  OBVIOUS
<1>1. Spots(offs, off, recoded)
  BY SpotsStart DEF Init
<1> QED BY <1>1 DEF Init, FileInv, NoFile

\* The places of the index are numbers.
LEMMA OffsAre ==
  ASSUME NEW os, IsSeq(os), NEW o, NEW ts, Spots(os, o, ts)
  PROVE  \A k \in 1..Len(os) : os[k] \in Nat
<1> SUFFICES ASSUME NEW k \in 1..Len(os) PROVE os[k] \in Nat
  OBVIOUS
<1>1. Len(os) \in Nat
  BY DEF IsSeq
<1>2. k \in 1..(Len(os) + 1) /\ k <= Len(os)
  BY <1>1
<1> QED BY <1>2 DEF Spots, Spot

\* Every step keeps it.
LEMMA FileStep == WriterInv /\ RecodeInv /\ FileInv /\ [Next]_vars => FileInv'
<1> SUFFICES ASSUME WriterInv, RecodeInv, FileInv, [Next]_vars PROVE FileInv'
  OBVIOUS
<1>0. /\ IsSeq(header) /\ IsSeq(disk) /\ IsSeq(offs) /\ IsSeq(recoded) /\ written \in Nat
      /\ \A k \in 1..Len(recoded) : TensorOut(recoded[k]) /\ IsSeq(recoded[k].data)
      /\ Len(offs) \in Nat /\ Len(recoded) \in Nat
  BY DEF WriterInv, TensorOut, IsSeq
<1>1. CASE LoadInput
  BY <1>1 DEF LoadInput, FileInv
<1>2. CASE Recode
  <2>1. /\ phase = "recode" /\ phase' \in {"recode", "failed"}
        /\ UNCHANGED <<offs, off, disk, written>>
    BY <1>2 DEF Recode
  <2>2. offs' = <<>> /\ off' = 0 /\ disk' = <<>> /\ written' = 0
    BY <2>1 DEF FileInv
  <2>3. Spots(offs', off', recoded')
    BY <2>2, SpotsStart
  <2> QED BY <2>1, <2>2, <2>3 DEF FileInv
<1>3. CASE OpenOutput
  <2>1. /\ phase = "recode" /\ UNCHANGED <<loaded, recoded, offs, off, disk, written>>
        /\ \/ header' = HeaderBytes(loaded.kvs, Len(recoded)) /\ phase' = "index"
           \/ phase' = "failed"
    BY <1>3 DEF OpenOutput
  <2>2. offs = <<>> /\ off = 0 /\ disk = <<>> /\ written = 0 /\ Len(<<>>) = 0
    BY <2>1 DEF FileInv
  <2>3. LoadedType(loaded)
    BY <2>1 DEF WriterInv
  <2>4. CASE phase' = "failed"
    BY <2>1, <2>2, <2>4 DEF FileInv
  <2>5. CASE header' = HeaderBytes(loaded.kvs, Len(recoded)) /\ phase' = "index"
    <3>1. HeaderSays(header', loaded.kvs, Len(recoded), recoded, offs, Len(offs))
      BY <2>2, <2>3, <2>5, HeaderStart DEF LoadedType
    <3>2. Len(offs) <= Len(recoded)
      BY <1>0, <2>2
    <3> QED BY <2>1, <2>2, <2>5, <3>1, <3>2 DEF FileInv
  <2> QED BY <2>1, <2>4, <2>5
<1>4. CASE IndexTensor
  <2>1. PICK m \in Nat : m = Len(offs)
    BY <1>0
  <2>2. PICK t : t = recoded[m + 1]
    OBVIOUS
  <2>3. /\ phase = "index" /\ m < Len(recoded) /\ phase' = "index"
        /\ header' = header \o IndexBytes(t, off) /\ off' = AlignUp(off + Len(t.data), Alignment)
        /\ offs' = Append(offs, off) /\ UNCHANGED <<loaded, recoded, disk, written>>
    BY <1>4, <2>1, <2>2 DEF IndexTensor
  <2>4. TensorOut(t) /\ IsSeq(t.data)
    <3>1. m + 1 \in 1..Len(recoded)
      BY <1>0, <2>3
    <3> QED BY <1>0, <2>2, <3>1
  <2>5. Spots(offs', off', recoded')
    <3>1. Spots(offs, off, recoded)
      BY DEF FileInv
    <3> QED BY <1>0, <2>1, <2>2, <2>3, <2>4, <3>1, SpotsMore
  <2>6. HeaderSays(header', loaded'.kvs, Len(recoded'), recoded', offs', Len(offs'))
    <3>1. loaded.kvs \in Seq(KvType)
      BY <2>3 DEF RecodeInv, LoadedType
    <3>2. HeaderSays(header, loaded.kvs, Len(recoded), recoded, offs, Len(offs))
      BY <2>3 DEF FileInv
    <3>3. HeaderSays(header \o IndexBytes(recoded[Len(offs) + 1], off), loaded.kvs, Len(recoded),
                     recoded, Append(offs, off), Len(Append(offs, off)))
      BY <1>0, <2>1, <2>2, <2>4, <3>1, <3>2, HeaderMore
    <3> QED BY <2>1, <2>2, <2>3, <3>3
  <2>7. Len(offs') <= Len(recoded')
    <3>1. Len(offs') = m + 1
      BY <1>0, <2>1, <2>3, AppendIs
    <3> QED BY <1>0, <2>3, <3>1
  <2>8. disk' = <<>> /\ written' = 0
    BY <2>3 DEF FileInv
  <2> QED BY <2>3, <2>5, <2>6, <2>7, <2>8 DEF FileInv
<1>5. CASE WriteHeader
  <2>1. /\ phase = "index" /\ phase' = "data" /\ Len(offs) = Len(recoded)
        /\ disk' = PadTo(header, Alignment)
        /\ UNCHANGED <<loaded, recoded, header, offs, off, written>>
    BY <1>5 DEF WriteHeader
  <2>2. Whole(loaded, recoded, offs, header)
    <3>1. HeaderSays(header, loaded.kvs, Len(recoded), recoded, offs, Len(recoded))
      BY <2>1 DEF FileInv
    <3> QED BY <2>1, <3>1 DEF Whole, RecodeInv
  <2>3. Spots(offs, off, recoded) /\ written = 0
    BY <2>1 DEF FileInv
  <2>4. DiskSays(disk', header, recoded, offs)
    <3>1. \A k \in 1..Len(recoded) : IsSeq(recoded[k].data) /\ offs[k] \in Nat
      BY <1>0, <2>1, <2>3, OffsAre
    <3> QED BY <1>0, <2>1, <3>1, DiskStart
  <2>5. Len(disk') = Start(header) + Spot(offs, off, written + 1)
    <3>1. Len(disk') = Start(header)
      BY <1>0, <2>1, PadIs DEF Start
    <3>2. PICK x : x = Spot(offs, off, written + 1) /\ x = 0
      BY <2>3 DEF Spots
    <3>3. Start(header) \in Nat
      <4>1. Len(header) \in Nat
        BY <1>0 DEF IsSeq
      <4> QED BY <4>1, AlignmentAssumption, AlignUpBounds DEF Start
    <3> QED BY <3>1, <3>2, <3>3
  <2>6. written <= Len(recoded)
    BY <1>0, <2>3
  <2> QED BY <2>1, <2>2, <2>3, <2>4, <2>5, <2>6 DEF FileInv
<1>6. CASE WriteTensor
  <2>1. /\ phase = "data" /\ phase' = "data" /\ written < Len(recoded) /\ written' = written + 1
        /\ disk' = PadTo(disk \o recoded[written + 1].data, Alignment)
        /\ UNCHANGED <<loaded, recoded, header, offs, off>>
    BY <1>6 DEF WriteTensor
  <2>2. /\ Spots(offs, off, recoded) /\ Whole(loaded, recoded, offs, header)
        /\ DiskSays(disk, header, recoded, offs)
        /\ Len(disk) = Start(header) + Spot(offs, off, written + 1)
    BY <2>1 DEF FileInv
  <2>3. DiskSays(disk', header, recoded, offs) /\ Len(disk') = Start(header) + Spot(offs, off, written + 2)
    <3>1. Len(offs) = Len(recoded) /\ \A k \in 1..Len(recoded) : IsSeq(recoded[k].data)
      BY <1>0, <2>2 DEF Whole
    <3>p. PICK w \in Nat : w = written
      BY <1>0
    <3>g. PICK g : g = disk'
      OBVIOUS
    <3>2. g = disk' /\ w = written
      BY <3>p, <3>g
    <3>3. EndsAt(disk, header, recoded, offs, off, w)
      BY <1>0, <2>2, <3>1, <3>2 DEF EndsAt
    <3>4. w < Len(recoded) /\ g = PadTo(disk \o recoded[w + 1].data, Alignment)
      BY <2>1, <3>2
    <3>5. DiskSays(g, header, recoded, offs) /\ Len(g) = Start(header) + Spot(offs, off, w + 2)
      BY <3>3, <3>4, DiskMore
    <3> QED BY <3>2, <3>5
  <2>4. written' + 1 = written + 2 /\ written' <= Len(recoded)
    BY <1>0, <2>1
  <2> QED BY <2>1, <2>2, <2>3, <2>4 DEF FileInv
<1>7. CASE CloseOutput
  BY <1>7 DEF CloseOutput, FileInv
<1>8. CASE Cut
  <2>1. PICK k \in 0..Len(disk) : disk' = SubSeq(disk, 1, k)
    BY <1>8 DEF Cut
  <2>2. phase = "data" /\ phase' = "failed" /\ UNCHANGED <<loaded, recoded, header, offs, off, written>>
    BY <1>8 DEF Cut
  <2>3. /\ Spots(offs, off, recoded) /\ Whole(loaded, recoded, offs, header)
        /\ DiskSays(disk, header, recoded, offs)
    BY <2>2 DEF FileInv
  <2>4. DiskSays(disk', header, recoded, offs)
    <3>1. \A j \in 1..Len(recoded) : offs[j] \in Nat
      BY <1>0, <2>3, OffsAre DEF Whole
    <3> QED BY <1>0, <2>1, <2>3, <3>1, DiskCut
  <2> QED BY <2>2, <2>3, <2>4 DEF FileInv
<1>9. CASE Done \/ UNCHANGED vars
  BY <1>9 DEF Done, vars, FileInv
<1> QED BY <1>1, <1>2, <1>3, <1>4, <1>5, <1>6, <1>7, <1>8, <1>9 DEF Next

-----------------------------------------------------------------------------
(* The round trip.                                                           *)

\* The offsets fit in the bytes that the model keeps of a number.
OffsetsFit == \A k \in 1..Len(offs) : Fits(offs[k])

\* The input asks for the alignment the writer pads with.
SameAlignment == loaded # Refused => AlignmentOf(loaded.kvs) = Alignment

\* What is on the disk is read as what is expected, or refused because some of
\* it is missing.
LEMMA DiskBack ==
  ASSUME WriterInv, RecodeInv, OffsetsFit, SameAlignment,
         Whole(loaded, recoded, offs, header), DiskSays(disk, header, recoded, offs)
  PROVE  \/ Load(disk) = Expected
         \/ /\ Load(disk) = Refused
            /\ ~(/\ Start(header) <= Len(disk)
                 /\ \A k \in 1..Len(recoded) : Start(header) + offs[k] + Len(recoded[k].data) <= Len(disk))
<1>1. /\ loaded.ok = TRUE /\ LoadedType(loaded) /\ Len(recoded) = Len(loaded.tensors)
      /\ IsSeq(disk) /\ IsSeq(recoded) /\ Len(offs) = Len(recoded)
  BY DEF Whole, RecodeInv, WriterInv
<1>2. PICK n \in Nat : n = Len(recoded) /\ DOMAIN recoded = 1..n /\ DOMAIN loaded.tensors = 1..n
  BY <1>1 DEF IsSeq, LoadedType
<1>3. \A k \in 1..n : recoded[k] = Recoded(loaded.tensors[k])
  BY <1>2 DEF RecodeInv
<1>4. ASSUME NEW k \in 1..n PROVE Complete(recoded[k])
  <2>1. PICK t : t = loaded.tensors[k] /\ Shaped(t.name, t.dims)
    BY <1>1, <1>2 DEF LoadedType
  <2> QED BY <1>3, <2>1, RecodedComplete
<1>5. Writable(loaded.kvs, recoded, offs)
  BY <1>1, <1>2, <1>4 DEF Writable, LoadedType, OffsetsFit, SameAlignment, Whole
<1>6. Expected = [ok |-> TRUE, kvs |-> loaded.kvs, tensors |-> recoded]
  <2>1. recoded = [k \in 1..n |-> recoded[k]]
    <3>1. PICK S : recoded \in Seq(S)
      BY <1>1 DEF IsSeq
    <3> QED BY <1>2, <3>1
  <2>2. recoded = [k \in DOMAIN loaded.tensors |-> Recoded(loaded.tensors[k])]
    BY <1>2, <1>3, <2>1
  <2> QED BY <2>2 DEF Expected
<1>7. PICK s : s = AlignUp(Len(header), Alignment) /\ s = Start(header)
  BY DEF Start
<1>8. /\ HeaderSays(header, loaded.kvs, Len(recoded), recoded, offs, Len(recoded))
      /\ At(disk, 0, header) /\ \A k \in 1..Len(recoded) : At(disk, s + offs[k], recoded[k].data)
  BY <1>7 DEF Whole, DiskSays
<1>9. \/ Load(disk) = [ok |-> TRUE, kvs |-> loaded.kvs, tensors |-> recoded]
      \/ /\ Load(disk) = Refused
         /\ ~(s <= Len(disk) /\ \A k \in 1..Len(recoded) : s + offs[k] + Len(recoded[k].data) <= Len(disk))
  BY <1>1, <1>5, <1>7, <1>8, FileBack
<1> QED BY <1>6, <1>7, <1>9

\* A closed file has all of it.
LEMMA ClosedWhole ==
  ASSUME WriterInv, FileInv, phase = "closed"
  PROVE  /\ Start(header) <= Len(disk)
         /\ \A k \in 1..Len(recoded) : Start(header) + offs[k] + Len(recoded[k].data) <= Len(disk)
<1>1. /\ Spots(offs, off, recoded) /\ Len(offs) = Len(recoded)
      /\ Len(disk) = Start(header) + Spot(offs, off, Len(recoded) + 1)
  BY DEF FileInv, Whole
<1>2. PICK n \in Nat : n = Len(recoded)
  BY DEF WriterInv, IsSeq
<1>3. PICK s \in Nat, x \in Nat : s = Start(header) /\ x = Spot(offs, off, n + 1) /\ Len(disk) = s + x
  <2>1. n + 1 \in 1..(Len(offs) + 1)
    BY <1>1, <1>2
  <2>2. Spot(offs, off, n + 1) \in Nat
    BY <1>1, <2>1 DEF Spots
  <2>3. Len(header) \in Nat
    BY DEF WriterInv, IsSeq
  <2>4. Start(header) \in Nat
    BY <2>3, AlignmentAssumption, AlignUpBounds DEF Start
  <2> QED BY <1>1, <1>2, <2>2, <2>4
<1>4. ASSUME NEW k \in 1..n PROVE s + offs[k] + Len(recoded[k].data) <= s + x
  <2>1. k \in 1..Len(offs) /\ n + 1 \in (k + 1)..(Len(offs) + 1) /\ k \in 1..(Len(offs) + 1)
        /\ k + 1 \in 1..(Len(offs) + 1) /\ k <= Len(offs)
    BY <1>1, <1>2
  <2>2. PICK j \in Nat, c \in Nat : j = Spot(offs, off, k) /\ j = offs[k] /\ c = Spot(offs, off, k + 1) /\ c <= x
    <3>1. Spot(offs, off, k) \in Nat /\ Spot(offs, off, k + 1) \in Nat
          /\ Spot(offs, off, k + 1) <= Spot(offs, off, n + 1)
      BY <1>1, <2>1 DEF Spots
    <3>2. Spot(offs, off, k) = offs[k]
      BY <2>1 DEF Spot
    <3> QED BY <1>3, <3>1, <3>2
  <2>3. PICK m \in Nat : m = Len(recoded[k].data)
    BY <1>2 DEF WriterInv, TensorOut, IsSeq
  <2>4. j + m <= c
    <3>1. c = AlignUp(j + m, Alignment)
      BY <1>1, <2>1, <2>2, <2>3 DEF Spots
    <3>2. j + m \in Nat
      OBVIOUS
    <3> QED BY <3>1, <3>2, AlignmentAssumption, AlignUpBounds
  <2>5. s + j + m <= s + x
    BY <2>2, <2>4
  <2> QED BY <2>2, <2>3, <2>5
<1> QED BY <1>2, <1>3, <1>4

(***************************************************************************)
(* The round trip, for every input, every policy and every place a failure *)
(* or a crash can cut the file: a closed output loads as what it was       *)
(* written from, and a file cut short is refused unless nothing but        *)
(* padding is missing (ogguf_load against ogguf_writer_write). Offsets     *)
(* have to fit the model's numbers, and the input has to ask for the       *)
(* writer's own alignment: the run gguf_alignment shows what happens to    *)
(* one that does not.                                                      *)
(***************************************************************************)
THEOREM WriterRoundTrip ==
  Spec => [](OffsetsFit /\ SameAlignment => LoadInvertsWrite /\ CutFileRefused)
<1> DEFINE IInv == WriterInv /\ RecodeInv /\ FileInv
<1>1. Init => IInv
  BY InitWriterInv, InitRecodeInv, InitFileInv
<1>2. IInv /\ [Next]_vars => IInv'
  BY WriterStep, RecodeStep, FileStep
<1>3. IInv => (OffsetsFit /\ SameAlignment => LoadInvertsWrite /\ CutFileRefused)
  <2> SUFFICES ASSUME WriterInv, RecodeInv, FileInv, OffsetsFit, SameAlignment
               PROVE  LoadInvertsWrite /\ CutFileRefused
    OBVIOUS
  <2>1. ASSUME phase = "closed" PROVE Load(disk) = Expected
    <3>1. Whole(loaded, recoded, offs, header) /\ DiskSays(disk, header, recoded, offs)
      BY <2>1 DEF FileInv
    <3> QED BY <2>1, <3>1, DiskBack, ClosedWhole
  <2>2. ASSUME phase = "failed" PROVE ~Load(disk).ok \/ Load(disk) = Expected
    <3>1. Refused.ok = FALSE
      BY DEF Refused
    <3>2. CASE disk = <<>>
      <4>1. ~HeaderOK(disk)
        BY <3>2 DEF HeaderOK, Holds
      <4>2. Load(disk) = Refused
        BY <4>1, Zenon DEF Load
      <4> QED BY <3>1, <4>2
    <3>3. CASE Whole(loaded, recoded, offs, header) /\ DiskSays(disk, header, recoded, offs)
      BY <3>1, <3>3, DiskBack
    <3> QED BY <2>2, <3>2, <3>3 DEF FileInv
  <2> QED BY <2>1, <2>2 DEF LoadInvertsWrite, CutFileRefused
<1> QED BY <1>1, <1>2, <1>3, PTL DEF Spec

\* Its two halves: a closed output loads as what it was written from, ...
THEOREM ClosedFileLoads == Spec => [](OffsetsFit /\ SameAlignment => LoadInvertsWrite)
<1>1. (OffsetsFit /\ SameAlignment => LoadInvertsWrite /\ CutFileRefused)
        => (OffsetsFit /\ SameAlignment => LoadInvertsWrite)
  OBVIOUS
<1> QED BY <1>1, WriterRoundTrip, PTL

\* ... and one that a failure or a crash cut short is refused.
THEOREM CutFileIsRefused == Spec => [](OffsetsFit /\ SameAlignment => CutFileRefused)
<1>1. (OffsetsFit /\ SameAlignment => LoadInvertsWrite /\ CutFileRefused)
        => (OffsetsFit /\ SameAlignment => CutFileRefused)
  OBVIOUS
<1> QED BY <1>1, WriterRoundTrip, PTL

-----------------------------------------------------------------------------
(* The other reader.                                                         *)

\* The place after a string, for a reader that only seeks.
SkipOp(f, p, k) == IF Holds(f, p, 8) THEN p + 8 + Num(f, p) ELSE Bad
Skips == INSTANCE FoldFacts WITH Op <- SkipOp

\* The places that the strings of an array leave it at.
Skipped(f, b, n) == Skips!Fold(f, b, [k \in 1..n |-> k])
SkipRun(f, b, n, h) ==
  h[0] = b /\ (\A k \in 1..n : h[k] = SkipOp(f, h[k - 1], k)) /\ Skipped(f, b, n) = h[n]
LEMMA SkipsRun ==
  ASSUME NEW f, NEW b, NEW n \in Nat
  PROVE  \E h : SkipRun(f, b, n, h)
<1> DEFINE turns == [k \in 1..n |-> k]
<1>0. PICK T : T = 1..n
  OBVIOUS
<1>1. turns \in Seq(T) /\ Len(turns) = n
  BY <1>0
<1> HIDE DEF turns
<1>2. PICK h : Skips!Runs(f, b, turns, h)
  BY <1>1, Skips!FoldRuns
<1>3. /\ h[0] = b /\ \A k \in 1..n : h[k] = SkipOp(f, h[k - 1], turns[k])
      /\ Skips!Fold(f, b, turns) = h[n]
  BY <1>1, <1>2 DEF Skips!Runs
<1>4. \A k \in 1..n : h[k] = SkipOp(f, h[k - 1], k)
  BY <1>3 DEF SkipOp
<1> QED BY <1>3, <1>4 DEF turns, SkipRun, Skipped

\* A string that the loader reads is skipped.
LEMMA SkipString ==
  ASSUME NEW f \in Seq(Byte), NEW p \in Places(f), NEW k, StringEnd(f, p) # Bad
  PROVE  SkipOp(f, p, k) = StringEnd(f, p)
<1>1. p \in 0..Len(f) /\ p + 8 <= Len(f) /\ StringEnd(f, p) = p + 8 + Num(f, p)
  BY StringIs
<1>2. Holds(f, p, 8)
  BY <1>1 DEF Holds, Bad
<1> QED BY <1>1, <1>2 DEF SkipOp

\* What an array may hold for both readers to know it.
Known(elem) == elem = StringTag \/ ScalarSize(elem) # 0

\* Elements of a known size end where multiplying says.
LEMMA ScalarsEnd ==
  ASSUME NEW f \in Seq(Byte), NEW d \in 0..Len(f), NEW t \in Nat, t # StringTag, t # ArrayTag,
         NEW b \in Nat, NEW n \in Nat, NEW got, got = Elements(Nest(f)[d][t], b, n), got # Bad,
         ScalarSize(t) # 0, b <= Len(f)
  PROVE  got = b + ScalarSize(t) * n
<1>1. PICK s \in Nat : s = ScalarSize(t) /\ s # 0
  BY ScalarSizeIs
<1>2. PICK e : e = Nest(f)[d][t]
  OBVIOUS
<1>3. PICK h : h[0] = b /\ (\A k \in 1..n : h[k] = e[h[k - 1]]) /\ got = h[n]
  BY <1>2, ElementsRun
<1>4. e[Bad] = Bad /\ \A p \in Nat : e[p] = Take(f, p, s)
  <2>1. IsSeq(f)
    BY DEF IsSeq
  <2> QED BY <1>1, <1>2, <2>1, NestBad, NestScalar
<1> DEFINE I == {k \in Nat : k <= n => h[k] = Bad \/ (h[k] \in 0..Len(f) /\ h[k] = b + s * k)}
<1>5. 0 \in I
  <2>1. h[0] = b + s * 0 /\ b \in 0..Len(f)
    BY <1>3
  <2> QED BY <1>3, <2>1
<1>6. ASSUME NEW k \in Nat, k \in I PROVE k + 1 \in I
  <2> SUFFICES ASSUME k + 1 <= n
               PROVE  h[k + 1] = Bad \/ (h[k + 1] \in 0..Len(f) /\ h[k + 1] = b + s * (k + 1))
    OBVIOUS
  <2>1. k + 1 \in 1..n /\ (k + 1) - 1 = k
    OBVIOUS
  <2>2. h[k + 1] = e[h[k]]
    BY <1>3, <2>1
  <2>3. CASE h[k] = Bad
    BY <1>4, <2>2, <2>3
  <2>4. CASE h[k] \in 0..Len(f) /\ h[k] = b + s * k
    <3>1. PICK p \in Nat : p = h[k] /\ p \in 0..Len(f) /\ p \in Places(f)
      BY <2>4 DEF Places
    <3>2. h[k + 1] = Take(f, p, s)
      BY <1>4, <2>2, <3>1
    <3>3. h[k + 1] \in Places(f) /\ (h[k + 1] # Bad => h[k + 1] = p + s)
      BY <3>1, <3>2, TakeIs
    <3>4. p + s = b + s * (k + 1)
      <4>1. s * (k + 1) = s * k + s
        OBVIOUS
      <4>2. PICK m \in Nat : m = s * k
        OBVIOUS
      <4>3. p = b + m
        BY <2>4, <3>1, <4>2
      <4> QED BY <4>1, <4>2, <4>3
    <3> QED BY <3>3, <3>4 DEF Places
  <2> QED BY <1>6, <2>3, <2>4
<1>7. n \in I
  <2> HIDE DEF I
  <2> QED BY <1>5, <1>6, Skips!NatInd
<1> QED BY <1>1, <1>3, <1>7

\* Strings end where skipping them ends.
LEMMA StringsEnd ==
  ASSUME NEW f \in Seq(Byte), NEW d \in 0..Len(f), NEW b \in Nat, b <= Len(f), NEW n \in Nat,
         NEW got, got = Elements(Nest(f)[d][StringTag], b, n), got # Bad
  PROVE  got = Skipped(f, b, n)
<1>1. PICK e : e = Nest(f)[d][StringTag]
  OBVIOUS
<1>2. PICK h : h[0] = b /\ (\A k \in 1..n : h[k] = e[h[k - 1]]) /\ got = h[n]
  BY <1>1, ElementsRun
<1>s. PICK g : SkipRun(f, b, n, g)
  BY SkipsRun
<1>3. g[0] = b /\ (\A k \in 1..n : g[k] = SkipOp(f, g[k - 1], k)) /\ Skipped(f, b, n) = g[n]
  BY <1>s DEF SkipRun
<1>4. e[Bad] = Bad /\ \A p \in Nat : e[p] = StringEnd(f, p)
  <2>1. IsSeq(f) /\ StringTag \in Nat
    BY DEF IsSeq, StringTag
  <2> QED BY <1>1, <2>1, NestBad, NestString
<1> DEFINE I == {k \in Nat : k <= n => h[k] = Bad \/ (h[k] \in 0..Len(f) /\ h[k] = g[k])}
<1>5. 0 \in I
  BY <1>2, <1>3
<1>6. ASSUME NEW k \in Nat, k \in I PROVE k + 1 \in I
  <2> SUFFICES ASSUME k + 1 <= n
               PROVE  h[k + 1] = Bad \/ (h[k + 1] \in 0..Len(f) /\ h[k + 1] = g[k + 1])
    OBVIOUS
  <2>1. k + 1 \in 1..n /\ (k + 1) - 1 = k
    OBVIOUS
  <2>2. h[k + 1] = e[h[k]] /\ g[k + 1] = SkipOp(f, g[k], k + 1)
    BY <1>2, <1>3, <2>1
  <2>3. CASE h[k] = Bad
    BY <1>4, <2>2, <2>3
  <2>4. CASE h[k] \in 0..Len(f) /\ h[k] = g[k]
    <3>1. PICK p \in Nat : p = h[k] /\ p = g[k] /\ p \in Places(f)
      BY <2>4 DEF Places
    <3>2. h[k + 1] = StringEnd(f, p) /\ g[k + 1] = SkipOp(f, p, k + 1)
      BY <1>4, <2>2, <3>1
    <3>3. StringEnd(f, p) \in Places(f)
      BY <3>1, StringIs
    <3>4. StringEnd(f, p) # Bad => SkipOp(f, p, k + 1) = StringEnd(f, p)
      BY <3>1, SkipString
    <3> QED BY <3>2, <3>3, <3>4 DEF Places
  <2> QED BY <1>6, <2>3, <2>4
<1>7. n \in I
  <2> HIDE DEF I
  <2> QED BY <1>5, <1>6, Skips!NatInd
<1> QED BY <1>2, <1>3, <1>7

\* A value that the loader reads is skipped by the inspector, if it knows the
\* elements of an array.
LEMMA SkipAgrees ==
  ASSUME NEW f \in Seq(Byte), NEW tag \in Nat, NEW p \in 0..Len(f), LoadEnd(f, tag, p) # Bad,
         tag = ArrayTag => Known(Num(f, p))
  PROVE  SkipEnd(f, tag, p) = LoadEnd(f, tag, p)
<1>1. PICK d \in Nat : d = Len(f)
  OBVIOUS
<1>2. IsSeq(f) /\ d \in 0..Len(f) /\ p \in Nat /\ p \in Places(f) /\ p # Bad
  BY <1>1 DEF IsSeq, Places, Bad
<1>3. PICK end : end = LoadEnd(f, tag, p) /\ end = Nest(f)[d][tag][p] /\ end # Bad
  BY <1>1, LoadEndIs
<1>4. CASE tag = StringTag
  <2>1. end = StringEnd(f, p)
    BY <1>2, <1>3, <1>4, NestString
  <2>2. SkipOp(f, p, 0) = end
    BY <1>2, <1>3, <2>1, SkipString
  <2>3. SkipEnd(f, tag, p) = SkipOp(f, p, 0)
    <3>1. tag # ArrayTag
      BY <1>4 DEF StringTag, ArrayTag
    <3> QED BY <1>4, <3>1, Zenon DEF SkipEnd, SkipOp
  <2> QED BY <1>3, <2>2, <2>3
<1>5. CASE tag # StringTag /\ tag # ArrayTag
  <2>1. end = IF ScalarSize(tag) = 0 THEN Bad ELSE Take(f, p, ScalarSize(tag))
    BY <1>2, <1>3, <1>5, NestScalar
  <2>2. SkipEnd(f, tag, p) = IF ScalarSize(tag) = 0 THEN Bad ELSE p + ScalarSize(tag)
    BY <1>5 DEF SkipEnd
  <2>3. ScalarSize(tag) # 0 /\ end = p + ScalarSize(tag)
    BY <1>2, <1>3, <2>1, ScalarSizeIs, TakeIs
  <2> QED BY <1>3, <2>2, <2>3
<1>6. CASE tag = ArrayTag
  <2>1. d # 0 /\ Holds(f, p, 12)
    BY <1>2, <1>3, <1>6, NestNoArray
  <2>2. p + 12 <= Len(f)
    BY <2>1 DEF Holds
  <2>3. PICK et \in Nat : et = Num(f, p)
    <3>1. p + 3 <= Len(f)
      BY <1>2, <2>2
    <3> QED BY <1>2, <3>1, NumIs
  <2>4. PICK n \in Nat : n = Num(f, p + 4)
    <3>1. p + 4 \in Nat /\ (p + 4) + 3 <= Len(f)
      BY <1>2, <2>2
    <3> QED BY <3>1, NumIs
  <2>5. PICK b \in Nat : b = p + 12 /\ b <= Len(f)
    BY <1>2, <2>2
  <2>6. PICK c \in 0..Len(f) : c = d - 1
    BY <1>1, <2>1
  <2>7. end = Elements(Nest(f)[c][et], b, n)
    BY <1>2, <1>3, <1>6, <2>1, <2>3, <2>4, <2>5, <2>6, NestArray
  <2>8. Known(et)
    BY <1>6, <2>3
  <2>9. ArrayTag # StringTag /\ ScalarSize(ArrayTag) = 0
    BY DEF ArrayTag, StringTag, ScalarSize
  <2>10. CASE et = StringTag
    <3>1. end = Skipped(f, b, n)
      BY <1>3, <2>5, <2>6, <2>7, <2>10, StringsEnd
    <3>2. SkipEnd(f, tag, p) =
            FoldLeft(LAMBDA q, k : IF Holds(f, q, 8) THEN q + 8 + Num(f, q) ELSE Bad, b,
                     [k \in 1..n |-> k])
      BY <1>6, <2>1, <2>3, <2>4, <2>5, <2>9, <2>10, Zenon DEF SkipEnd
    <3>3. SkipEnd(f, tag, p) = Skipped(f, b, n)
      BY <3>2, Zenon DEF Skipped, FoldLeft, MapThenFoldSet, Skips!Fold, Skips!FoldLeft,
               Skips!MapThenFoldSet, SkipOp, Max, Skips!Max
    <3> QED BY <1>3, <3>1, <3>3
  <2>11. CASE et # StringTag
    <3>1. ScalarSize(et) # 0 /\ et # ArrayTag
      BY <2>8, <2>9, <2>11 DEF Known
    <3>2. end = b + ScalarSize(et) * n
      BY <1>3, <2>5, <2>6, <2>7, <2>11, <3>1, ScalarsEnd
    <3>3. SkipEnd(f, tag, p) = p + 12 + ScalarSize(et) * n
      BY <1>6, <2>1, <2>3, <2>4, <2>9, <2>11, <3>1, Zenon DEF SkipEnd
    <3> QED BY <1>3, <2>5, <3>2, <3>3
  <2> QED BY <2>10, <2>11
<1> QED BY <1>4, <1>5, <1>6

\* g is the l bytes of f after p.
PartOf(g, f, p, l) == g \in Seq(Byte) /\ Len(g) = l /\ \A i \in 1..l : g[i] = f[p + i]
LEMMA PartIsOf ==
  ASSUME NEW f \in Seq(Byte), NEW p \in Nat, NEW end \in Nat, p <= end, end <= Len(f),
         NEW l, l = end - p
  PROVE  PartOf(SubSeq(f, p + 1, end), f, p, l)
<1>0. PICK g : g = SubSeq(f, p + 1, end)
  OBVIOUS
<1>1. p + 1 \in 1..(Len(f) + 1) /\ end \in ((p + 1) - 1)..Len(f)
  OBVIOUS
<1>2. /\ g \in Seq(Byte) /\ Len(g) = end - (p + 1) + 1
      /\ \A i \in 1..(end - (p + 1) + 1) : g[i] = f[(p + 1) + i - 1]
  BY <1>0, <1>1, SubSeqProperties
<1>3. PICK n \in Nat : n = l /\ n = end - (p + 1) + 1
  OBVIOUS
<1>4. ASSUME NEW i \in 1..n PROVE g[i] = f[p + i]
  <2>1. (p + 1) + i - 1 = p + i
    OBVIOUS
  <2> QED BY <1>2, <1>3, <2>1
<1> QED BY <1>0, <1>2, <1>3, <1>4 DEF PartOf

\* A number in a part of a file.
LEMMA PartNum ==
  ASSUME NEW g, NEW f, NEW p \in Nat, NEW l \in Nat, PartOf(g, f, p, l), 3 <= l
  PROVE  Num(g, 0) = Num(f, p)
<1>1. PICK z \in Nat : z = 0
  OBVIOUS
<1>2. ASSUME NEW i \in {1, 2, 3} PROVE g[z + i] = f[p + i]
  <2>1. i \in 1..l /\ z + i = i
    BY <1>1
  <2> QED BY <2>1 DEF PartOf
<1>3. Num(g, z) = Num(f, p)
  BY <1>2 DEF Num
<1> QED BY <1>1, <1>3

\* A string in a part of a file.
LEMMA PartString ==
  ASSUME NEW f \in Seq(Byte), NEW p \in Nat, NEW end \in Nat, NEW l, l = end - p,
         NEW g, PartOf(g, f, p, l), StringEnd(f, p) = end
  PROVE  StringAt(g, 0) = StringAt(f, p)
<1>1. PICK m \in Nat : m = Len(f)
  OBVIOUS
<1>2. PICK n \in Nat : /\ n = Num(f, p) /\ end = p + 8 + n /\ end <= m
                       /\ StringAt(f, p) \in Seq(Byte) /\ Len(StringAt(f, p)) = n
  <2>1. end # Bad
    BY DEF Bad
  <2>2. p \in Places(f)
    <3>1. CASE p <= m
      BY <1>1, <3>1 DEF Places
    <3>2. CASE ~(p <= m)
      <4>1. ~Holds(f, p, 8)
        BY <1>1, <3>2 DEF Holds
      <4> QED BY <2>1, <4>1 DEF StringEnd
    <3> QED BY <3>1, <3>2
  <2>3. end \in Places(f)
    BY <2>2, StringIs
  <2>4. end <= m
    BY <1>1, <2>1, <2>3 DEF Places
  <2> QED BY <2>1, <2>2, <2>4, StringIs
<1>3. l \in Nat /\ l = 8 + n
  BY <1>2
<1>4. g \in Seq(Byte) /\ Len(g) = l /\ \A i \in 1..l : g[i] = f[p + i]
  BY DEF PartOf
<1>5. PICK s : s = StringAt(f, p) /\ s = SubSeq(f, p + 9, p + 8 + n)
  BY <1>2 DEF StringAt
<1>6. PICK t : t = StringAt(g, 0) /\ t = SubSeq(g, 9, 8 + n)
  <2>1. Num(g, 0) = n
    BY <1>2, <1>3, PartNum
  <2>2. 0 + 9 = 9 /\ 0 + 8 + n = 8 + n
    OBVIOUS
  <2>3. StringAt(g, 0) = SubSeq(g, 0 + 9, 0 + 8 + n)
    BY <2>1 DEF StringAt
  <2> QED BY <2>2, <2>3
<1>7. s \in Seq(Byte) /\ Len(s) = n /\ \A i \in 1..n : s[i] = f[p + 8 + i]
  <2>1. p + 9 \in 1..(m + 1) /\ p + 8 + n \in ((p + 9) - 1)..m
    BY <1>1, <1>2
  <2>2. \A i \in 1..((p + 8 + n) - (p + 9) + 1) : s[i] = f[(p + 9) + i - 1]
    BY <1>1, <1>5, <2>1, SubSeqProperties
  <2>3. (p + 8 + n) - (p + 9) + 1 = n
    OBVIOUS
  <2>4. ASSUME NEW i \in 1..n PROVE s[i] = f[p + 8 + i]
    <3>1. (p + 9) + i - 1 = p + 8 + i
      OBVIOUS
    <3> QED BY <2>2, <2>3, <3>1
  <2> QED BY <1>2, <1>5, <2>4
<1>8. t \in Seq(Byte) /\ Len(t) = n /\ \A i \in 1..n : t[i] = g[8 + i]
  <2>1. PICK a \in Nat, b \in Nat : a = 9 /\ b = 8 + n
    OBVIOUS
  <2>2. a \in 1..(Len(g) + 1) /\ b \in (a - 1)..Len(g) /\ g \in Seq(Byte)
    BY <1>3, <1>4, <2>1
  <2>3. t \in Seq(Byte) /\ Len(t) = b - a + 1 /\ \A i \in 1..(b - a + 1) : t[i] = g[a + i - 1]
    <3>1. t = SubSeq(g, a, b)
      BY <1>6, <2>1
    <3> QED BY <2>2, <3>1, SubSeqProperties
  <2>4. b - a + 1 = n
    BY <2>1
  <2>5. ASSUME NEW i \in 1..n PROVE t[i] = g[8 + i]
    <3>1. a + i - 1 = 8 + i
      BY <2>1
    <3> QED BY <2>3, <2>4, <3>1
  <2> QED BY <2>3, <2>4, <2>5
<1>9. \A i \in 1..n : s[i] = t[i]
  <2> SUFFICES ASSUME NEW i \in 1..n PROVE s[i] = t[i]
    OBVIOUS
  <2>1. 8 + i \in 1..l /\ p + (8 + i) = p + 8 + i
    BY <1>3
  <2> QED BY <1>4, <1>7, <1>8, <2>1
<1>10. s = t
  BY <1>7, <1>8, <1>9
<1> QED BY <1>5, <1>6, <1>10

\* Metadata that both readers take: the architecture is a string, and an array's
\* elements are of a type the inspector knows.
Common(kv) ==
  /\ kv.key = ArchKey => kv.tag = StringTag
  /\ kv.tag = ArrayTag => Known(Num(kv.payload, 0))

\* What the inspector keeps of it.
Kept(kv) == IF kv.key = ArchKey THEN <<StringAt(kv.payload, 0)>> ELSE <<>>
KvKept(r, got) == got.at = r.at /\ got.item = Kept(r.item)

\* The two read a key with its value alike.
LEMMA KvAgrees ==
  ASSUME NEW f \in Seq(Byte), NEW at \in Places(f), NEW r, r = LoadKv(f, at), r.at # Bad,
         Common(r.item)
  PROVE  KvKept(r, OpenKv(f, at))
<1>1. PICK tagAt : tagAt = StringEnd(f, at)
  OBVIOUS
<1>2. PICK end : end = IF Holds(f, tagAt, 4) THEN LoadEnd(f, Num(f, tagAt), tagAt + 4) ELSE Bad
  OBVIOUS
<1>3. r = IF end = Bad
          THEN [at |-> Bad]
          ELSE [at |-> end,
                item |-> [key |-> StringAt(f, at), tag |-> Num(f, tagAt),
                          payload |-> SubSeq(f, tagAt + 5, end)]]
  BY <1>1, <1>2 DEF LoadKv
<1>4. end # Bad /\ Holds(f, tagAt, 4) /\ tagAt \in Places(f)
  BY <1>1, <1>2, <1>3, StringIs
<1>5. tagAt \in Nat /\ tagAt + 4 <= Len(f) /\ Len(f) \in Nat
  BY <1>4 DEF Holds, Places, Bad
<1>6. PICK tag \in Nat : tag = Num(f, tagAt)
  <2>1. tagAt + 3 <= Len(f)
    BY <1>5
  <2> QED BY <1>5, <2>1, NumIs
<1>7. PICK p \in Nat : p = tagAt + 4 /\ p \in 0..Len(f) /\ p \in Places(f) /\ p + 1 = tagAt + 5
  BY <1>5 DEF Places
<1>8. end = LoadEnd(f, tag, p)
  BY <1>2, <1>4, <1>6, <1>7
<1>9. PICK g : g = SubSeq(f, p + 1, end)
  OBVIOUS
<1>11. PICK key : key = StringAt(f, at)
  OBVIOUS
<1>12. r.at = end /\ r.item = [key |-> key, tag |-> tag, payload |-> g]
  BY <1>3, <1>4, <1>6, <1>7, <1>9, <1>11
<1>10. g \in Seq(Byte) /\ LoadEnd(g, tag, 0) = Len(g)
  <2>1. r.item \in KvType
    BY KvIs DEF KvRead
  <2>2. r.item.payload = g /\ r.item.tag = tag
    BY <1>12
  <2> QED BY <2>1, <2>2 DEF KvType, KvGood
<1>13. (key = ArchKey => tag = StringTag) /\ (tag = ArrayTag => Known(Num(g, 0)))
  BY <1>12 DEF Common
<1>14. end \in Nat /\ p <= end /\ end <= Len(f)
  <2>1. Copied(f, p, <<>>, 0, end - p)
    BY DEF Copied
  <2>2. IsSeq(<<>>) /\ 0 \in Nat
    BY DEF IsSeq
  <2>3. end - p \in Nat
    <3>1. PICK n : n = end - p
      OBVIOUS
    <3> QED BY <1>4, <1>7, <1>8, <2>1, <2>2, <3>1, ValueCopied
  <2>4. end \in Places(f)
    BY <1>7, <1>8, ValueIs
  <2> QED BY <1>4, <1>7, <2>3, <2>4 DEF Places
<1>l. PICK l \in Nat : l = end - p /\ PartOf(g, f, p, l)
  <2>1. PICK l \in Nat : l = end - p
    BY <1>14
  <2>2. PartOf(SubSeq(f, p + 1, end), f, p, l)
    BY <1>14, <2>1, PartIsOf
  <2> QED BY <1>9, <2>1, <2>2
<1>15. tag = ArrayTag => Known(Num(f, p))
  <2> SUFFICES ASSUME tag = ArrayTag PROVE Num(g, 0) = Num(f, p)
    BY <1>13
  <2>1. PICK m \in Nat : m = Len(g)
    BY <1>10
  <2>2. IsSeq(g) /\ m \in 0..Len(g) /\ 0 \in Nat /\ m # Bad
    BY <1>10, <2>1 DEF IsSeq, Bad
  <2>3. Nest(g)[m][ArrayTag][0] = m
    BY <1>10, <2>1, LoadEndIs
  <2>4. Holds(g, 0, 12)
    BY <2>2, <2>3, NestNoArray
  <2>5. 12 <= m
    BY <2>1, <2>4 DEF Holds
  <2>6. m = l
    BY <1>l, <2>1 DEF PartOf
  <2>7. 3 <= l
    BY <2>5, <2>6
  <2> QED BY <1>l, <2>7, PartNum
<1>16. SkipEnd(f, tag, p) = end
  BY <1>4, <1>7, <1>8, <1>15, SkipAgrees
<1>17. key = ArchKey => StringEnd(f, p) = end /\ StringAt(f, p) = StringAt(g, 0)
  <2> SUFFICES ASSUME key = ArchKey PROVE StringEnd(f, p) = end /\ StringAt(f, p) = StringAt(g, 0)
    OBVIOUS
  <2>1. tag = StringTag
    BY <1>13
  <2>2. PICK d : d = Len(f) /\ d \in 0..Len(f)
    BY <1>5
  <2>3. IsSeq(f)
    BY DEF IsSeq
  <2>4. StringEnd(f, p) = end
    <3>1. end = Nest(f)[d][StringTag][p]
      BY <1>8, <2>1, <2>2, LoadEndIs
    <3> QED BY <2>2, <2>3, <3>1, NestString
  <2> QED BY <1>14, <1>l, <2>4, PartString
<1>18. CASE key # ArchKey
  <2>1. OpenKv(f, at) = [at |-> end, item |-> <<>>]
    BY <1>1, <1>4, <1>6, <1>7, <1>11, <1>16, <1>18, Zenon DEF OpenKv
  <2> QED BY <1>12, <1>18, <2>1 DEF KvKept, Kept
<1>19. CASE key = ArchKey
  <2>1. tag = StringTag
    BY <1>13, <1>19
  <2>2. OpenKv(f, at) = [at |-> end, item |-> <<StringAt(f, p)>>]
    BY <1>1, <1>4, <1>6, <1>7, <1>11, <1>17, <1>19, <2>1, Zenon DEF OpenKv
  <2> QED BY <1>12, <1>17, <1>19, <2>2 DEF KvKept, Kept
<1> QED BY <1>18, <1>19

\* The inspector's table of the metadata, as a fold.
OpenOp(f, acc, k) ==
  IF acc.at = Bad THEN acc
  ELSE LET r == OpenKv(f, acc.at)
       IN IF r.at = Bad THEN [at |-> Bad, items |-> <<>>]
          ELSE [at |-> r.at, items |-> Append(acc.items, r.item)]
OpenRows == INSTANCE FoldFacts WITH Op <- OpenOp

\* The inspector's turns over the metadata.
OpenTurned(f, h, r, at, n) ==
  Turns(h, r, at, n) /\ (\A k \in 1..n : r[k] = OpenKv(f, h[k - 1].at)) /\ Table(OpenKv, f, at, n) = h[n]
LEMMA OpenTurns ==
  ASSUME NEW f, NEW at, NEW n \in Nat
  PROVE  \E h, r : OpenTurned(f, h, r, at, n)
<1> DEFINE start == [at |-> at, items |-> <<>>]
           turns == [k \in 1..n |-> k]
<1>1. Table(OpenKv, f, at, n) = OpenRows!Fold(f, start, turns)
  BY Zenon DEF Table, FoldLeft, MapThenFoldSet, OpenRows!Fold, OpenRows!FoldLeft,
               OpenRows!MapThenFoldSet, OpenOp, Max, OpenRows!Max
<1>2. PICK T : T = 1..n
  OBVIOUS
<1>3. turns \in Seq(T) /\ Len(turns) = n
  BY <1>2
<1> HIDE DEF turns, start
<1>r. PICK h : OpenRows!Runs(f, start, turns, h)
  BY <1>3, OpenRows!FoldRuns
<1>4. /\ h[0] = start /\ \A k \in 1..n : h[k] = OpenOp(f, h[k - 1], turns[k])
      /\ OpenRows!Fold(f, start, turns) = h[n]
  BY <1>3, <1>r DEF OpenRows!Runs
<1> DEFINE r == [k \in 1..n |-> OpenKv(f, h[k - 1].at)]
<1>5. ASSUME NEW k \in 1..n PROVE h[k] = Row(h[k - 1], r[k])
  <2>1. PICK x : x = h[k - 1]
    OBVIOUS
  <2>2. h[k] = OpenOp(f, x, turns[k]) /\ r[k] = OpenKv(f, x.at)
    BY <1>3, <1>4, <2>1
  <2> QED BY <2>1, <2>2 DEF OpenOp, Row, Nothing
<1>6. \A k \in 1..n : r[k] = OpenKv(f, h[k - 1].at)
  OBVIOUS
<1> HIDE DEF r
<1>7. OpenTurned(f, h, r, at, n)
  BY <1>1, <1>3, <1>4, <1>5, <1>6 DEF Turns, start, OpenTurned
<1> QED BY <1>7

\* What the inspector's table has of the loader's: the same place, and of each
\* entry what is kept.
Same(mine, theirs) ==
  /\ theirs.at = mine.at /\ Len(theirs.items) = Len(mine.items) /\ IsSeq(theirs.items)
  /\ \A j \in 1..Len(mine.items) : theirs.items[j] = Kept(mine.items[j])
AllCommon(items) == \A j \in 1..Len(items) : Common(items[j])

\* One row more.
LEMMA SameMore ==
  ASSUME NEW x, x.at # Bad, IsSeq(x.items), NEW x2, Same(x, x2),
         NEW r, r.at # Bad, NEW r2, KvKept(r, r2)
  PROVE  Same(Row(x, r), Row(x2, r2))
<1>1. Row(x, r) = [at |-> r.at, items |-> Append(x.items, r.item)]
  BY DEF Row
<1>2. x2.at # Bad /\ r2.at = r.at /\ r2.item = Kept(r.item) /\ r2.at # Bad
  BY DEF Same, KvKept
<1>3. Row(x2, r2) = [at |-> r2.at, items |-> Append(x2.items, r2.item)]
  BY <1>2 DEF Row
<1>4. PICK a, b, e, e2 : a = x.items /\ b = x2.items /\ e = r.item /\ e2 = r2.item
  OBVIOUS
<1>5. PICK n \in Nat : n = Len(a) /\ n = Len(b) /\ IsSeq(a) /\ IsSeq(b) /\ \A j \in 1..n : b[j] = Kept(a[j])
  BY <1>4 DEF Same, IsSeq
<1>6. PICK c, d : c = Append(a, e) /\ d = Append(b, e2)
  OBVIOUS
<1>a. IsSeq(a) /\ Len(a) = n /\ IsSeq(b) /\ Len(b) = n
  BY <1>5
<1>c. Len(c) = n + 1 /\ c[n + 1] = e /\ \A k \in 1..n : c[k] = a[k]
  BY <1>6, <1>a, AppendIs
<1>d. IsSeq(d) /\ Len(d) = n + 1 /\ d[n + 1] = e2 /\ \A k \in 1..n : d[k] = b[k]
  BY <1>6, <1>a, AppendIs
<1>7. /\ IsSeq(d) /\ Len(c) = n + 1 /\ Len(d) = n + 1 /\ c[n + 1] = e /\ d[n + 1] = e2
      /\ (\A k \in 1..n : c[k] = a[k]) /\ (\A k \in 1..n : d[k] = b[k])
  BY <1>c, <1>d
<1>8. ASSUME NEW j \in 1..(n + 1) PROVE d[j] = Kept(c[j])
  <2>1. CASE j = n + 1
    BY <1>2, <1>4, <1>7, <2>1
  <2>2. CASE j \in 1..n
    BY <1>5, <1>7, <2>2
  <2> QED BY <2>1, <2>2
<1> QED BY <1>1, <1>2, <1>3, <1>4, <1>6, <1>7, <1>8 DEF Same

\* A table of common entries was one before its last row.
LEMMA CommonBefore ==
  ASSUME NEW s, IsSeq(s), NEW e, AllCommon(Append(s, e))
  PROVE  AllCommon(s) /\ Common(e)
<1>1. PICK n \in Nat : n = Len(s)
  BY DEF IsSeq
<1>2. PICK c : c = Append(s, e)
  OBVIOUS
<1>3. Len(c) = n + 1 /\ c[n + 1] = e /\ \A k \in 1..n : c[k] = s[k]
  BY <1>1, <1>2, AppendIs
<1>4. \A j \in 1..(n + 1) : Common(c[j])
  BY <1>2, <1>3 DEF AllCommon
<1>5. Common(e)
  <2>1. n + 1 \in 1..(n + 1)
    OBVIOUS
  <2> QED BY <1>3, <1>4, <2>1
<1>6. ASSUME NEW j \in 1..n PROVE Common(s[j])
  <2>1. j \in 1..(n + 1)
    OBVIOUS
  <2> QED BY <1>3, <1>4, <2>1
<1> QED BY <1>1, <1>5, <1>6 DEF AllCommon

\* The metadata is read alike.
LEMMA KvTablesAgree ==
  ASSUME NEW f \in Seq(Byte), NEW at \in Places(f), NEW n \in Nat, NEW mine,
         mine = Table(LoadKv, f, at, n), mine.at # Bad, AllCommon(mine.items)
  PROVE  Same(mine, Table(OpenKv, f, at, n))
<1>1. PICK h, r : KvTurned(f, h, r, at, n)
  BY KvTurns
<1>2. PICK h2, r2 : OpenTurned(f, h2, r2, at, n)
  BY OpenTurns
<1>3. /\ h[0] = [at |-> at, items |-> <<>>] /\ h2[0] = [at |-> at, items |-> <<>>]
      /\ \A k \in 1..n : h[k] = Row(h[k - 1], r[k]) /\ r[k] = LoadKv(f, h[k - 1].at)
      /\ \A k \in 1..n : h2[k] = Row(h2[k - 1], r2[k]) /\ r2[k] = OpenKv(f, h2[k - 1].at)
      /\ mine = h[n] /\ Table(OpenKv, f, at, n) = h2[n]
  BY <1>1, <1>2 DEF KvTurned, OpenTurned, Turns
<1> DEFINE Good(x, x2) == x.at = Bad \/ (/\ x.at \in Places(f) /\ IsSeq(x.items)
                                         /\ AllCommon(x.items) => Same(x, x2))
           I == {k \in Nat : k <= n => Good(h[k], h2[k])}
<1>4. 0 \in I
  <2>1. PICK e : e = [at |-> at, items |-> <<>>]
    OBVIOUS
  <2>2. IsSeq(<<>>) /\ Len(<<>>) = 0
    BY DEF IsSeq
  <2>3. Same(e, e) /\ e.at \in Places(f) /\ IsSeq(e.items)
    BY <2>1, <2>2 DEF Same
  <2>4. Good(h[0], h2[0])
    BY <1>3, <2>1, <2>3
  <2> HIDE DEF Good
  <2> QED BY <2>4
<1>5. ASSUME NEW k \in Nat, k \in I PROVE k + 1 \in I
  <2> SUFFICES ASSUME k + 1 <= n PROVE Good(h[k + 1], h2[k + 1])
    <3> HIDE DEF Good
    <3> QED OBVIOUS
  <2>1. k + 1 \in 1..n /\ (k + 1) - 1 = k
    OBVIOUS
  <2>2. PICK x, x2, y, y2 : x = h[k] /\ x2 = h2[k] /\ y = r[k + 1] /\ y2 = r2[k + 1]
    OBVIOUS
  <2>3. /\ h[k + 1] = Row(x, y) /\ y = LoadKv(f, x.at)
        /\ h2[k + 1] = Row(x2, y2) /\ y2 = OpenKv(f, x2.at)
    BY <1>3, <2>1, <2>2
  <2>4. Good(x, x2)
    <3> HIDE DEF Good
    <3> QED BY <1>5, <2>2
  <2>5. CASE x.at = Bad
    <3>1. Row(x, y) = x
      BY <2>5 DEF Row
    <3> QED BY <2>3, <2>5, <3>1
  <2>6. CASE x.at # Bad /\ y.at = Bad
    <3>1. Row(x, y) = Nothing /\ Nothing.at = Bad
      BY <2>6 DEF Row, Nothing
    <3> QED BY <2>3, <3>1
  <2>7. CASE x.at # Bad /\ y.at # Bad
    <3>1. x.at \in Places(f) /\ IsSeq(x.items) /\ (AllCommon(x.items) => Same(x, x2))
      BY <2>4, <2>7
    <3>2. Row(x, y) = [at |-> y.at, items |-> Append(x.items, y.item)]
      BY <2>7 DEF Row
    <3>3. y.at \in Places(f)
      BY <2>3, <3>1, KvIs DEF KvRead
    <3>4. IsSeq(Append(x.items, y.item))
      BY <3>1, AppendIs
    <3>5. ASSUME AllCommon(Append(x.items, y.item)) PROVE Same(Row(x, y), Row(x2, y2))
      <4>1. AllCommon(x.items) /\ Common(y.item)
        BY <3>1, <3>5, CommonBefore
      <4>2. Same(x, x2) /\ x2.at = x.at
        BY <3>1, <4>1 DEF Same
      <4>3. KvKept(y, y2)
        BY <2>3, <2>7, <3>1, <4>1, <4>2, KvAgrees
      <4> QED BY <2>7, <3>1, <4>2, <4>3, SameMore
    <3> QED BY <2>3, <3>2, <3>3, <3>4, <3>5
  <2> QED BY <2>5, <2>6, <2>7
<1>6. n \in I
  <2> HIDE DEF I
  <2> QED BY <1>4, <1>5, OpenRows!NatInd
<1>7. Good(h[n], h2[n])
  <2> HIDE DEF Good
  <2> QED BY <1>6
<1> QED BY <1>3, <1>7

\* The architecture that the loader's metadata names is the one kept.
ArchAt(kvs) == SelectLastInSeq(kvs, LAMBDA kv : kv.key = ArchKey /\ kv.tag = StringTag)
ValueAt(values) == SelectLastInSeq(values, LAMBDA v : v # <<>>)
LEMMA ArchAgrees ==
  ASSUME NEW kvs, NEW values, Len(values) = Len(kvs), Len(kvs) \in Nat, AllCommon(kvs),
         \A j \in 1..Len(kvs) : values[j] = Kept(kvs[j])
  PROVE  /\ ValueAt(values) = ArchAt(kvs)
         /\ ArchAt(kvs) # 0 => values[ArchAt(kvs)][1] = StringAt(kvs[ArchAt(kvs)].payload, 0)
<1>1. PICK n \in Nat : n = Len(kvs) /\ n = Len(values)
  OBVIOUS
<1>2. PICK A : A = {i \in 1..n : kvs[i].key = ArchKey /\ kvs[i].tag = StringTag}
  OBVIOUS
<1>3. PICK V : V = {i \in 1..n : values[i] # <<>>}
  OBVIOUS
<1>4. ASSUME NEW i \in 1..n PROVE kvs[i].key = ArchKey /\ kvs[i].tag = StringTag <=> values[i] # <<>>
  <2>1. Common(kvs[i]) /\ values[i] = Kept(kvs[i])
    BY <1>1 DEF AllCommon
  <2>2. kvs[i].key = ArchKey => kvs[i].tag = StringTag
    BY <2>1 DEF Common
  <2>3. \A s : <<s>> # <<>>
    OBVIOUS
  <2> QED BY <2>1, <2>2, <2>3 DEF Kept
<1>5. A = V
  BY <1>2, <1>3, <1>4
<1>6. ArchAt(kvs) = IF A # {} THEN Max(A) ELSE 0
  BY <1>1, <1>2 DEF ArchAt, SelectLastInSeq
<1>7. ValueAt(values) = IF V # {} THEN Max(V) ELSE 0
  BY <1>1, <1>3 DEF ValueAt, SelectLastInSeq
<1>8. ASSUME ArchAt(kvs) # 0
      PROVE  values[ArchAt(kvs)][1] = StringAt(kvs[ArchAt(kvs)].payload, 0)
  <2>1. PICK m : m = ArchAt(kvs)
    OBVIOUS
  <2>2. A # {} /\ m = Max(A) /\ A \in SUBSET (1..n)
    BY <1>2, <1>6, <1>8, <2>1
  <2>3. m \in A
    <3>1. OpenRows!Max(A) \in A
      BY <2>2, OpenRows!MaxIn
    <3> QED BY <2>2, <3>1 DEF Max, OpenRows!Max
  <2>4. m \in 1..n /\ kvs[m].key = ArchKey
    BY <1>2, <2>3
  <2>5. values[m] = <<StringAt(kvs[m].payload, 0)>>
    BY <1>1, <2>4 DEF Kept
  <2> QED BY <2>1, <2>5
<1> QED BY <1>5, <1>6, <1>7, <1>8

\* The elements of a type, as the inspector counts them and as the loader's
\* tensors have them.
SeenOp(type, sum, t) == sum + IF t.type = type THEN t.elements ELSE 0
Seen == INSTANCE FoldFacts WITH Op <- SeenOp
FoundOp(type, sum, t) == sum + IF t.type = type THEN ProductOf(t.dims) ELSE 0
Found == INSTANCE FoldFacts WITH Op <- FoundOp

LoadedElements(type, tensors) ==
  FoldLeft(LAMBDA sum, t : sum + IF t.type = type THEN ProductOf(t.dims) ELSE 0, 0, tensors)

\* The loader's tensors, of the index's.
Matching(index, tensors) ==
  /\ IsSeq(tensors) /\ Len(tensors) = Len(index)
  /\ \A k \in 1..Len(index) : /\ tensors[k].name = index[k].name /\ tensors[k].dims = index[k].dims
                              /\ tensors[k].type = index[k].type

\* The two sums are equal.
LEMMA SharesAgree ==
  ASSUME NEW index \in Seq(TensorType), NEW tensors, Matching(index, tensors), NEW type
  PROVE  ElementsOf(index, type) = LoadedElements(type, tensors)
<1>1. ElementsOf(index, type) = Seen!Fold(type, 0, index)
  BY Zenon DEF ElementsOf, FoldLeft, MapThenFoldSet, Seen!Fold, Seen!FoldLeft,
               Seen!MapThenFoldSet, SeenOp, Max, Seen!Max
<1>2. LoadedElements(type, tensors) = Found!Fold(type, 0, tensors)
  BY Zenon DEF LoadedElements, FoldLeft, MapThenFoldSet, Found!Fold, Found!FoldLeft,
               Found!MapThenFoldSet, FoundOp, Max, Found!Max
<1>3. PICK n \in Nat : n = Len(index) /\ n = Len(tensors)
  BY DEF Matching
<1>4. PICK S : tensors \in Seq(S)
  BY DEF Matching, IsSeq
<1>5. PICK h : Seen!Runs(type, 0, index, h)
  BY Seen!FoldRuns
<1>6. PICK g : Found!Runs(type, 0, tensors, g)
  BY <1>4, Found!FoldRuns
<1>7. /\ h[0] = 0 /\ \A k \in 1..n : h[k] = SeenOp(type, h[k - 1], index[k])
      /\ Seen!Fold(type, 0, index) = h[n]
  BY <1>3, <1>5 DEF Seen!Runs
<1>8. /\ g[0] = 0 /\ \A k \in 1..n : g[k] = FoundOp(type, g[k - 1], tensors[k])
      /\ Found!Fold(type, 0, tensors) = g[n]
  BY <1>3, <1>6 DEF Found!Runs
<1>9. ASSUME NEW k \in 1..n, NEW x PROVE SeenOp(type, x, index[k]) = FoundOp(type, x, tensors[k])
  <2>0. k \in 1..Len(index)
    BY <1>3
  <2>1. PICK t : t = index[k] /\ t \in TensorType
    BY <2>0
  <2>2. t.elements = ProductOf(t.dims)
    BY <2>1 DEF TensorType
  <2>3. tensors[k].type = t.type /\ tensors[k].dims = t.dims
    BY <1>3, <2>1 DEF Matching
  <2> QED BY <2>1, <2>2, <2>3 DEF SeenOp, FoundOp
<1> DEFINE I == {k \in Nat : k <= n => h[k] = g[k]}
<1>10. 0 \in I
  BY <1>7, <1>8
<1>11. ASSUME NEW k \in Nat, k \in I PROVE k + 1 \in I
  <2> SUFFICES ASSUME k + 1 <= n PROVE h[k + 1] = g[k + 1]
    OBVIOUS
  <2>1. k + 1 \in 1..n /\ (k + 1) - 1 = k
    OBVIOUS
  <2>2. PICK j \in 1..n : j = k + 1 /\ j - 1 = k
    BY <2>1
  <2>3. h[j] = SeenOp(type, h[k], index[j]) /\ g[j] = FoundOp(type, g[k], tensors[j])
    BY <1>7, <1>8, <2>2
  <2>4. h[k] = g[k]
    BY <1>11, <2>1
  <2> QED BY <1>9, <2>2, <2>3, <2>4
<1>12. n \in I
  <2> HIDE DEF I
  <2> QED BY <1>10, <1>11, Seen!NatInd
<1> QED BY <1>1, <1>2, <1>7, <1>8, <1>12

\* What the inspector says of a file that loads.
Agrees(seen, got) ==
  /\ seen.ok
  /\ [k \in DOMAIN seen.index |-> <<seen.index[k].name, seen.index[k].dims>>]
       = [k \in DOMAIN got.tensors |-> <<got.tensors[k].name, got.tensors[k].dims>>]
  /\ DOMAIN seen.share = {t.type : t \in ToSet(got.tensors)}
  /\ \A type \in DOMAIN seen.share : seen.share[type] = LoadedElements(type, got.tensors)
  /\ ArchAt(got.kvs) # 0 => seen.arch = StringAt(got.kvs[ArchAt(got.kvs)].payload, 0)

\* What each makes of a file whose tables are good.
Summed(values, index) ==
  [ok |-> TRUE, arch |-> IF ValueAt(values) = 0 THEN <<>> ELSE values[ValueAt(values)][1],
   index |-> index, share |-> [type \in {t.type : t \in ToSet(index)} |-> ElementsOf(index, type)],
   experts |-> Cardinality({k \in DOMAIN index :
                 NameHas(index[k].name) \intersect {"ffn_gate_exps", "ffn_up_exps", "ffn_down_exps"} # {}})]

LEMMA OpenIs ==
  ASSUME NEW f, HeaderOK(f), NEW kvs, kvs = Table(OpenKv, f, 24, Num(f, 16)), kvs.at # Bad,
         NEW index, index = Table(IndexRecord, f, kvs.at, Num(f, 8)), index.at # Bad
  PROVE  Open(f) = Summed(kvs.items, index.items)
BY Zenon DEF Open, Summed, ValueAt

\* The loader's tables, and the tensors that lie in the file.
LEMMA LoadedIs ==
  ASSUME NEW f \in Seq(Byte), Load(f).ok
  PROVE  \E kvs, index :
           /\ HeaderOK(f) /\ kvs = Table(LoadKv, f, 24, Num(f, 16)) /\ kvs.at # Bad
           /\ index = Table(IndexRecord, f, kvs.at, Num(f, 8)) /\ index.at # Bad
           /\ Load(f).kvs = kvs.items /\ Matching(index.items, Load(f).tensors)
           /\ index.items \in Seq(TensorType) /\ kvs.items \in Seq(KvType)
           /\ 24 \in Places(f) /\ Num(f, 16) \in Nat /\ Num(f, 8) \in Nat
<1>1. Refused.ok = FALSE
  BY DEF Refused
<1>2. HeaderOK(f)
  <2>1. ~HeaderOK(f) => Load(f) = Refused
    BY Zenon DEF Load
  <2> QED BY <1>1, <2>1
<1> DEFINE kvs == Table(LoadKv, f, 24, Num(f, 16))
           index == Table(IndexRecord, f, kvs.at, Num(f, 8))
           start == AlignUp(index.at, AlignmentOf(kvs.items))
           byte(k) == IF k <= Len(f) THEN f[k] ELSE 0
           data(t) == [b \in 1..RowBytes(t.type, t.elements) |-> byte(start + t.offset + b)]
           tensors == [k \in DOMAIN index.items |->
                         [name |-> index.items[k].name, dims |-> index.items[k].dims,
                          type |-> index.items[k].type, data |-> data(index.items[k])]]
<1>3. \/ Load(f) = Refused
      \/ kvs.at # Bad /\ index.at # Bad
         /\ Load(f) = [ok |-> TRUE, kvs |-> kvs.items, tensors |-> tensors]
  BY <1>2, Zenon DEF Load
<1> HIDE DEF tensors
<1>4. kvs.at # Bad /\ index.at # Bad /\ Load(f).kvs = kvs.items /\ Load(f).tensors = tensors
  BY <1>1, <1>3
<1>5. Len(f) \in Nat /\ 24 <= Len(f) /\ 24 \in Places(f)
  BY <1>2 DEF HeaderOK, Holds, Places
<1>6. Num(f, 16) \in Nat /\ Num(f, 8) \in Nat
  BY <1>5, NumIs
<1>k. TableOf(Places(f), KvType, Num(f, 16), kvs)
  BY <1>5, <1>6, KvTableIs
<1>7. kvs.at \in Places(f) /\ kvs.items \in Seq(KvType)
  <2> HIDE DEF kvs
  <2> QED BY <1>k DEF TableOf
<1>i. TableOf(Places(f), TensorType, Num(f, 8), index)
  BY <1>6, <1>7, IndexTableIs
<1>8. PICK items \in Seq(TensorType) : items = index.items
  <2> HIDE DEF index
  <2> QED BY <1>i DEF TableOf
<1>9. DOMAIN items = 1..Len(items) /\ Len(items) \in Nat
  OBVIOUS
<1>10. Matching(index.items, tensors)
  <2> HIDE DEF kvs, index, data
  <2>1. tensors = [k \in 1..Len(items) |-> tensors[k]]
    BY <1>8, <1>9 DEF tensors
  <2>2. \A k \in 1..Len(items) : /\ tensors[k].name = items[k].name /\ tensors[k].dims = items[k].dims
                                 /\ tensors[k].type = items[k].type
    BY <1>8, <1>9 DEF tensors
  <2>3. IsSeq(tensors) /\ Len(tensors) = Len(items)
    BY <1>9, <2>1, BuiltIs
  <2> QED BY <1>8, <2>2, <2>3 DEF Matching
<1>11. PICK a, b : a = kvs /\ b = index
  OBVIOUS
<1>12. /\ a = Table(LoadKv, f, 24, Num(f, 16)) /\ b = Table(IndexRecord, f, a.at, Num(f, 8))
       /\ a.at # Bad /\ b.at # Bad /\ a.items \in Seq(KvType) /\ b.items \in Seq(TensorType)
       /\ Load(f).kvs = a.items /\ Matching(b.items, Load(f).tensors)
  BY <1>4, <1>7, <1>8, <1>10, <1>11
<1> HIDE DEF kvs, index
<1> QED BY <1>2, <1>5, <1>6, <1>12, Zenon

\* The two readers agree on every file that loads and whose metadata both take.
THEOREM ReadersAgree ==
  ASSUME NEW f \in Seq(Byte), Load(f).ok, AllCommon(Load(f).kvs)
  PROVE  Agrees(Open(f), Load(f))
<1>1. PICK kvs, index :
           /\ HeaderOK(f) /\ kvs = Table(LoadKv, f, 24, Num(f, 16)) /\ kvs.at # Bad
           /\ index = Table(IndexRecord, f, kvs.at, Num(f, 8)) /\ index.at # Bad
           /\ Load(f).kvs = kvs.items /\ Matching(index.items, Load(f).tensors)
           /\ index.items \in Seq(TensorType) /\ kvs.items \in Seq(KvType)
           /\ 24 \in Places(f) /\ Num(f, 16) \in Nat /\ Num(f, 8) \in Nat
  BY LoadedIs
<1>2. PICK theirs : theirs = Table(OpenKv, f, 24, Num(f, 16))
  OBVIOUS
<1>3. Same(kvs, theirs)
  <2>1. AllCommon(kvs.items)
    BY <1>1
  <2> QED BY <1>1, <1>2, <2>1, KvTablesAgree
<1>4. theirs.at = kvs.at /\ theirs.at # Bad
  BY <1>1, <1>3 DEF Same
<1>5. PICK v, s, ts, ks : v = theirs.items /\ s = index.items /\ ts = Load(f).tensors /\ ks = kvs.items
  OBVIOUS
<1>6. Open(f) = Summed(v, s)
  BY <1>1, <1>2, <1>4, <1>5, OpenIs
<1>7. /\ s \in Seq(TensorType) /\ Matching(s, ts) /\ IsSeq(ts) /\ Load(f).kvs = ks /\ AllCommon(ks)
      /\ Len(v) = Len(ks) /\ Len(ks) \in Nat /\ \A j \in 1..Len(ks) : v[j] = Kept(ks[j])
  BY <1>1, <1>3, <1>5 DEF Same, Matching
<1>8. PICK n \in Nat : /\ n = Len(s) /\ DOMAIN s = 1..n /\ DOMAIN ts = 1..n
                       /\ \A k \in 1..n : ts[k].name = s[k].name /\ ts[k].dims = s[k].dims /\ ts[k].type = s[k].type
  BY <1>7 DEF Matching, IsSeq
<1>9. [k \in DOMAIN s |-> <<s[k].name, s[k].dims>>] = [k \in DOMAIN ts |-> <<ts[k].name, ts[k].dims>>]
  BY <1>8
<1>10. {t.type : t \in ToSet(s)} = {t.type : t \in ToSet(ts)}
  <2>1. ToSet(s) = {s[k] : k \in 1..n} /\ ToSet(ts) = {ts[k] : k \in 1..n}
    BY <1>8 DEF ToSet
  <2> QED BY <1>8, <2>1
<1>11. \A type : ElementsOf(s, type) = LoadedElements(type, ts)
  BY <1>7, SharesAgree
<1>12. ValueAt(v) = ArchAt(ks) /\ (ArchAt(ks) # 0 => v[ArchAt(ks)][1] = StringAt(ks[ArchAt(ks)].payload, 0))
  BY <1>7, ArchAgrees
<1>13. PICK seen : seen = Open(f)
  OBVIOUS
<1>14. /\ seen.ok = TRUE /\ seen.index = s /\ seen.arch = (IF ValueAt(v) = 0 THEN <<>> ELSE v[ValueAt(v)][1])
       /\ seen.share = [type \in {t.type : t \in ToSet(s)} |-> ElementsOf(s, type)]
  BY <1>6, <1>13 DEF Summed
<1>15. /\ DOMAIN seen.share = {t.type : t \in ToSet(ts)}
       /\ \A type \in DOMAIN seen.share : seen.share[type] = LoadedElements(type, ts)
  BY <1>10, <1>11, <1>14
<1>16. ArchAt(ks) # 0 => seen.arch = StringAt(ks[ArchAt(ks)].payload, 0)
  BY <1>12, <1>14
<1> QED BY <1>5, <1>7, <1>9, <1>13, <1>14, <1>15, <1>16, Zenon DEF Agrees

-----------------------------------------------------------------------------
(* Everything in a file is a byte.                                           *)

\* Numbers, strings and their concatenations.
LEMMA LeIs == ASSUME NEW v \in Nat, NEW w \in Nat PROVE Le(v, w) \in Seq(Byte)
<1>1. ASSUME NEW k \in 1..w PROVE Le(v, w)[k] \in Byte
  <2>1. v % 256 \in Byte /\ (v \div 256) % 256 \in Byte /\ (v \div 65536) % 256 \in Byte /\ 0 \in Byte
    BY DEF Byte
  <2> QED BY <2>1 DEF Le
<1>2. PICK s : s = Le(v, w)
  OBVIOUS
<1>3. s = [k \in 1..w |-> s[k]] /\ \A k \in 1..w : s[k] \in Byte
  BY <1>1, <1>2 DEF Le
<1>4. s \in [1..w -> Byte]
  BY <1>3
<1>5. PICK B : B = Byte
  OBVIOUS
<1>6. s \in Seq(B)
  BY <1>4, <1>5
<1> QED BY <1>2, <1>5, <1>6

\* Bytes after bytes.
LEMMA Joined == ASSUME NEW s \in Seq(Byte), NEW t \in Seq(Byte) PROVE s \o t \in Seq(Byte)
<1>1. PICK B : B = Byte
  OBVIOUS
<1>2. s \in Seq(B) /\ t \in Seq(B)
  BY <1>1
<1>3. s \o t \in Seq(B)
  BY <1>2
<1> QED BY <1>1, <1>3

\* A string with its length.
LEMMA StrBytes == ASSUME NEW s \in Seq(Byte) PROVE Str(s) \in Seq(Byte)
<1>1. Len(s) \in Nat
  OBVIOUS
<1>2. U64(Len(s)) \in Seq(Byte)
  BY <1>1, LeIs DEF U64
<1> QED BY <1>2, Joined DEF Str

\* Bytes flattened are bytes.
LEMMA FlatBytes ==
  ASSUME NEW ss \in Seq(Seq(Byte))
  PROVE  FlattenSeq(ss) \in Seq(Byte)
<1> DEFINE n == Len(ss)
           r == Flats!Rec(ss, 1, n)
<1>1. n \in Nat
  OBVIOUS
<1>2. FlattenSeq(ss) = IF n = 0 THEN ss ELSE r[n]
  BY DEF FlattenSeq, Flats!Rec, FlatOp
<1>3. \A i \in 1..n : r[i] = FlatOp(ss, r[i - 1], i)
  <2>1. \A x, y : FlatOp(ss, x, 1) = FlatOp(ss, y, 1)
    BY DEF FlatOp
  <2>2. 1 \in Int /\ n \in Int
    BY <1>1
  <2> HIDE DEF n
  <2> QED BY <2>1, <2>2, Flats!RecAt
<1> HIDE DEF r
<1>e. \A k \in 1..n : ss[k] \in Seq(Byte)
  <2>1. PICK Q : Q = Seq(Byte)
    OBVIOUS
  <2>2. ss \in Seq(Q)
    BY <2>1
  <2>3. \A k \in 1..n : ss[k] \in Q
    BY <2>2
  <2> QED BY <2>1, <2>3
<1> DEFINE I == {m \in Nat : m \in 1..n => r[m] \in Seq(Byte)}
<1>4. 0 \in I
  OBVIOUS
<1>5. ASSUME NEW m \in Nat, m \in I PROVE m + 1 \in I
  <2>1. CASE m + 1 \notin 1..n
    BY <2>1
  <2>2. CASE m + 1 \in 1..n /\ m = 0
    <3>1. r[m + 1] = ss[1] /\ 1 \in 1..n
      BY <1>3, <2>2 DEF FlatOp
    <3> QED BY <1>e, <3>1
  <2>3. CASE m + 1 \in 1..n /\ m # 0
    <3>1. m \in 1..n /\ r[m] \in Seq(Byte) /\ ss[m + 1] \in Seq(Byte)
      BY <1>1, <1>5, <1>e, <2>3
    <3>2. r[m + 1] = r[m] \o ss[m + 1]
      <4>1. m + 1 # 1 /\ (m + 1) - 1 = m
        BY <2>3
      <4>2. r[m + 1] = FlatOp(ss, r[m], m + 1)
        BY <1>3, <2>3, <4>1
      <4> QED BY <4>1, <4>2 DEF FlatOp
    <3>3. r[m + 1] \in Seq(Byte)
      BY <3>1, <3>2, Joined
    <3> QED BY <3>3
  <2> QED BY <2>1, <2>2, <2>3
<1>6. n \in I
  <2> HIDE DEF I, n
  <2> QED BY <1>1, <1>4, <1>5, Flats!NatInd
<1>7. CASE n = 0
  <2>1. ss = <<>>
    BY <1>7
  <2> QED BY <1>2, <1>7, <2>1
<1>8. CASE n # 0
  <2>1. n \in 1..n
    BY <1>1, <1>8
  <2> QED BY <1>2, <1>6, <1>8, <2>1
<1> QED BY <1>7, <1>8

\* A function from 1..n to bytes, or to sequences of them, is a sequence of those.
LEMMA MadeOf ==
  ASSUME NEW S, NEW n \in Nat, NEW s, s = [k \in 1..n |-> s[k]], \A k \in 1..n : s[k] \in S
  PROVE  s \in Seq(S)
<1>1. s \in [1..n -> S]
  OBVIOUS
<1> QED BY <1>1

\* The header, ...
LEMMA HeaderBytesAre ==
  ASSUME NEW kvs \in Seq(KvType), NEW n \in Nat
  PROVE  HeaderBytes(kvs, n) \in Seq(Byte)
<1>1. Magic \in Seq(Byte)
  BY BytesAssumption DEF Byte
<1>2. PICK m \in Nat : m = Len(kvs) /\ DOMAIN kvs = 1..m
  OBVIOUS
<1>3. PICK rows : rows = [k \in 1..m |-> KvBytes(kvs[k])]
  OBVIOUS
<1>4. ASSUME NEW k \in 1..m PROVE rows[k] \in Seq(Byte)
  <2>1. PICK kv : kv = kvs[k] /\ kv \in KvType
    BY <1>2
  <2>2. kv.key \in Seq(Byte) /\ kv.tag \in Nat /\ kv.payload \in Seq(Byte)
    BY <2>1 DEF KvType
  <2>3. Str(kv.key) \in Seq(Byte) /\ U32(kv.tag) \in Seq(Byte)
    BY <2>2, StrBytes, LeIs DEF U32
  <2>4. Str(kv.key) \o U32(kv.tag) \in Seq(Byte)
    BY <2>3, Joined
  <2>5. (Str(kv.key) \o U32(kv.tag)) \o kv.payload \in Seq(Byte)
    BY <2>2, <2>4, Joined
  <2>6. rows[k] = (Str(kv.key) \o U32(kv.tag)) \o kv.payload
    BY <1>3, <2>1 DEF KvBytes
  <2> QED BY <2>5, <2>6
<1>5. rows = [k \in 1..m |-> rows[k]]
  BY <1>3
<1>6. rows \in Seq(Seq(Byte))
  BY <1>4, <1>5, MadeOf
<1>7. PICK a, b, c, d : a = U32(Version) /\ b = U64(n) /\ c = U64(m) /\ d = FlattenSeq(rows)
  OBVIOUS
<1>8. Version \in Nat
  BY DEF Version
<1>9. a \in Seq(Byte) /\ b \in Seq(Byte) /\ c \in Seq(Byte) /\ d \in Seq(Byte)
  <2>1. a \in Seq(Byte)
    BY <1>7, <1>8, LeIs DEF U32
  <2>2. b \in Seq(Byte) /\ c \in Seq(Byte)
    BY <1>7, LeIs DEF U64
  <2>3. d \in Seq(Byte)
    BY <1>6, <1>7, FlatBytes
  <2> QED BY <2>1, <2>2, <2>3
<1>10. Magic \o a \in Seq(Byte)
  BY <1>1, <1>9, Joined
<1>11. (Magic \o a) \o b \in Seq(Byte)
  BY <1>9, <1>10, Joined
<1>12. ((Magic \o a) \o b) \o c \in Seq(Byte)
  BY <1>9, <1>11, Joined
<1>13. (((Magic \o a) \o b) \o c) \o d \in Seq(Byte)
  BY <1>9, <1>12, Joined
<1>14. HeaderBytes(kvs, n) = (((Magic \o a) \o b) \o c) \o d
  BY <1>2, <1>3, <1>7 DEF HeaderBytes
<1> QED BY <1>13, <1>14

\* ... a record of the index, ...
LEMMA IndexBytesBytes ==
  ASSUME NEW t, t.name \in Seq(Byte), t.dims \in Seq(Nat), t.type \in Nat, NEW o \in Nat
  PROVE  IndexBytes(t, o) \in Seq(Byte)
<1>1. PICK dims \in Seq(Nat) : dims = t.dims
  OBVIOUS
<1>2. PICK m \in Nat : m = Len(dims) /\ DOMAIN dims = 1..m
  OBVIOUS
<1>3. PICK rows : rows = [k \in 1..m |-> U64(dims[k])]
  OBVIOUS
<1>4. ASSUME NEW k \in 1..m PROVE rows[k] \in Seq(Byte)
  <2>1. dims[k] \in Nat
    BY <1>2
  <2>2. U64(dims[k]) \in Seq(Byte)
    BY <2>1, LeIs DEF U64
  <2> QED BY <1>3, <2>2
<1>5. rows = [k \in 1..m |-> rows[k]]
  BY <1>3
<1>6. rows \in Seq(Seq(Byte))
  BY <1>4, <1>5, MadeOf
<1>7. PICK a, b, c, d, e : /\ a = Str(t.name) /\ b = U32(m) /\ c = FlattenSeq(rows)
                           /\ d = U32(t.type) /\ e = U64(o)
  OBVIOUS
<1>8. a \in Seq(Byte) /\ b \in Seq(Byte) /\ c \in Seq(Byte) /\ d \in Seq(Byte) /\ e \in Seq(Byte)
  <2>1. a \in Seq(Byte)
    BY <1>7, StrBytes
  <2>2. b \in Seq(Byte) /\ d \in Seq(Byte)
    BY <1>7, LeIs DEF U32
  <2>3. c \in Seq(Byte)
    BY <1>6, <1>7, FlatBytes
  <2>4. e \in Seq(Byte)
    BY <1>7, LeIs DEF U64
  <2> QED BY <2>1, <2>2, <2>3, <2>4
<1>9. a \o b \in Seq(Byte)
  BY <1>8, Joined
<1>10. (a \o b) \o c \in Seq(Byte)
  BY <1>8, <1>9, Joined
<1>11. ((a \o b) \o c) \o d \in Seq(Byte)
  BY <1>8, <1>10, Joined
<1>12. (((a \o b) \o c) \o d) \o e \in Seq(Byte)
  BY <1>8, <1>11, Joined
<1>13. IndexBytes(t, o) = (((a \o b) \o c) \o d) \o e
  BY <1>1, <1>2, <1>3, <1>7 DEF IndexBytes
<1> QED BY <1>12, <1>13

\* ... and the padding.
LEMMA PadBytes == ASSUME NEW f \in Seq(Byte) PROVE PadTo(f, Alignment) \in Seq(Byte)
<1>1. Len(f) \in Nat
  OBVIOUS
<1>2. PICK n \in Nat : n = AlignUp(Len(f), Alignment) - Len(f)
  <2>1. AlignUp(Len(f), Alignment) \in Nat /\ AlignUp(Len(f), Alignment) >= Len(f)
    BY <1>1, AlignmentAssumption, AlignUpBounds
  <2> QED BY <1>1, <2>1
<1>3. PICK pad : pad = [k \in 1..n |-> 0]
  OBVIOUS
<1>4. pad = [k \in 1..n |-> pad[k]] /\ \A k \in 1..n : pad[k] \in Byte
  BY <1>3 DEF Byte
<1>5. pad \in Seq(Byte)
  BY <1>4, MadeOf
<1>6. PadTo(f, Alignment) = f \o pad
  BY <1>2, <1>3 DEF PadTo
<1> QED BY <1>5, <1>6, Joined

\* Data stretched is bytes, if there is data to stretch.
LEMMA StretchIs ==
  ASSUME NEW data \in Seq(Byte), NEW size \in Nat, size # 0 => Len(data) # 0
  PROVE  Stretch(data, size) \in Seq(Byte)
<1>1. PICK l \in Nat : l = Len(data)
  OBVIOUS
<1>2. PICK s : s = Stretch(data, size)
  OBVIOUS
<1>3. s = [k \in 1..size |-> s[k]]
  BY <1>2 DEF Stretch
<1>4. ASSUME NEW k \in 1..size PROVE s[k] \in Byte
  <2>1. size \in Nat \ {0} /\ l # 0 /\ k - 1 \in Nat /\ k - 1 <= size - 1
    BY <1>1
  <2>2. PICK x \in Nat : x = (k - 1) * l
    BY <2>1
  <2>3. PICK q : q = x \div size
    OBVIOUS
  <2>4. q \in Nat /\ size * q <= x
    BY <2>1, <2>2, <2>3, QuotientBounds
  <2>5. q < l
    <3> SUFFICES ASSUME q >= l PROVE FALSE
      BY <2>4
    <3>1. (k - 1) * l < size * l
      <4>1. PICK a \in Nat : a = k - 1 /\ a < size
        BY <2>1
      <4>2. a * l < size * l
        BY <2>1, <4>1
      <4> QED BY <4>1, <4>2
    <3>2. size * l <= size * q
      BY <2>1, <2>4
    <3>3. size * l \in Nat /\ size * q \in Nat
      BY <2>4
    <3> QED BY <2>2, <2>4, <3>1, <3>2, <3>3
  <2>6. q + 1 \in 1..Len(data)
    BY <1>1, <2>4, <2>5
  <2>7. data[q + 1] \in Byte
    BY <2>6
  <2>8. s[k] = data[q + 1]
    BY <1>1, <1>2, <2>2, <2>3 DEF Stretch
  <2> QED BY <2>7, <2>8
<1> QED BY <1>2, <1>3, <1>4, MadeOf

\* No elements, no bytes.
LEMMA RowBytesZero == \A type : RowBytes(type, 0) = 0
<1> SUFFICES ASSUME NEW type PROVE RowBytes(type, 0) = 0
  OBVIOUS
<1>1. PICK e \in Nat, b \in Nat : e = BlockElems(type) /\ b = BlockBytes(type)
  BY DEF BlockElems, BlockBytes
<1>2. RowBytes(type, 0) = IF e = 0 \/ 0 % e # 0 THEN 0 ELSE (0 \div e) * b
  BY <1>1 DEF RowBytes
<1>3. e # 0 => 0 \div e = 0
  OBVIOUS
<1> QED BY <1>2, <1>3

\* A tensor's data: bytes, and some of them if it has elements.
DataGood(t) == t.data \in Seq(Byte) /\ (ProductOf(t.dims) # 0 => Len(t.data) # 0)

\* Recoding keeps it.
LEMMA RecodedData ==
  ASSUME NEW t, t.dims \in Seq(Nat), DataGood(t)
  PROVE  Recoded(t).data \in Seq(Byte) /\ Recoded(t).type \in Nat
<1>1. PICK n \in Nat : n = ProductOf(t.dims)
  BY ProductIs
<1>2. PICK target : target = TargetType(NameHas(t.name), Base, n)
  OBVIOUS
<1>3. PICK size \in Nat : size = RowBytes(target, n)
  BY <1>1, RowBytesIs
<1>4. Recoded(t) = [name |-> t.name, dims |-> t.dims, type |-> target, data |-> Stretch(t.data, size)]
  BY <1>1, <1>2, <1>3 DEF Recoded
<1>5. Fits(target)
  BY <1>2, TargetIs
<1>6. size # 0 => Len(t.data) # 0
  BY <1>1, <1>3, RowBytesZero DEF DataGood
<1>7. Stretch(t.data, size) \in Seq(Byte)
  BY <1>6, StretchIs DEF DataGood
<1> QED BY <1>4, <1>5, <1>7 DEF Fits

-----------------------------------------------------------------------------
(* What the loader takes out of a file is bytes.                             *)

\* The alignment a file asks for is a number above 0: its value has four bytes.
LEMMA AlignmentIs ==
  ASSUME NEW kvs \in Seq(KvType)
  PROVE  AlignmentOf(kvs) \in Nat \ {0}
<1> DEFINE asked == {k \in DOMAIN kvs : /\ kvs[k].key = AlignmentKey /\ kvs[k].tag = UInt32
                                        /\ Num(kvs[k].payload, 0) # 0}
<1>1. CASE asked = {}
  BY <1>1, AlignmentAssumption DEF AlignmentOf
<1>2. CASE asked # {}
  <2>1. PICK n \in Nat : n = Len(kvs) /\ DOMAIN kvs = 1..n
    OBVIOUS
  <2>2. \E k \in asked : \A j \in asked : j <= k
    <3>1. asked \subseteq 1..n
      BY <2>1
    <3>2. PICK A : A = asked /\ A \in SUBSET (1..n) /\ A # {}
      BY <1>2, <3>1
    <3>3. Flats!Max(A) \in A /\ \A x \in A : x <= Flats!Max(A)
      BY <3>2, Flats!MaxIn
    <3> HIDE DEF asked
    <3> QED BY <3>2, <3>3
  <2>3. PICK c : c = (CHOOSE k \in asked : \A j \in asked : j <= k)
    OBVIOUS
  <2>4. c \in asked
    <3> HIDE DEF asked
    <3> QED BY <2>2, <2>3
  <2>5. AlignmentOf(kvs) = Num(kvs[c].payload, 0)
    BY <1>2, <2>3 DEF AlignmentOf
  <2>6. PICK kv : kv = kvs[c] /\ kv \in KvType /\ kv.tag = UInt32 /\ Num(kv.payload, 0) # 0
    BY <2>1, <2>4
  <2>7. PICK p : p = kv.payload /\ p \in Seq(Byte) /\ LoadEnd(p, UInt32, 0) = Len(p)
    BY <2>6 DEF KvType, KvGood
  <2>8. IsSeq(p) /\ Len(p) \in 0..Len(p) /\ Len(p) \in Nat
    BY <2>7 DEF IsSeq
  <2>9. Nest(p)[Len(p)][UInt32][0] = Take(p, 0, 4)
    <3>1. UInt32 \in Nat /\ UInt32 # StringTag /\ UInt32 # ArrayTag
      BY DEF UInt32, StringTag, ArrayTag
    <3>2. ScalarSize(UInt32) = 4
      BY DEF UInt32, ScalarSize
    <3>3. PICK d, z \in Nat : d = Len(p) /\ z = 0
      BY <2>8
    <3>4. Nest(p)[d][UInt32][z] = IF ScalarSize(UInt32) = 0 THEN Bad ELSE Take(p, z, ScalarSize(UInt32))
      BY <2>8, <3>1, <3>3, NestScalar
    <3> QED BY <3>2, <3>3, <3>4
  <2>10. Take(p, 0, 4) = Len(p)
    BY <2>7, <2>9, LoadEndIs
  <2>11. Len(p) = 4
    BY <2>8, <2>10 DEF Take, Holds, Bad
  <2>12. PICK z \in Nat : z = 0
    OBVIOUS
  <2>13. Num(p, z) \in Nat
    <3>1. z + 3 <= Len(p)
      BY <2>11, <2>12
    <3> QED BY <2>7, <3>1, NumIs
  <2> QED BY <2>5, <2>6, <2>7, <2>12, <2>13
<1> QED BY <1>1, <1>2

\* A loaded tensor's data is bytes of the file.
LEMMA LoadedData ==
  ASSUME NEW f \in Seq(Byte), Load(f).ok
  PROVE  \A k \in 1..Len(Load(f).tensors) : DataGood(Load(f).tensors[k])
<1>1. Refused.ok = FALSE
  BY DEF Refused
<1>2. HeaderOK(f)
  <2>1. ~HeaderOK(f) => Load(f) = Refused
    BY Zenon DEF Load
  <2> QED BY <1>1, <2>1
<1> DEFINE kvs == Table(LoadKv, f, 24, Num(f, 16))
           index == Table(IndexRecord, f, kvs.at, Num(f, 8))
           start == AlignUp(index.at, AlignmentOf(kvs.items))
           byte(k) == IF k <= Len(f) THEN f[k] ELSE 0
           data(t) == [b \in 1..RowBytes(t.type, t.elements) |-> byte(start + t.offset + b)]
           tensors == [k \in DOMAIN index.items |->
                         [name |-> index.items[k].name, dims |-> index.items[k].dims,
                          type |-> index.items[k].type, data |-> data(index.items[k])]]
<1>3. \/ Load(f) = Refused
      \/ /\ kvs.at # Bad /\ index.at # Bad
         /\ Load(f) = [ok |-> TRUE, kvs |-> kvs.items, tensors |-> tensors]
         /\ ~(start > Len(f) \/ \E k \in DOMAIN index.items : ~TensorFits(f, start, index.items[k]))
  BY <1>2, Zenon DEF Load
<1> HIDE DEF tensors
<1>4. /\ kvs.at # Bad /\ index.at # Bad /\ Load(f).tensors = tensors
      /\ ~(start > Len(f) \/ \E k \in DOMAIN index.items : ~TensorFits(f, start, index.items[k]))
  BY <1>1, <1>3
<1>5. Len(f) \in Nat /\ 24 <= Len(f) /\ 24 \in Places(f)
  BY <1>2 DEF HeaderOK, Holds, Places
<1>6. Num(f, 16) \in Nat /\ Num(f, 8) \in Nat
  BY <1>5, NumIs
<1>k. TableOf(Places(f), KvType, Num(f, 16), kvs)
  BY <1>5, <1>6, KvTableIs
<1>7. kvs.at \in Places(f) /\ kvs.items \in Seq(KvType)
  <2> HIDE DEF kvs
  <2> QED BY <1>k DEF TableOf
<1>i. TableOf(Places(f), TensorType, Num(f, 8), index)
  BY <1>6, <1>7, IndexTableIs
<1>8. PICK items \in Seq(TensorType) : items = index.items
  <2> HIDE DEF index
  <2> QED BY <1>i DEF TableOf
<1>9. DOMAIN items = 1..Len(items) /\ Len(items) \in Nat
  OBVIOUS
<1>10. index.at \in Nat
  <2> HIDE DEF kvs, index
  <2> QED BY <1>4, <1>5, <1>i DEF TableOf, Places
<1>11. start \in Nat
  <2>1. PICK a \in Nat \ {0}, x \in Nat : a = AlignmentOf(kvs.items) /\ x = index.at
    <3> HIDE DEF kvs, index
    <3> QED BY <1>7, <1>10, AlignmentIs
  <2> QED BY <2>1, AlignUpBounds
<1>12. PICK s \in Nat : s = start
  BY <1>11
<1>13. ASSUME NEW k \in 1..Len(items) PROVE DataGood(tensors[k])
  <2>1. PICK t \in TensorType : t = items[k]
    OBVIOUS
  <2>2. t.elements = ProductOf(t.dims) /\ t.elements \in Nat /\ t.offset \in Nat
    BY DEF TensorType
  <2>3. TensorFits(f, s, t)
    <3> HIDE DEF kvs, index, start
    <3> QED BY <1>4, <1>8, <1>9, <1>12, <2>1
  <2>4. PICK size \in Nat : size = RowBytes(t.type, t.elements)
    BY <2>2, RowBytesIs
  <2>5. t.elements # 0 => size # 0
    BY <2>3, <2>4 DEF TensorFits
  <2>6. PICK d : d = data(t)
    OBVIOUS
  <2>7. PICK o \in Nat : o = t.offset
    BY <2>2
  <2>8. d = [b \in 1..size |-> IF s + o + b <= Len(f) THEN f[s + o + b] ELSE 0]
    <3> HIDE DEF kvs, index, start
    <3> QED BY <1>12, <2>4, <2>6, <2>7
  <2>9. \A b \in 1..size : d[b] \in Byte
    <3> SUFFICES ASSUME NEW b \in 1..size PROVE d[b] \in Byte
      OBVIOUS
    <3>1. PICK p \in Nat : p = s + o + b /\ p >= 1
      OBVIOUS
    <3>2. d[b] = IF p <= Len(f) THEN f[p] ELSE 0
      BY <2>8, <3>1
    <3>3. p <= Len(f) => p \in 1..Len(f)
      BY <1>5, <3>1
    <3>4. p <= Len(f) => f[p] \in Byte
      BY <3>3
    <3> QED BY <3>2, <3>4 DEF Byte
  <2>10. d = [b \in 1..size |-> d[b]]
    BY <2>8
  <2>11. d \in Seq(Byte)
    BY <2>9, <2>10, MadeOf
  <2>12. Len(d) = size
    BY <2>8
  <2>13. tensors[k].dims = t.dims /\ tensors[k].data = d
    <3> HIDE DEF kvs, index, data
    <3> QED BY <1>8, <1>9, <2>1, <2>6 DEF tensors
  <2> QED BY <2>2, <2>5, <2>11, <2>12, <2>13 DEF DataGood
<1>14. Len(tensors) = Len(items)
  <2> HIDE DEF kvs, index, data
  <2>1. tensors = [k \in 1..Len(items) |-> tensors[k]]
    BY <1>8, <1>9 DEF tensors
  <2> QED BY <1>9, <2>1, BuiltIs
<1> QED BY <1>4, <1>13, <1>14

-----------------------------------------------------------------------------
(* The two readers of an output.                                             *)

(***************************************************************************)
(* What is loaded, recoded, written and on the disk is bytes: no tensor is *)
(* stretched from nothing.                                                 *)
(***************************************************************************)
BytesInv ==
  /\ loaded # Refused => \A k \in 1..Len(loaded.tensors) : DataGood(loaded.tensors[k])
  /\ \A k \in 1..Len(recoded) : recoded[k].data \in Seq(Byte) /\ recoded[k].type \in Nat
  /\ header \in Seq(Byte) /\ disk \in Seq(Byte)

\* It holds at the start, ...
LEMMA InitBytesInv == Init => BytesInv
BY DEF Init, BytesInv, NoFile

\* ... and every step keeps it.
LEMMA BytesStep ==
  WriterInv /\ RecodeInv /\ FileInv /\ BytesInv /\ [Next]_vars => BytesInv'
<1> SUFFICES ASSUME WriterInv, RecodeInv, FileInv, BytesInv, [Next]_vars PROVE BytesInv'
  OBVIOUS
<1>1. CASE LoadInput
  <2>1. PICK got : got = Load(input) /\ (got = Refused \/ (got.ok = TRUE /\ LoadedType(got)))
    BY LoadIs DEF WriterInv
  <2>2. /\ loaded' = got /\ recoded' = <<>> /\ Len(<<>>) = 0
        /\ header' = header /\ disk' = disk
    BY <1>1, <2>1 DEF LoadInput, RecodeInv
  <2>3. got # Refused => \A k \in 1..Len(got.tensors) : DataGood(got.tensors[k])
    BY <2>1, LoadedData DEF WriterInv
  <2> QED BY <2>2, <2>3 DEF BytesInv
<1>2. CASE Recode
  <2>1. PICK m \in Nat : m = Len(recoded)
    BY DEF WriterInv, IsSeq
  <2>2. PICK t : t = loaded.tensors[m + 1]
    OBVIOUS
  <2>3. /\ m < Len(loaded.tensors) /\ loaded # Refused /\ Len(loaded.tensors) \in Nat
        /\ loaded' = loaded /\ header' = header /\ disk' = disk
    BY <1>2, <2>1 DEF Recode, RecodeInv, LoadedType, IsSeq
  <2>4. CASE CanDecode(t.type)
    <3>1. recoded' = Append(recoded, Recoded(t))
      BY <1>2, <2>1, <2>2, <2>4 DEF Recode
    <3>2. /\ Len(recoded') = m + 1 /\ recoded'[m + 1] = Recoded(t)
          /\ \A k \in 1..m : recoded'[k] = recoded[k]
      BY <2>1, <3>1, AppendIs DEF WriterInv
    <3>3. Recoded(t).data \in Seq(Byte) /\ Recoded(t).type \in Nat
      <4>1. m + 1 \in 1..Len(loaded.tensors)
        BY <2>3
      <4>2. Shaped(t.name, t.dims) /\ DataGood(t)
        BY <2>2, <2>3, <4>1 DEF RecodeInv, LoadedType, BytesInv
      <4>3. t.dims \in Seq(Nat)
        BY <4>2 DEF Shaped
      <4> QED BY <4>2, <4>3, RecodedData
    <3>4. ASSUME NEW k \in 1..(m + 1)
          PROVE  recoded'[k].data \in Seq(Byte) /\ recoded'[k].type \in Nat
      <4>1. CASE k = m + 1
        BY <3>2, <3>3, <4>1
      <4>2. CASE k \in 1..m
        BY <2>1, <3>2, <4>2 DEF BytesInv
      <4> QED BY <4>1, <4>2
    <3> QED BY <2>3, <3>2, <3>4 DEF BytesInv
  <2>5. CASE ~CanDecode(t.type)
    <3>1. recoded' = recoded
      BY <1>2, <2>1, <2>2, <2>5 DEF Recode
    <3> QED BY <2>3, <3>1 DEF BytesInv
  <2> QED BY <2>4, <2>5
<1>3. CASE OpenOutput
  <2>1. loaded.kvs \in Seq(KvType) /\ Len(recoded) \in Nat
    BY <1>3 DEF OpenOutput, RecodeInv, LoadedType, WriterInv, IsSeq
  <2>2. HeaderBytes(loaded.kvs, Len(recoded)) \in Seq(Byte)
    BY <2>1, HeaderBytesAre
  <2>3. header' \in Seq(Byte)
    BY <1>3, <2>2 DEF OpenOutput, BytesInv
  <2> QED BY <1>3, <2>3 DEF OpenOutput, BytesInv
<1>4. CASE IndexTensor
  <2>1. PICK n \in Nat, m \in Nat : n = Len(offs) /\ m = Len(recoded) /\ n + 1 \in 1..m
    BY <1>4 DEF IndexTensor, WriterInv, IsSeq
  <2>2. PICK t : t = recoded[n + 1]
    OBVIOUS
  <2>3. header' = header \o IndexBytes(t, off)
    BY <1>4, <2>1, <2>2 DEF IndexTensor
  <2>4. t.name \in Seq(Byte) /\ t.dims \in Seq(Nat) /\ t.type \in Nat
    BY <2>1, <2>2 DEF WriterInv, TensorOut, BytesInv
  <2>5. off \in Nat
    <3>1. n + 1 \in 1..(n + 1) /\ ~(n + 1 <= n)
      OBVIOUS
    <3>2. Spot(offs, off, n + 1) \in Nat
      BY <2>1, <3>1 DEF FileInv, Spots
    <3> QED BY <2>1, <3>1, <3>2 DEF Spot
  <2>6. PICK x : x = IndexBytes(t, off) /\ x \in Seq(Byte)
    BY <2>4, <2>5, IndexBytesBytes
  <2>7. header' \in Seq(Byte)
    <3>1. header \in Seq(Byte)
      BY DEF BytesInv
    <3> QED BY <2>3, <2>6, <3>1, Joined
  <2> QED BY <1>4, <2>7 DEF IndexTensor, BytesInv
<1>5. CASE WriteHeader
  <2>1. PadTo(header, Alignment) \in Seq(Byte)
    BY PadBytes DEF BytesInv
  <2> QED BY <1>5, <2>1 DEF WriteHeader, BytesInv
<1>6. CASE WriteTensor
  <2>1. PICK n \in Nat : n = Len(recoded) /\ written + 1 \in 1..n
    BY <1>6 DEF WriteTensor, WriterInv, IsSeq
  <2>2. PICK d : d = recoded[written + 1].data /\ d \in Seq(Byte)
    BY <2>1 DEF BytesInv
  <2>3. disk \o d \in Seq(Byte)
    <3>1. disk \in Seq(Byte)
      BY DEF BytesInv
    <3> QED BY <2>2, <3>1, Joined
  <2>4. PadTo(disk \o d, Alignment) \in Seq(Byte)
    BY <2>3, PadBytes
  <2>5. disk' \in Seq(Byte)
    BY <1>6, <2>2, <2>4 DEF WriteTensor
  <2> QED BY <1>6, <2>5 DEF WriteTensor, BytesInv
<1>7. CASE CloseOutput
  BY <1>7 DEF CloseOutput, BytesInv
<1>8. CASE Cut
  <2>1. PICK k \in 0..Len(disk) : disk' = SubSeq(disk, 1, k)
    BY <1>8 DEF Cut
  <2>2. disk \in Seq(Byte) /\ Len(disk) \in Nat
    BY DEF BytesInv
  <2>3. k \in Int /\ k <= Len(disk) /\ 1 \in Nat /\ 1 >= 1
    BY <2>2
  <2>4. SubSeq(disk, 1, k) \in Seq(Byte)
    BY <2>2, <2>3, PartIs
  <2> QED BY <1>8, <2>1, <2>4 DEF Cut, BytesInv
<1>9. CASE Done \/ UNCHANGED vars
  BY <1>9 DEF Done, vars, BytesInv
<1> QED BY <1>1, <1>2, <1>3, <1>4, <1>5, <1>6, <1>7, <1>8, <1>9 DEF Next

\* The metadata of what is on the disk is what both readers take.
CommonMetadata == Load(disk).ok => AllCommon(Load(disk).kvs)

(***************************************************************************)
(* What `ornith inspect` prints of an output is what the loader finds in   *)
(* it, at every step of every write and wherever it is cut. The inspector  *)
(* takes less than the loader: it refuses an array of arrays, and an empty *)
(* array of a type it does not know, and takes an architecture that is no  *)
(* string as an empty one; of a file with none of these the two say the    *)
(* same.                                                                   *)
(***************************************************************************)
THEOREM InspectorSees == Spec => [](CommonMetadata => InspectorAgrees)
<1> DEFINE IInv == WriterInv /\ RecodeInv /\ FileInv /\ BytesInv
<1>1. Init => IInv
  BY InitWriterInv, InitRecodeInv, InitFileInv, InitBytesInv
<1>2. IInv /\ [Next]_vars => IInv'
  BY WriterStep, RecodeStep, FileStep, BytesStep
<1>3. IInv => (CommonMetadata => InspectorAgrees)
  <2> SUFFICES ASSUME disk \in Seq(Byte), CommonMetadata, Load(disk).ok
               PROVE  Agrees(Open(disk), Load(disk))
    BY Zenon DEF BytesInv, InspectorAgrees, Agrees, LoadedElements, ArchAt
  <2>1. AllCommon(Load(disk).kvs)
    BY DEF CommonMetadata
  <2> QED BY <2>1, ReadersAgree
<1> QED BY <1>1, <1>2, <1>3, PTL DEF Spec
==============================================================================
