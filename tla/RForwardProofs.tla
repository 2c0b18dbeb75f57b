---------------------------- MODULE RForwardProofs ----------------------------
(***************************************************************************)
(* Theorems about Attention, Experts, Sampling and RForward for every      *)
(* prime, shape of the network, weights, chunk size and prompt, in the     *)
(* order they are needed:                                                  *)
(*   residues and their sums, and the chunked scan of the gated delta rule *)
(*   (DeltaScan);                                                          *)
(*   the draw of a token (SampledIsToken);                                 *)
(*   the state by layers, and what the kernels return;                     *)
(*   the router (RouterPicksBest);                                         *)
(*   a layer over a whole prompt, full attention and linear;               *)
(*   a prompt over all layers against its tokens one at a time             *)
(*   (PrefillIsSerial);                                                    *)
(*   the session (SessionIsDecoding, PartsInStep, WindowIsHistory).        *)
(***************************************************************************)
EXTENDS RForward, FiniteSetTheorems, SequenceTheorems, TLAPS

-----------------------------------------------------------------------------
(* Residues.                                                                 *)

\* Integers that stand for the same residue.
Agree(a, b) == a % P = b % P

\* A residue is one of 0 .. P - 1 and its own residue.
LEMMA ResidueOf ==
  ASSUME NEW a \in Int
  PROVE  a % P \in Int /\ a % P \in 0..(P - 1) /\ (a % P) % P = a % P
BY PrimeAssumption

\* A multiple of P does not change the residue.
LEMMA Shifted ==
  ASSUME NEW a \in Int, NEW k \in Int
  PROVE  (a + P * k) % P = a % P
<1>1. P \in Nat /\ P > 1
  BY PrimeAssumption
<1>2. a = P * (a \div P) + (a % P) /\ a \div P \in Int /\ a % P \in 0..(P - 1)
  BY <1>1
<1>3. /\ (a + P * k) = P * ((a + P * k) \div P) + ((a + P * k) % P)
      /\ (a + P * k) \div P \in Int /\ (a + P * k) % P \in 0..(P - 1)
  <2>1. a + P * k \in Int
    BY <1>1
  <2>2. \A z \in Int : z = P * (z \div P) + (z % P) /\ z \div P \in Int /\ z % P \in 0..(P - 1)
    BY <1>1
  <2> QED BY <2>1, <2>2
<1>4. ASSUME NEW q \in Int, NEW r \in 0..(P - 1), NEW s \in 0..(P - 1), P * q + r = s
      PROVE  r = s
  <2>1. q = 0 \/ q >= 1 \/ q <= -1
    OBVIOUS
  <2>2. q >= 1 => P * q >= P
    BY <1>1
  <2>3. q <= -1 => P * q <= -P
    BY <1>1
  <2> QED BY <1>1, <1>4, <2>1, <2>2, <2>3
<1> DEFINE q == (a + P * k) \div P
           r == (a + P * k) % P
           s == a % P
           t == a \div P
<1>5. P * (q - k - t) + r = s
  <2>1. a + P * k = P * q + r /\ a = P * t + s /\ q \in Int /\ r \in Int /\ s \in Int /\ t \in Int
    BY <1>1, <1>2, <1>3
  <2> HIDE DEF q, r, s, t
  <2>2. P * (q - k - t) = P * q - P * k - P * t
    BY <1>1, <2>1
  <2>3. P * k \in Int /\ P * q \in Int /\ P * t \in Int
    BY <1>1, <2>1
  <2> QED BY <1>1, <2>1, <2>2, <2>3
<1>6. q - k - t \in Int /\ r \in 0..(P - 1) /\ s \in 0..(P - 1)
  BY <1>1, <1>2, <1>3
<1> QED BY <1>4, <1>5, <1>6

\* A residue differs from its integer by a multiple of P.
LEMMA Quotient ==
  ASSUME NEW a \in Int
  PROVE  \E k \in Int : a % P = a + P * k
<1>1. P \in Nat /\ P > 1
  BY PrimeAssumption
<1>2. a = P * (a \div P) + (a % P) /\ a \div P \in Int /\ a % P \in Int
  BY <1>1
<1> DEFINE k == -(a \div P)
<1>3. k \in Int /\ a % P = a + P * k
  BY <1>1, <1>2
<1> QED BY <1>3

\* A residue stands for its integer.
LEMMA AgreeMod == ASSUME NEW a \in Int PROVE a % P \in Int /\ Agree(a % P, a)
BY ResidueOf DEF Agree

\* Sums agree when their terms do.
LEMMA AgreeAdd ==
  ASSUME NEW a \in Int, NEW b \in Int, NEW c \in Int, NEW d \in Int, Agree(a, b), Agree(c, d)
  PROVE  Agree(a + c, b + d)
<1>1. P \in Nat
  BY PrimeAssumption
<1>2. PICK i \in Int : a % P = a + P * i
  BY Quotient
<1>3. PICK j \in Int : b % P = b + P * j
  BY Quotient
<1>4. PICK k \in Int : c % P = c + P * k
  BY Quotient
<1>5. PICK l \in Int : d % P = d + P * l
  BY Quotient
<1>6. a + P * i = b + P * j /\ c + P * k = d + P * l
  BY <1>2, <1>3, <1>4, <1>5 DEF Agree
<1>7. /\ P * i \in Int /\ P * j \in Int /\ P * k \in Int /\ P * l \in Int
      /\ P * (j - i + l - k) = P * j - P * i + P * l - P * k
  BY <1>1
<1>8. a + c = (b + d) + P * (j - i + l - k)
  BY <1>6, <1>7
<1>9. b + d \in Int /\ j - i + l - k \in Int
  OBVIOUS
<1> QED BY <1>8, <1>9, Shifted DEF Agree

\* Multiples agree when the integers do.
LEMMA AgreeScale ==
  ASSUME NEW a \in Int, NEW b \in Int, NEW c \in Int, Agree(a, b)
  PROVE  Agree(c * a, c * b)
<1>1. P \in Nat
  BY PrimeAssumption
<1>2. PICK i \in Int : a % P = a + P * i
  BY Quotient
<1>3. PICK j \in Int : b % P = b + P * j
  BY Quotient
<1>6. a + P * i = b + P * j /\ P * i \in Int /\ P * j \in Int
  BY <1>1, <1>2, <1>3 DEF Agree
<1>7. a = b + P * (j - i)
  BY <1>1, <1>6
<1>8. c * a = c * b + P * (c * (j - i))
  <2> DEFINE m == j - i
  <2>1. m \in Int /\ a = b + P * m
    BY <1>7
  <2> HIDE DEF m
  <2>2. c * (b + P * m) = c * b + P * (c * m)
    BY <1>1, <2>1
  <2> QED BY <2>1, <2>2 DEF m
<1>9. c * b \in Int /\ c * (j - i) \in Int
  OBVIOUS
<1> QED BY <1>8, <1>9, Shifted DEF Agree

\* Products agree when their factors do.
LEMMA AgreeMul ==
  ASSUME NEW a \in Int, NEW b \in Int, NEW c \in Int, NEW d \in Int, Agree(a, b), Agree(c, d)
  PROVE  Agree(a * c, b * d)
<1>1. Agree(a * c, a * d)
  BY AgreeScale
<1>2. Agree(d * a, d * b)
  BY AgreeScale
<1>3. d * a = a * d /\ d * b = b * d
  OBVIOUS
<1> QED BY <1>1, <1>2, <1>3 DEF Agree

\* The forms in which the kernels need it.
LEMMA ModIn ==
  /\ \A a, b \in Int : ((a % P) + b) % P = (a + b) % P
  /\ \A a, b \in Int : ((a % P) * b) % P = (a * b) % P
<1>1. \A a \in Int : a % P \in Int /\ Agree(a % P, a)
  BY AgreeMod
<1>2. \A b \in Int : Agree(b, b)
  BY DEF Agree
<1>3. \A a, b \in Int : Agree((a % P) + b, a + b)
  BY <1>1, <1>2, AgreeAdd
<1>4. \A a, b \in Int : Agree((a % P) * b, a * b)
  BY <1>1, <1>2, AgreeMul
<1> QED BY <1>3, <1>4 DEF Agree

-----------------------------------------------------------------------------
(* Sums and products of residues.                                            *)

AddOp(p, a, e) == e + a
Sums == INSTANCE FoldFacts WITH Op <- AddOp
MulOp(p, a, e) == (e * a) % P
Products == INSTANCE FoldFacts WITH Op <- MulOp

\* The fold facts speak of the same finite sets.
LEMMA Finite ==
  ASSUME NEW D, IsFiniteSet(D)
  PROVE  Sums!IsFiniteSet(D) /\ Products!IsFiniteSet(D)
BY DEF IsFiniteSet, Sums!IsFiniteSet, Products!IsFiniteSet

\* Finitely many integers.
Ints(f) == IsFiniteSet(DOMAIN f) /\ \A x \in DOMAIN f : f[x] \in Int

\* Sum is a fold of FoldFacts.
LEMMA SumLink == ASSUME NEW f PROVE Sum(f) = Sums!FunFold(0, 0, f) % P
BY DEF Sum, SumFunction, SumFunctionOnSet, FoldFunction, FoldFunctionOnSet, MapThenFoldSet,
       Sums!FunFold, Sums!FoldFunction, Sums!FoldFunctionOnSet, Sums!MapThenFoldSet, AddOp

\* Product is a fold of FoldFacts.
LEMMA ProductLink == ASSUME NEW f PROVE Product(f) = Products!FunFold(0, 1, f)
BY DEF Product, FoldFunction, FoldFunctionOnSet, MapThenFoldSet,
       Products!FunFold, Products!FoldFunction, Products!FoldFunctionOnSet,
       Products!MapThenFoldSet, MulOp

\* A sum is a residue.
LEMMA SumType ==
  ASSUME NEW f, Ints(f)
  PROVE  Sums!FunFold(0, 0, f) \in Int /\ Sum(f) \in Int /\ Sum(f) \in 0..(P - 1)
<1>0. PICK X : X = Int
  OBVIOUS
<1>1. IsFiniteSet(DOMAIN f) /\ 0 \in X /\ \A a \in X, x \in DOMAIN f : AddOp(0, a, f[x]) \in X
  BY <1>0 DEF AddOp, Ints
<1>2. Sums!FunFold(0, 0, f) \in X
  BY <1>1, Finite, Sums!FunFoldKeeps
<1> QED BY <1>0, <1>2, SumLink, ResidueOf

\* The sum of nothing.
LEMMA SumEmpty == ASSUME NEW f, DOMAIN f = {} PROVE Sum(f) = 0
<1>1. Sums!FunFold(0, 0, f) = 0
  BY Sums!FunFoldEmpty
<1>2. 0 % P = 0
  BY PrimeAssumption
<1> QED BY <1>1, <1>2, SumLink

\* A sum is the sum of the others and any one of its terms.
LEMMA SumRemove ==
  ASSUME NEW f, Ints(f), NEW y \in DOMAIN f, NEW g, Sums!Without(g, f, y)
  PROVE  Sum(f) = (Sum(g) + f[y]) % P
<1>0. Ints(g)
  BY FS_RemoveElement DEF Ints, Sums!Without
<1>. PICK X : X = Int
  OBVIOUS
<1>1. Sums!Commutes(0, 0, f, X)
  BY X = Int DEF AddOp, Sums!Commutes, Ints
<1>3. y \in DOMAIN f /\ Sums!IsFiniteSet(DOMAIN f) /\ Sums!Without(g, f, y)
  BY Finite DEF Ints
<1>4. Sums!FunFold(0, 0, f) = AddOp(0, Sums!FunFold(0, 0, g), f[y])
  BY <1>1, <1>3, Sums!FunFoldRemove
<1>5. Sums!FunFold(0, 0, g) \in Int /\ f[y] \in Int
  BY <1>0, SumType DEF Ints
<1> QED BY <1>4, <1>5, SumLink, ModIn DEF AddOp

\* A product is an integer.
LEMMA ProductType ==
  ASSUME NEW f, Ints(f)
  PROVE  Product(f) \in Int
<1>0. PICK X : X = Int
  OBVIOUS
<1>1. IsFiniteSet(DOMAIN f) /\ 1 \in X /\ \A a \in X, x \in DOMAIN f : MulOp(0, a, f[x]) \in X
  BY <1>0, ResidueOf DEF MulOp, Ints
<1>2. Products!FunFold(0, 1, f) \in X
  BY <1>1, Finite, Products!FunFoldKeeps
<1> QED BY <1>0, <1>2, ProductLink

\* The product of nothing.
LEMMA ProductEmpty == ASSUME NEW f, DOMAIN f = {} PROVE Product(f) = 1
BY Products!FunFoldEmpty, ProductLink

\* A product is the product of the others times any one of its factors.
LEMMA ProductRemove ==
  ASSUME NEW f, Ints(f), NEW y \in DOMAIN f, NEW g, Products!Without(g, f, y)
  PROVE  Product(f) = (f[y] * Product(g)) % P
<1>0. PICK X : X = Int
  OBVIOUS
<1>1. 1 \in X /\ \A a \in X, x \in DOMAIN f : MulOp(0, a, f[x]) \in X
  BY <1>0, ResidueOf DEF MulOp, Ints
<1>2. ASSUME NEW a \in Int, NEW b \in Int, NEW c \in Int
      PROVE  (b * ((c * a) % P)) % P = (c * ((b * a) % P)) % P
  <2>1. c * a \in Int /\ b * a \in Int /\ (c * a) % P \in Int /\ (b * a) % P \in Int
    BY ResidueOf
  <2>2. ((c * a) % P) * b = b * ((c * a) % P) /\ ((b * a) % P) * c = c * ((b * a) % P)
    BY <2>1
  <2>3. (c * a) * b = (b * a) * c
    OBVIOUS
  <2> QED BY <2>1, <2>2, <2>3, ModIn
<1>3. \A a \in X, x, z \in DOMAIN f :
         MulOp(0, MulOp(0, a, f[x]), f[z]) = MulOp(0, MulOp(0, a, f[z]), f[x])
  BY <1>0, <1>2 DEF MulOp, Ints
<1>4. /\ y \in DOMAIN f /\ Products!IsFiniteSet(DOMAIN f) /\ Products!Without(g, f, y)
      /\ Products!Commutes(0, 1, f, X)
  BY <1>1, <1>3, Finite DEF Products!Commutes, Ints
<1>5. Products!FunFold(0, 1, f) = MulOp(0, Products!FunFold(0, 1, g), f[y])
  BY <1>4, Products!FunFoldRemove
<1> QED BY <1>5, ProductLink DEF MulOp

\* A sum is linear in its terms.
LEMMA SumLinear ==
  ASSUME NEW D, IsFiniteSet(D), NEW a \in Int, NEW b \in Int,
         NEW f \in [D -> Int], NEW g \in [D -> Int], NEW h \in [D -> Int],
         \A x \in D : Agree(h[x], a * f[x] + b * g[x])
  PROVE  Agree(Sum(h), a * Sum(f) + b * Sum(g))
<1> DEFINE on(k, t) == [x \in t |-> k[x]]
           Is(t) == Agree(Sum(on(h, t)), a * Sum(on(f, t)) + b * Sum(on(g, t)))
           I == {n \in Nat : \A t \in SUBSET D : Cardinality(t) = n => Is(t)}
<1>0. \A t \in SUBSET D : IsFiniteSet(t) /\ Cardinality(t) \in Nat
  BY FS_Subset, FS_CardinalityType
<1>1. 0 \in I
  <2> SUFFICES ASSUME NEW t \in SUBSET D, Cardinality(t) = 0 PROVE Is(t)
    OBVIOUS
  <2>1. t = {}
    BY <1>0, FS_EmptySet
  <2>2. Sum(on(h, t)) = 0 /\ Sum(on(f, t)) = 0 /\ Sum(on(g, t)) = 0
    BY <2>1, SumEmpty
  <2> QED BY <2>2 DEF Agree
<1>2. ASSUME NEW n \in Nat, n \in I PROVE n + 1 \in I
  <2> SUFFICES ASSUME NEW t \in SUBSET D, Cardinality(t) = n + 1 PROVE Is(t)
    OBVIOUS
  <2>1. PICK y \in t : TRUE
    <3>1. Cardinality({}) # n + 1
      BY FS_EmptySet
    <3> QED BY <3>1
  <2> DEFINE u == t \ {y}
  <2>2. IsFiniteSet(t) /\ u \in SUBSET D
    BY <1>0
  <2>3. Cardinality(u) = Cardinality(t) - 1
    BY <2>1, <2>2, FS_RemoveElement
  <2>4. Is(u)
    <3>1. Cardinality(u) = n
      BY <2>3
    <3> HIDE DEF Is, u
    <3> QED BY <1>2, <2>2, <3>1
  <2>5. ASSUME NEW k \in [D -> Int]
        PROVE  /\ Sum(on(k, u)) \in Int /\ k[y] \in Int /\ Sum(on(k, t)) \in Int
               /\ Agree(Sum(on(k, t)), Sum(on(k, u)) + k[y])
    <3>1. Ints(on(k, t)) /\ Ints(on(k, u)) /\ y \in D
      BY <1>0, <2>1, <2>2 DEF Ints
    <3>5. \A x \in t \ {y} : on(k, u)[x] = on(k, t)[x]
      OBVIOUS
    <3> DEFINE kt == on(k, t)
               ku == on(k, u)
    <3>2. Sum(on(k, u)) \in Int /\ k[y] \in Int /\ Sum(on(k, t)) \in Int
      BY <2>2, <3>1, SumType
    <3>4. kt[y] = k[y]
      BY <2>1
    <3>3. Sum(kt) = (Sum(ku) + k[y]) % P
      <4>1. Ints(kt) /\ y \in DOMAIN kt
        BY <3>1
      <4>2. Sums!Without(ku, kt, y)
        BY <3>5 DEF Sums!Without
      <4> HIDE DEF kt, ku, u, on
      <4>3. Sum(kt) = (Sum(ku) + kt[y]) % P
        BY <4>1, <4>2, SumRemove
      <4> QED BY <4>3, <3>4
    <3> HIDE DEF u
    <3> QED BY <2>1, <3>2, <3>3, AgreeMod
  <2> DEFINE F == Sum(on(f, u))
             G == Sum(on(g, u))
             H == Sum(on(h, u))
  <2>6. F \in Int /\ G \in Int /\ H \in Int /\ f[y] \in Int /\ g[y] \in Int /\ h[y] \in Int
    BY <2>5
  <2>7. Agree(H + h[y], (a * F + b * G) + (a * f[y] + b * g[y]))
    <3>1. Agree(H, a * F + b * G) /\ Agree(h[y], a * f[y] + b * g[y])
      BY <2>1, <2>4
    <3> HIDE DEF F, G, H, Is
    <3> QED BY <2>6, <3>1, AgreeAdd
  <2>8. /\ Agree(a * Sum(on(f, t)), a * (F + f[y])) /\ Agree(b * Sum(on(g, t)), b * (G + g[y]))
        /\ Agree(Sum(on(h, t)), H + h[y])
    <3>1. /\ Sum(on(f, t)) \in Int /\ Agree(Sum(on(f, t)), F + f[y])
          /\ Sum(on(g, t)) \in Int /\ Agree(Sum(on(g, t)), G + g[y])
          /\ Agree(Sum(on(h, t)), H + h[y])
      BY <2>5
    <3>2. F + f[y] \in Int /\ G + g[y] \in Int
      BY <2>6
    <3> HIDE DEF F, G, H
    <3> QED BY <3>1, <3>2, AgreeScale
  <2>9. Agree(a * Sum(on(f, t)) + b * Sum(on(g, t)), a * (F + f[y]) + b * (G + g[y]))
    <3>1. /\ Sum(on(f, t)) \in Int /\ Sum(on(g, t)) \in Int
      BY <2>5
    <3>2. /\ a * Sum(on(f, t)) \in Int /\ b * Sum(on(g, t)) \in Int
          /\ a * (F + f[y]) \in Int /\ b * (G + g[y]) \in Int
      BY <2>6, <3>1
    <3> HIDE DEF F, G, H
    <3> QED BY <2>8, <3>2, AgreeAdd
  <2>10. a * (F + f[y]) + b * (G + g[y]) = (a * F + b * G) + (a * f[y] + b * g[y])
    <3> DEFINE v == f[y]
               w == g[y]
    <3> HIDE DEF F, G, v, w
    <3>1. F \in Int /\ G \in Int /\ v \in Int /\ w \in Int
      BY <2>6 DEF v, w
    <3>2. a * (F + v) + b * (G + w) = (a * F + b * G) + (a * v + b * w)
      BY <3>1
    <3> QED BY <3>2 DEF v, w
  <2> QED BY <2>7, <2>8, <2>9, <2>10 DEF Agree
<1>3. Cardinality(D) \in I
  <2>1. Cardinality(D) \in Nat
    BY <1>0
  <2> HIDE DEF I
  <2> QED BY <1>1, <1>2, <2>1, Sums!NatInd
<1>4. Is(D)
  BY <1>3
<1>5. on(f, D) = f /\ on(g, D) = g /\ on(h, D) = h
  OBVIOUS
<1> QED BY <1>4, <1>5

\* A sum depends on the terms only.
LEMMA SumSame ==
  ASSUME NEW f, NEW g, IsFiniteSet(DOMAIN f), DOMAIN f = DOMAIN g,
         \A x \in DOMAIN f : f[x] = g[x]
  PROVE  Sum(f) = Sum(g)
<1> DEFINE D == DOMAIN f
<1>1. /\ Sums!IsFiniteSet(DOMAIN f) /\ Sums!IsFiniteSet(DOMAIN g)
      /\ D \in SUBSET (DOMAIN f \cap DOMAIN g) /\ \A x \in D : f[x] = g[x]
  BY Finite
<1>2. Sums!FunIter(0, 0, f)[D] = Sums!FunIter(0, 0, g)[D]
  <2> HIDE DEF D
  <2> QED BY <1>1, Sums!FunIterSame
<1> QED BY <1>2, Sums!FunFoldIs, SumLink

\* Sums of terms that agree are the same residue.
LEMMA SumAgree ==
  ASSUME NEW f, NEW g, Ints(f), Ints(g), DOMAIN f = DOMAIN g,
         \A x \in DOMAIN f : Agree(f[x], g[x])
  PROVE  Sum(f) = Sum(g)
<1> DEFINE D == DOMAIN f
           h == [x \in D |-> f[x]]
           k == [x \in D |-> g[x]]
<1>1. IsFiniteSet(D) /\ h \in [D -> Int] /\ k \in [D -> Int]
  BY DEF Ints
<1>2. \A x \in D : Agree(h[x], 1 * k[x] + 0 * k[x])
  <2>1. \A x \in D : Agree(f[x], g[x]) /\ g[x] \in Int
    BY DEF Ints
  <2> QED BY <2>1
<1>3. Agree(Sum(h), 1 * Sum(k) + 0 * Sum(k))
  <2> HIDE DEF D, h, k
  <2> QED BY <1>1, <1>2, SumLinear
<1>4. Ints(h) /\ Ints(k)
  BY <1>1 DEF Ints
<1>5. Sum(h) \in 0..(P - 1) /\ Sum(k) \in 0..(P - 1)
  BY <1>4, SumType
<1>6. \A a, b \in 0..(P - 1) : Agree(a, 1 * b + 0 * b) => a = b
  BY PrimeAssumption DEF Agree
<1>7. Sum(h) = Sum(k)
  <2> HIDE DEF h, k
  <2> QED BY <1>3, <1>5, <1>6
<1>8. Sum(f) = Sum(h) /\ Sum(g) = Sum(k)
  <2>1. /\ DOMAIN h = DOMAIN f /\ DOMAIN k = DOMAIN g /\ IsFiniteSet(DOMAIN g)
        /\ \A x \in DOMAIN f : f[x] = h[x]
        /\ \A x \in DOMAIN g : g[x] = k[x]
    BY <1>1
  <2> HIDE DEF h, k
  <2> QED BY <1>1, <2>1, SumSame
<1> QED BY <1>7, <1>8

\* The first n of a sequence of terms, one by one.
UpTo(f, n) == [j \in 1..n |-> f[j]]

\* The first n integers of a sequence, their sum and their product.
LEMMA UpToIs ==
  ASSUME NEW f, NEW n \in Nat, \A j \in 1..n : f[j] \in Int
  PROVE  /\ Ints(UpTo(f, n)) /\ DOMAIN UpTo(f, n) = 1..n
         /\ Sum(UpTo(f, n)) \in Int /\ Sum(UpTo(f, n)) % P = Sum(UpTo(f, n))
         /\ Product(UpTo(f, n)) \in Int
<1>1. Ints(UpTo(f, n)) /\ DOMAIN UpTo(f, n) = 1..n
  BY FS_Interval DEF UpTo, Ints
<1>2. Sum(UpTo(f, n)) \in 0..(P - 1) /\ Sum(UpTo(f, n)) \in Int /\ Product(UpTo(f, n)) \in Int
  BY <1>1, SumType, ProductType
<1>3. \A r \in 0..(P - 1) : r % P = r
  BY PrimeAssumption
<1> QED BY <1>1, <1>2, <1>3

\* The sum of the first 0 terms.
LEMMA SumNone == ASSUME NEW f PROVE Sum(UpTo(f, 0)) = 0
BY SumEmpty DEF UpTo

\* The sum of the first n terms is one step after that of the first n - 1.
LEMMA SumNext ==
  ASSUME NEW f, NEW n \in Nat, n > 0, \A j \in 1..n : f[j] \in Int
  PROVE  Sum(UpTo(f, n)) = (Sum(UpTo(f, n - 1)) + f[n]) % P
<1> DEFINE g == UpTo(f, n)
           h == UpTo(f, n - 1)
<1>1. Ints(g) /\ n \in DOMAIN g
  BY UpToIs
<1>2. Sums!Without(h, g, n)
  BY DEF Sums!Without, UpTo
<1>3. g[n] = f[n]
  BY DEF UpTo
<1> HIDE DEF g, h
<1>4. Sum(g) = (Sum(h) + g[n]) % P
  BY <1>1, <1>2, SumRemove
<1> QED BY <1>3, <1>4 DEF g, h

\* The product of the decays from j to i.
Decay(al, j, i) == Product([l \in j..i |-> al[l]])

\* A product of integer decays is an integer.
LEMMA DecayType ==
  ASSUME NEW al, NEW j \in Int, NEW i \in Int, \A l \in j..i : al[l] \in Int
  PROVE  Decay(al, j, i) \in Int
<1>1. Ints([l \in j..i |-> al[l]])
  BY FS_Interval DEF Ints
<1> QED BY <1>1, ProductType DEF Decay

\* No decay at all is 1.
LEMMA DecayNone ==
  ASSUME NEW al, NEW j \in Int, NEW i \in Int, i < j
  PROVE  Decay(al, j, i) = 1
<1>1. DOMAIN [l \in j..i |-> al[l]] = {}
  OBVIOUS
<1> QED BY <1>1, ProductEmpty DEF Decay

\* The last decay taken out of the product.
LEMMA DecayNext ==
  ASSUME NEW al, NEW j \in Int, NEW i \in Int, j <= i, \A l \in j..i : al[l] \in Int
  PROVE  /\ Decay(al, j, i) = (al[i] * Decay(al, j, i - 1)) % P
         /\ Agree(al[i] * Decay(al, j, i - 1), Decay(al, j, i))
<1> DEFINE g == [l \in j..i |-> al[l]]
           h == [l \in j..(i - 1) |-> al[l]]
<1>1. Ints(g) /\ i \in DOMAIN g /\ g[i] = al[i] /\ al[i] \in Int
  BY FS_Interval DEF Ints
<1>2. Products!Without(h, g, i)
  BY DEF Products!Without
<1>3. Product(h) \in Int
  BY DecayType DEF Decay
<1> HIDE DEF g, h
<1>4. Product(g) = (g[i] * Product(h)) % P
  BY <1>1, <1>2, ProductRemove
<1>5. Agree(al[i] * Product(h), Product(g))
  BY <1>1, <1>3, <1>4, AgreeMod DEF Agree
<1> QED BY <1>1, <1>4, <1>5 DEF Decay, g, h

\* What the first n writes u, along z, have left at time i.
Term(al, u, z, i) == [j \in DOMAIN z |-> Decay(al, j + 1, i) * u[j] * z[j]]
Left(al, u, z, i, n) == Sum(UpTo(Term(al, u, z, i), n))

\* What is left of integer writes is an integer.
LEMMA LeftType ==
  ASSUME NEW C \in Nat, NEW al \in [1..C -> Int], NEW z \in [1..C -> Int], NEW i \in 0..C,
         NEW n \in 0..C, NEW u, \A j \in 1..n : u[j] \in Int
  PROVE  /\ \A j \in 1..n : Term(al, u, z, i)[j] \in Int
         /\ Left(al, u, z, i, n) \in Int
<1>1. ASSUME NEW j \in 1..n PROVE Term(al, u, z, i)[j] \in Int
  <2>1. Decay(al, j + 1, i) \in Int
    BY DecayType
  <2>2. u[j] \in Int /\ z[j] \in Int /\ j \in DOMAIN z
    OBVIOUS
  <2> QED BY <2>1, <2>2 DEF Term
<1> QED BY <1>1, UpToIs DEF Left

\* A step decays what is left of the writes before it.
LEMMA LeftDecays ==
  ASSUME NEW C \in Nat, NEW al \in [1..C -> Int], NEW z \in [1..C -> Int], NEW i \in 1..C,
         NEW u, \A j \in 1..(i - 1) : u[j] \in Int
  PROVE  Agree(al[i] * Left(al, u, z, i - 1, i - 1), Left(al, u, z, i, i - 1))
<1> DEFINE f == UpTo(Term(al, u, z, i - 1), i - 1)
           g == UpTo(Term(al, u, z, i), i - 1)
           D == 1..(i - 1)
<1>1. f \in [D -> Int] /\ g \in [D -> Int] /\ IsFiniteSet(D)
  <2>1. /\ \A j \in 1..(i - 1) : Term(al, u, z, i - 1)[j] \in Int
        /\ \A j \in 1..(i - 1) : Term(al, u, z, i)[j] \in Int
    <3>1. i - 1 \in 0..C /\ i \in 0..C
      OBVIOUS
    <3>2. \A j \in 1..(i - 1) : Term(al, u, z, i - 1)[j] \in Int
      BY <3>1, LeftType
    <3>3. \A j \in 1..(i - 1) : Term(al, u, z, i)[j] \in Int
      BY <3>1, LeftType
    <3> QED BY <3>2, <3>3
  <2> QED BY <2>1, FS_Interval DEF UpTo
<1>2. ASSUME NEW j \in D PROVE Agree(g[j], al[i] * f[j] + 0 * f[j])
  <2> DEFINE r == Decay(al, j + 1, i - 1)
             s == Decay(al, j + 1, i)
             v == u[j] * z[j]
             b == al[i]
  <2>1. r \in Int /\ s \in Int /\ v \in Int /\ b \in Int /\ Agree(b * r, s)
    <3>1. j + 1 \in Int /\ i \in Int /\ i - 1 \in Int /\ j + 1 <= i
      OBVIOUS
    <3>2. (\A l \in (j + 1)..i : al[l] \in Int) /\ \A l \in (j + 1)..(i - 1) : al[l] \in Int
      OBVIOUS
    <3>3. r \in Int /\ s \in Int
      BY <3>1, <3>2, DecayType
    <3>4. Agree(b * r, s)
      BY <3>1, <3>2, DecayNext
    <3>5. v \in Int /\ b \in Int
      OBVIOUS
    <3> QED BY <3>3, <3>4, <3>5
  <2>2. f[j] = r * u[j] * z[j] /\ g[j] = s * u[j] * z[j]
    BY DEF UpTo, Term
  <2>3. u[j] \in Int /\ z[j] \in Int /\ r \in Int /\ s \in Int
    BY <2>1
  <2>4. f[j] = r * v /\ g[j] = s * v /\ f[j] \in Int
    <3> HIDE DEF r, s, f, g
    <3> QED BY <2>2, <2>3
  <2> HIDE DEF r, s, v, b, f, g
  <2>5. Agree(v * (b * r), v * s)
    <3>1. b * r \in Int
      BY <2>1
    <3> QED BY <2>1, <3>1, AgreeScale
  <2>6. v * (b * r) = b * (r * v) /\ v * s = s * v /\ b * (r * v) + 0 * (r * v) = b * (r * v)
    BY <2>1
  <2> QED BY <2>4, <2>5, <2>6 DEF Agree, b
<1>3. Agree(Sum(g), al[i] * Sum(f) + 0 * Sum(f))
  <2>1. al[i] \in Int /\ 0 \in Int
    OBVIOUS
  <2> HIDE DEF f, g, D
  <2> QED BY <1>1, <1>2, <2>1, SumLinear
<1>4. Sum(f) \in Int /\ al[i] \in Int
  BY <1>1, SumType DEF Ints
<1> HIDE DEF f, g
<1>5. al[i] * Sum(f) + 0 * Sum(f) = al[i] * Sum(f)
  BY <1>4
<1> QED BY <1>3, <1>5 DEF Agree, Left, f, g

\* What the decay of step i makes of a value that came about by the steps before.
LEMMA Carried ==
  ASSUME NEW C \in Nat, NEW al \in [1..C -> Int], NEW z \in [1..C -> Int], NEW i \in 1..C,
         NEW u, \A j \in 1..(i - 1) : u[j] \in Int, NEW a \in Int, NEW b \in Int,
         Agree(a, Decay(al, 1, i - 1) * b + Left(al, u, z, i - 1, i - 1))
  PROVE  Agree(al[i] * a, Decay(al, 1, i) * b + Left(al, u, z, i, i - 1))
<1> DEFINE r == Decay(al, 1, i - 1)
           s == Decay(al, 1, i)
           v == Left(al, u, z, i - 1, i - 1)
           w == Left(al, u, z, i, i - 1)
           c == al[i]
<1>1. r \in Int /\ s \in Int /\ Agree(c * r, s) /\ c \in Int
  <2>1. /\ 1 \in Int /\ i \in Int /\ i - 1 \in Int /\ 1 <= i
        /\ (\A l \in 1..i : al[l] \in Int) /\ \A l \in 1..(i - 1) : al[l] \in Int
    OBVIOUS
  <2> QED BY <2>1, DecayType, DecayNext
<1>2. v \in Int /\ w \in Int
  <2>1. i - 1 \in 0..C /\ i \in 0..C
    OBVIOUS
  <2> QED BY <2>1, LeftType
<1>3. Agree(c * v, w)
  BY LeftDecays
<1>4. Agree(a, r * b + v)
  OBVIOUS
<1> HIDE DEF r, s, v, w, c
<1>5. Agree(c * a, c * (r * b + v))
  <2>1. r * b + v \in Int
    BY <1>1, <1>2
  <2> QED BY <1>1, <1>4, <2>1, AgreeScale
<1>6. c * (r * b + v) = b * (c * r) + c * v
  BY <1>1, <1>2
<1>7. Agree(b * (c * r), b * s)
  <2>1. c * r \in Int
    BY <1>1
  <2> QED BY <1>1, <2>1, AgreeScale
<1>8. Agree(b * (c * r) + c * v, b * s + w)
  <2>1. b * (c * r) \in Int /\ b * s \in Int /\ c * v \in Int
    BY <1>1, <1>2
  <2> QED BY <1>2, <1>3, <1>7, <2>1, AgreeAdd
<1>9. b * s = s * b
  BY <1>1
<1> QED BY <1>5, <1>6, <1>8, <1>9 DEF Agree, r, s, v, w, c

\* A value that every step decays and then adds u[i] z[i] to.
LEMMA Scanned ==
  ASSUME NEW C \in Nat, NEW al \in [1..C -> Int], NEW z \in [1..C -> Int], NEW m \in 0..C,
         NEW u, \A j \in 1..m : u[j] \in Int, NEW f \in [0..C -> Int],
         \A i \in 1..m : Agree(f[i], al[i] * f[i - 1] + u[i] * z[i])
  PROVE  \A i \in 0..m : Agree(f[i], Decay(al, 1, i) * f[0] + Left(al, u, z, i, i))
<1> DEFINE Is(i) == Agree(f[i], Decay(al, 1, i) * f[0] + Left(al, u, z, i, i))
           I == {i \in Nat : i <= m => Is(i)}
<1>1. 0 \in I
  <2>1. Decay(al, 1, 0) = 1
    <3>1. 1 \in Int /\ 0 \in Int /\ 0 < 1
      OBVIOUS
    <3> QED BY <3>1, DecayNone
  <2>2. Left(al, u, z, 0, 0) = 0
    BY SumNone DEF Left
  <2>3. 1 * f[0] + 0 = f[0]
    OBVIOUS
  <2>4. Is(0)
    BY <2>1, <2>2, <2>3 DEF Agree
  <2> QED BY <2>4
<1>2. ASSUME NEW n \in Nat, n \in I PROVE n + 1 \in I
  <2> SUFFICES ASSUME n + 1 <= m PROVE Is(n + 1)
    OBVIOUS
  <2> DEFINE i == n + 1
  <2>1. /\ i \in 1..C /\ i \in 1..m /\ i - 1 = n /\ f[n] \in Int /\ f[0] \in Int /\ al[i] \in Int
        /\ f[i] \in Int /\ u[i] \in Int /\ z[i] \in Int /\ i \in DOMAIN z /\ i \in 0..C
    OBVIOUS
  <2>2. Is(n)
    BY <1>2, <2>1
  <2>3. \A j \in 1..(i - 1) : u[j] \in Int
    OBVIOUS
  <2>11. \A j \in 1..i : u[j] \in Int
    OBVIOUS
  <2>12. Agree(f[i], al[i] * f[i - 1] + u[i] * z[i])
    BY <2>1
  <2> HIDE DEF i, I
  <2>4. Agree(al[i] * f[n], Decay(al, 1, i) * f[0] + Left(al, u, z, i, i - 1))
    BY <2>1, <2>2, <2>3, Carried
  <2> DEFINE d == Decay(al, 1, i)
             w == Left(al, u, z, i, i - 1)
             t == Left(al, u, z, i, i)
  <2>5. d \in Int /\ w \in Int /\ t \in Int
    <3>1. /\ 1 \in Int /\ i \in Int /\ \A l \in 1..i : al[l] \in Int
      BY <2>1
    <3>2. d \in Int
      BY <3>1, DecayType
    <3>3. i - 1 \in 0..C
      BY <2>1
    <3>4. w \in Int
      BY <2>1, <2>3, <3>3, LeftType
    <3>5. t \in Int
      BY <2>1, <2>11, LeftType
    <3> QED BY <3>2, <3>4, <3>5
  <2>6. t = (w + u[i] * z[i]) % P
    <3> DEFINE e == Term(al, u, z, i)
    <3>1. \A j \in 1..i : e[j] \in Int
      BY <2>1, <2>11, LeftType
    <3>2. e[i] = Decay(al, i + 1, i) * u[i] * z[i]
      BY <2>1 DEF Term
    <3>3. Decay(al, i + 1, i) = 1
      <4>1. i + 1 \in Int /\ i \in Int /\ i < i + 1
        BY <2>1
      <4> QED BY <4>1, DecayNone
    <3>4. e[i] = u[i] * z[i]
      BY <2>1, <3>2, <3>3
    <3>5. i \in Nat /\ i > 0
      BY <2>1
    <3> HIDE DEF e
    <3>6. Sum(UpTo(e, i)) = (Sum(UpTo(e, i - 1)) + e[i]) % P
      BY <3>1, <3>5, SumNext
    <3> QED BY <3>4, <3>6 DEF Left, e
  <2> DEFINE v == u[i] * z[i]
  <2>7. v \in Int
    BY <2>1
  <2>8. Agree(f[i], al[i] * f[n] + v)
    BY <2>1, <2>12
  <2>9. Agree(al[i] * f[n], d * f[0] + w)
    BY <2>4
  <2>10. Agree(t, w + v)
    BY <2>5, <2>6, <2>7, AgreeMod
  <2> HIDE DEF d, w, t, v
  <2>13. Agree(al[i] * f[n] + v, (d * f[0] + w) + v)
    <3>1. al[i] * f[n] \in Int /\ d * f[0] + w \in Int /\ Agree(v, v)
      BY <2>1, <2>5 DEF Agree
    <3> QED BY <2>7, <2>9, <3>1, AgreeAdd
  <2>14. Agree(d * f[0] + t, d * f[0] + (w + v))
    <3>1. d * f[0] \in Int /\ w + v \in Int /\ Agree(d * f[0], d * f[0])
      BY <2>1, <2>5, <2>7 DEF Agree
    <3> QED BY <2>5, <2>10, <3>1, AgreeAdd
  <2>15. d * f[0] + (w + v) = (d * f[0] + w) + v
    <3>1. d * f[0] \in Int
      BY <2>1, <2>5
    <3> QED BY <2>5, <2>7, <3>1
  <2>16. Agree(f[i], d * f[0] + t)
    BY <2>8, <2>13, <2>14, <2>15 DEF Agree
  <2> QED BY <2>16 DEF d, t, i
<1>3. \A i \in Nat : i \in I
  <2> HIDE DEF I
  <2> QED BY <1>1, <1>2, Sums!NatInd
<1> QED BY <1>3

-----------------------------------------------------------------------------
(* The delta rule: a chunk against its steps.                                *)

\* A dot product of integer vectors is a residue.
LEMMA DotIs ==
  ASSUME NEW K, IsFiniteSet(K), NEW x \in [K -> Int], NEW y \in [K -> Int]
  PROVE  Ints([c \in K |-> x[c] * y[c]]) /\ Dot(x, y) = Sum([c \in K |-> x[c] * y[c]])
         /\ Dot(x, y) \in Int /\ Dot(x, y) \in 0..(P - 1)
<1>1. Ints([c \in K |-> x[c] * y[c]])
  BY DEF Ints
<1> QED BY <1>1, SumType DEF Dot

\* A dot product is linear in its first argument.
LEMMA DotLinear ==
  ASSUME NEW K, IsFiniteSet(K), NEW S \in [K -> Int], NEW k \in [K -> Int],
         NEW T \in [K -> Int], NEW y \in [K -> Int], NEW a \in Int, NEW w \in Int,
         \A c \in K : Agree(T[c], a * S[c] + w * k[c])
  PROVE  Agree(Dot(T, y), a * Dot(S, y) + w * Dot(k, y))
<1> DEFINE f == [c \in K |-> S[c] * y[c]]
           g == [c \in K |-> k[c] * y[c]]
           h == [c \in K |-> T[c] * y[c]]
<1>1. f \in [K -> Int] /\ g \in [K -> Int] /\ h \in [K -> Int]
  OBVIOUS
<1>2. ASSUME NEW c \in K PROVE Agree(h[c], a * f[c] + w * g[c])
  <2> DEFINE s == S[c]
             l == k[c]
             t == T[c]
             z == y[c]
  <2>1. s \in Int /\ l \in Int /\ t \in Int /\ z \in Int /\ Agree(t, a * s + w * l)
    OBVIOUS
  <2>2. h[c] = t * z /\ f[c] = s * z /\ g[c] = l * z
    OBVIOUS
  <2> HIDE DEF s, l, t, z, f, g, h
  <2>3. a * s + w * l \in Int
    BY <2>1
  <2>4. Agree(z * t, z * (a * s + w * l))
    BY <2>1, <2>3, AgreeScale
  <2>5. z * t = t * z /\ z * (a * s + w * l) = a * (s * z) + w * (l * z)
    BY <2>1
  <2> QED BY <2>2, <2>4, <2>5 DEF Agree
<1>3. Agree(Sum(h), a * Sum(f) + w * Sum(g))
  <2> HIDE DEF f, g, h
  <2> QED BY <1>1, <1>2, SumLinear
<1> QED BY <1>3, DotIs

\* What a token brings to the delta rule.
DeltaIn(x, K) == /\ x.q \in [K -> Int] /\ x.k \in [K -> Int]
                 /\ x.v \in Int /\ x.alpha \in Int /\ x.beta \in Int

Brought(S, x) == x.beta * (x.v - Dot(Scale(S, x.alpha), x.k))

\* One step, entry by entry and seen through any vector y: decay, then add the write.
LEMMA DeltaStepIs ==
  ASSUME NEW K, IsFiniteSet(K), NEW S \in [K -> Int], NEW x, DeltaIn(x, K)
  PROVE  LET r == DeltaStep(S, x)
             w == Brought(S, x) % P
         IN  /\ Brought(S, x) \in Int /\ w \in Int
             /\ r.S \in [K -> Int] /\ r.out = Dot(r.S, x.q) /\ r.out \in Int
             /\ \A c \in K : /\ Agree(r.S[c], x.alpha * S[c] + w * x.k[c])
                             /\ r.S[c] % P = r.S[c]
             /\ \A y \in [K -> Int] :
                  Agree(Dot(r.S, y), x.alpha * Dot(S, y) + w * Dot(x.k, y))
             /\ Agree(Dot(Scale(S, x.alpha), x.k), x.alpha * Dot(S, x.k))
<1> DEFINE dec == Scale(S, x.alpha)
           w == Brought(S, x) % P
           r == DeltaStep(S, x)
<1>1. /\ dec = [c \in K |-> (x.alpha * S[c]) % P]
      /\ dec \in [K -> Int] /\ \A c \in K : Agree(dec[c], x.alpha * S[c] + 0 * x.k[c])
  <2>1. dec = [c \in K |-> (x.alpha * S[c]) % P]
    BY DEF Scale
  <2>2. ASSUME NEW c \in K
        PROVE  (x.alpha * S[c]) % P \in Int /\ Agree((x.alpha * S[c]) % P, x.alpha * S[c] + 0 * x.k[c])
    <3>1. x.alpha * S[c] \in Int /\ x.alpha * S[c] + 0 * x.k[c] = x.alpha * S[c]
      BY DEF DeltaIn
    <3> QED BY <3>1, AgreeMod
  <2> QED BY <2>1, <2>2
<1>2. Agree(Dot(dec, x.k), x.alpha * Dot(S, x.k))
  <2>1. x.k \in [K -> Int] /\ x.alpha \in Int /\ 0 \in Int
    BY DEF DeltaIn
  <2> HIDE DEF dec
  <2>2. Agree(Dot(dec, x.k), x.alpha * Dot(S, x.k) + 0 * Dot(x.k, x.k))
    BY <1>1, <2>1, DotLinear
  <2>3. Dot(S, x.k) \in Int /\ Dot(x.k, x.k) \in Int
    BY <2>1, DotIs
  <2>4. x.alpha * Dot(S, x.k) + 0 * Dot(x.k, x.k) = x.alpha * Dot(S, x.k)
    BY <2>1, <2>3
  <2> QED BY <2>2, <2>4
<1>3. Brought(S, x) \in Int /\ w \in Int /\ Agree(w, Brought(S, x))
  <2>1. Dot(dec, x.k) \in Int
    BY <1>1, DotIs DEF DeltaIn
  <2>2. Brought(S, x) \in Int
    BY <2>1 DEF Brought, DeltaIn
  <2> QED BY <2>2, AgreeMod
<1>4. /\ r.S = [c \in K |-> (dec[c] + Brought(S, x) * x.k[c]) % P]
      /\ r.out = Dot(r.S, x.q)
  BY <1>1 DEF DeltaStep, AddScaled, Brought
<1>5. ASSUME NEW c \in K
      PROVE  /\ r.S[c] \in Int /\ r.S[c] % P = r.S[c]
             /\ Agree(r.S[c], x.alpha * S[c] + w * x.k[c])
  <2> DEFINE b == Brought(S, x)
             l == x.k[c]
             d == dec[c]
             m == x.alpha * S[c]
  <2>1. b \in Int /\ w \in Int /\ l \in Int /\ d \in Int /\ m \in Int
    BY <1>1, <1>3 DEF DeltaIn
  <2>2. r.S[c] = (d + b * l) % P
    BY <1>4
  <2>3. Agree(d, m)
    <3>1. m + 0 * l = m
      BY <2>1
    <3> QED BY <1>1, <3>1
  <2>4. Agree(b, w)
    BY <1>3 DEF Agree
  <2> HIDE DEF b, l, d, m, w
  <2>5. Agree(b * l, w * l)
    <3>1. Agree(l * b, l * w)
      BY <2>1, <2>4, AgreeScale
    <3>2. l * b = b * l /\ l * w = w * l
      BY <2>1
    <3> QED BY <3>1, <3>2
  <2>6. Agree(d + b * l, m + w * l) /\ d + b * l \in Int
    <3>1. b * l \in Int /\ w * l \in Int
      BY <2>1
    <3> QED BY <2>1, <2>3, <2>5, <3>1, AgreeAdd
  <2>7. Agree((d + b * l) % P, d + b * l) /\ (d + b * l) % P \in Int
        /\ ((d + b * l) % P) % P = (d + b * l) % P
    BY <2>6, AgreeMod, ResidueOf
  <2> QED BY <2>2, <2>6, <2>7 DEF Agree, m, l
<1>6. r.S \in [K -> Int]
  BY <1>4, <1>5
<1>7. r.out \in Int
  <2>1. x.q \in [K -> Int] /\ r.out = Dot(r.S, x.q)
    BY <1>4 DEF DeltaIn
  <2>2. \A a, b \in [K -> Int] : Dot(a, b) \in Int
    BY DotIs
  <2> HIDE DEF r
  <2> QED BY <1>6, <2>1, <2>2
<1>8. ASSUME NEW y \in [K -> Int]
      PROVE  Agree(Dot(r.S, y), x.alpha * Dot(S, y) + w * Dot(x.k, y))
  <2>1. x.k \in [K -> Int] /\ x.alpha \in Int
    BY DEF DeltaIn
  <2> HIDE DEF r, w
  <2> QED BY <1>3, <1>5, <1>6, <2>1, DotLinear
<1> HIDE DEF r, dec, w
<1>9. /\ Brought(S, x) \in Int /\ w \in Int
      /\ r.S \in [K -> Int] /\ r.out = Dot(r.S, x.q) /\ r.out \in Int
      /\ \A c \in K : Agree(r.S[c], x.alpha * S[c] + w * x.k[c]) /\ r.S[c] % P = r.S[c]
      /\ \A y \in [K -> Int] : Agree(Dot(r.S, y), x.alpha * Dot(S, y) + w * Dot(x.k, y))
      /\ Agree(Dot(dec, x.k), x.alpha * Dot(S, x.k))
  BY <1>2, <1>3, <1>4, <1>5, <1>6, <1>7, <1>8
<1> QED BY <1>9 DEF r, dec, w

\* DeltaChunk with its recursive function u spelled out.
Write(S, xs, u, i) ==
  (xs[i].beta * (xs[i].v - Product([l \in 1..i |-> xs[l].alpha]) * Dot(S, xs[i].k)
     - Sum([j \in 1..(i - 1) |-> Ratio(xs, i, j) * Dot(xs[j].k, xs[i].k) * u[j]]))) % P
Writes(S, xs) == CHOOSE u : u = [i \in 1..Len(xs) |-> Write(S, xs, u, i)]

\* DeltaChunk with the name for its recursive function.
LEMMA DeltaChunkIs ==
  ASSUME NEW S, NEW xs
  PROVE  LET C == Len(xs)
             p(i) == Product([l \in 1..i |-> xs[l].alpha])
             u == Writes(S, xs)
         IN  DeltaChunk(S, xs) =
             [S |-> [c \in DOMAIN S |->
               (p(C) * S[c] + Sum([j \in 1..C |-> Ratio(xs, C, j) * u[j] * xs[j].k[c]])) % P],
              out |-> [i \in 1..C |->
                 (p(i) * Dot(S, xs[i].q)
                    + Sum([j \in 1..i |->
                             Ratio(xs, i, j) * Dot(xs[j].k, xs[i].q) * u[j]])) % P]]
BY DEF DeltaChunk, Writes, Write

\* h holds the states before and after each of the steps of xs.
ScanOf(h, xs, C, K) ==
  /\ IsFiniteSet(K) /\ C \in Nat \ {0} /\ Len(xs) = C
  /\ \A i \in 1..C : DeltaIn(xs[i], K)
  /\ h[0] \in [K -> Int] /\ \A i \in 1..C : h[i] = DeltaStep(h[i - 1], xs[i]).S

Alphas(xs) == [i \in 1..Len(xs) |-> xs[i].alpha]
Wrote(h, xs) == [i \in 1..Len(xs) |-> Brought(h[i - 1], xs[i]) % P]

\* Every state of a scan is a vector of integers.
LEMMA ScanTypes ==
  ASSUME NEW h, NEW xs, NEW C, NEW K, ScanOf(h, xs, C, K)
  PROVE  /\ \A i \in 0..C : h[i] \in [K -> Int]
         /\ Alphas(xs) \in [1..C -> Int] /\ Wrote(h, xs) \in [1..C -> Int]
         /\ \A i \in 1..C : h[i - 1] \in [K -> Int] /\ DeltaIn(xs[i], K)
<1> DEFINE I == {i \in Nat : i <= C => h[i] \in [K -> Int]}
<1>1. 0 \in I
  BY DEF ScanOf
<1>2. ASSUME NEW n \in Nat, n \in I PROVE n + 1 \in I
  <2> SUFFICES ASSUME n + 1 <= C PROVE h[n + 1] \in [K -> Int]
    OBVIOUS
  <2>1. n + 1 \in 1..C /\ (n + 1) - 1 = n /\ h[n] \in [K -> Int]
    BY <1>2 DEF ScanOf
  <2>2. h[n + 1] = DeltaStep(h[n], xs[n + 1]).S /\ DeltaIn(xs[n + 1], K) /\ IsFiniteSet(K)
    BY <2>1 DEF ScanOf
  <2> HIDE DEF I
  <2> QED BY <2>1, <2>2, DeltaStepIs
<1>3. \A i \in Nat : i \in I
  <2> HIDE DEF I
  <2> QED BY <1>1, <1>2, Sums!NatInd
<1>4. \A i \in 0..C : h[i] \in [K -> Int]
  BY <1>3 DEF ScanOf
<1>5. \A i \in 1..C : h[i - 1] \in [K -> Int] /\ DeltaIn(xs[i], K)
  BY <1>4 DEF ScanOf
<1>6. Alphas(xs) \in [1..C -> Int]
  BY DEF ScanOf, Alphas, DeltaIn
<1>7. ASSUME NEW i \in 1..C PROVE Brought(h[i - 1], xs[i]) % P \in Int
  <2>1. IsFiniteSet(K)
    BY DEF ScanOf
  <2> QED BY <1>5, <2>1, DeltaStepIs
<1>8. Wrote(h, xs) \in [1..C -> Int]
  BY <1>7 DEF Wrote, ScanOf
<1> QED BY <1>4, <1>5, <1>6, <1>8

\* The products with a vector y, of the states and of the keys.
StateDots(h, C, y) == [n \in 0..C |-> Dot(h[n], y)]
KeyDots(xs, y) == [j \in 1..Len(xs) |-> Dot(xs[j].k, y)]

\* The states of a scan seen through y: the first one decayed, and what is left of the writes.
LEMMA ScanDots ==
  ASSUME NEW h, NEW xs, NEW C, NEW K, ScanOf(h, xs, C, K), NEW y \in [K -> Int]
  PROVE  LET f == StateDots(h, C, y)
             z == KeyDots(xs, y)
         IN  /\ f \in [0..C -> Int] /\ z \in [1..C -> Int]
             /\ \A i \in 0..C : Agree(f[i], Decay(Alphas(xs), 1, i) * f[0]
                                              + Left(Alphas(xs), Wrote(h, xs), z, i, i))
<1> DEFINE f == StateDots(h, C, y)
           z == KeyDots(xs, y)
           al == Alphas(xs)
           w == Wrote(h, xs)
<1>1. \A a, b \in [K -> Int] : Dot(a, b) \in Int
  BY DotIs DEF ScanOf
<1>2. f \in [0..C -> Int]
  BY <1>1, ScanTypes DEF StateDots
<1>3. z \in [1..C -> Int]
  BY <1>1 DEF KeyDots, ScanOf, DeltaIn
<1>4. ASSUME NEW i \in 1..C PROVE Agree(f[i], al[i] * f[i - 1] + w[i] * z[i])
  <2>1. IsFiniteSet(K) /\ h[i - 1] \in [K -> Int] /\ DeltaIn(xs[i], K)
    BY ScanTypes DEF ScanOf
  <2>2. h[i] = DeltaStep(h[i - 1], xs[i]).S
    BY DEF ScanOf
  <2>3. Agree(Dot(h[i], y), xs[i].alpha * Dot(h[i - 1], y)
                              + (Brought(h[i - 1], xs[i]) % P) * Dot(xs[i].k, y))
    BY <2>1, <2>2, DeltaStepIs
  <2>4. f[i] = Dot(h[i], y) /\ f[i - 1] = Dot(h[i - 1], y)
    <3>1. i \in 0..C /\ i - 1 \in 0..C
      BY DEF ScanOf
    <3> QED BY <3>1 DEF StateDots
  <2>5. al[i] = xs[i].alpha /\ w[i] = Brought(h[i - 1], xs[i]) % P /\ z[i] = Dot(xs[i].k, y)
    BY DEF Alphas, Wrote, KeyDots, ScanOf
  <2> QED BY <2>3, <2>4, <2>5
<1>5. C \in Nat /\ C \in 0..C /\ al \in [1..C -> Int] /\ w \in [1..C -> Int]
  <2>1. C \in Nat /\ C \in 0..C
    BY DEF ScanOf
  <2> QED BY <2>1, ScanTypes
<1> HIDE DEF f, z, al, w
<1>6. \A j \in 1..C : w[j] \in Int
  BY <1>5
<1>7. \A i \in 0..C : Agree(f[i], Decay(al, 1, i) * f[0] + Left(al, w, z, i, i))
  BY <1>2, <1>3, <1>4, <1>5, <1>6, Scanned
<1> QED BY <1>2, <1>3, <1>7 DEF f, z, al, w

\* The terms in the order in which the code multiplies them.
Reached(xs, u, i, n, y) ==
  Sum([j \in 1..n |-> Ratio(xs, i, j) * Dot(xs[j].k, y) * u[j]])

\* The sums of DeltaChunk are the ones above.
LEMMA RatioTerms ==
  ASSUME NEW h, NEW xs, NEW C, NEW K, ScanOf(h, xs, C, K), NEW y \in [K -> Int],
         NEW i \in 0..C, NEW n \in 0..C
  PROVE  /\ Product([l \in 1..i |-> xs[l].alpha]) = Decay(Alphas(xs), 1, i)
         /\ Reached(xs, Wrote(h, xs), i, n, y)
              = Left(Alphas(xs), Wrote(h, xs), KeyDots(xs, y), i, n)
<1> DEFINE al == Alphas(xs)
           w == Wrote(h, xs)
           z == KeyDots(xs, y)
<1>1. \A j \in 1..C : al[j] = xs[j].alpha
  BY DEF Alphas, ScanOf
<1>2. [l \in 1..i |-> xs[l].alpha] = [l \in 1..i |-> al[l]]
  BY <1>1 DEF ScanOf
<1>3. ASSUME NEW j \in 1..n
      PROVE  Ratio(xs, i, j) * Dot(xs[j].k, y) * w[j] = Term(al, w, z, i)[j]
  <2>1. [l \in (j + 1)..i |-> xs[l].alpha] = [l \in (j + 1)..i |-> al[l]]
    BY <1>1 DEF ScanOf
  <2>2. Ratio(xs, i, j) = Decay(al, j + 1, i)
    BY <2>1 DEF Ratio, Decay
  <2>3. j \in 1..C /\ C \in Nat
    BY DEF ScanOf
  <2>4. z[j] = Dot(xs[j].k, y) /\ j \in DOMAIN z
    BY <2>3 DEF KeyDots, ScanOf
  <2>5. z \in [1..C -> Int] /\ w \in [1..C -> Int] /\ al \in [1..C -> Int]
    BY ScanDots, ScanTypes
  <2>6. j + 1 \in Int /\ i \in Int /\ \A l \in (j + 1)..i : al[l] \in Int
    BY <2>3, <2>5
  <2>7. z[j] \in Int /\ w[j] \in Int /\ Decay(al, j + 1, i) \in Int
    BY <2>3, <2>5, <2>6, DecayType
  <2>8. Term(al, w, z, i)[j] = Decay(al, j + 1, i) * w[j] * z[j]
    BY <2>4 DEF Term
  <2> HIDE DEF al, w, z
  <2> QED BY <2>2, <2>4, <2>7, <2>8
<1>4. [j \in 1..n |-> Ratio(xs, i, j) * Dot(xs[j].k, y) * w[j]] = UpTo(Term(al, w, z, i), n)
  BY <1>3 DEF UpTo
<1> QED BY <1>2, <1>4 DEF Decay, Left, Reached

\* What the steps wrote is what forward substitution finds.
LEMMA WroteIs ==
  ASSUME NEW h, NEW xs, NEW C, NEW K, ScanOf(h, xs, C, K), NEW i \in 1..C
  PROVE  Wrote(h, xs)[i] = Write(h[0], xs, Wrote(h, xs), i)
<1> DEFINE al == Alphas(xs)
           w == Wrote(h, xs)
           y == xs[i].k
           f == StateDots(h, C, y)
           z == KeyDots(xs, y)
           m == i - 1
<1>1. /\ C \in Nat /\ m \in 0..C /\ i \in 0..C /\ i \in Int /\ m \in Int
      /\ IsFiniteSet(K) /\ DeltaIn(xs[i], K) /\ y \in [K -> Int] /\ h[m] \in [K -> Int]
      /\ 0 \in 0..C
  <2>1. C \in Nat /\ IsFiniteSet(K)
    BY DEF ScanOf
  <2>2. DeltaIn(xs[i], K) /\ h[i - 1] \in [K -> Int]
    BY ScanTypes
  <2> QED BY <2>1, <2>2 DEF DeltaIn
<1>2. /\ al \in [1..C -> Int] /\ w \in [1..C -> Int]
      /\ f \in [0..C -> Int] /\ z \in [1..C -> Int]
      /\ Agree(f[m], Decay(al, 1, m) * f[0] + Left(al, w, z, m, m))
  <2>1. al \in [1..C -> Int] /\ w \in [1..C -> Int]
    BY ScanTypes
  <2>2. /\ f \in [0..C -> Int] /\ z \in [1..C -> Int]
        /\ \A n \in 0..C : Agree(f[n], Decay(al, 1, n) * f[0] + Left(al, w, z, n, n))
    BY <1>1, ScanDots
  <2> HIDE DEF f, z, al, w, m, y
  <2> QED BY <1>1, <2>1, <2>2
<1>3. Agree(al[i] * f[m], Decay(al, 1, i) * f[0] + Left(al, w, z, i, m))
  <2>1. f[m] \in Int /\ f[0] \in Int /\ \A j \in 1..(i - 1) : w[j] \in Int
    <3> HIDE DEF f, w
    <3>1. \A j \in 1..(i - 1) : j \in 1..C
      BY <1>1
    <3> QED BY <1>1, <1>2, <3>1
  <2> HIDE DEF f, z, al, w, y
  <2> QED BY <1>1, <1>2, <2>1, Carried
<1>4. f[m] = Dot(h[m], y) /\ f[0] = Dot(h[0], y) /\ al[i] = xs[i].alpha
  BY <1>1 DEF StateDots, Alphas, ScanOf
<1> DEFINE D == Dot(Scale(h[m], xs[i].alpha), y)
           p == Decay(al, 1, i)
           t == Left(al, w, z, i, m)
           s == f[0]
           v == xs[i].v
           b == xs[i].beta
<1>5. Agree(D, p * s + t)
  <2>1. Agree(D, xs[i].alpha * Dot(h[m], y))
    BY <1>1, DeltaStepIs
  <2> QED BY <1>3, <1>4, <2>1 DEF Agree
<1>6. p \in Int /\ s \in Int /\ t \in Int /\ v \in Int /\ b \in Int /\ D \in Int
  <2>1. p \in Int
    <3>1. 1 \in Int /\ i \in Int /\ \A l \in 1..i : al[l] \in Int
      BY <1>1, <1>2
    <3> HIDE DEF al
    <3> QED BY <3>1, DecayType
  <2>2. t \in Int
    <3>1. \A j \in 1..m : w[j] \in Int
      BY <1>1, <1>2
    <3> HIDE DEF al, w, z, m
    <3> QED BY <1>1, <1>2, <3>1, LeftType
  <2>3. s \in Int
    BY <1>1, <1>2
  <2>4. v \in Int /\ b \in Int
    BY <1>1 DEF DeltaIn
  <2>5. D \in Int
    <3>1. \A c \in K : (xs[i].alpha * h[m][c]) \in Int
      BY <1>1 DEF DeltaIn
    <3>2. Scale(h[m], xs[i].alpha) \in [K -> Int]
      BY <1>1, <3>1, ResidueOf DEF Scale
    <3>3. \A a, c \in [K -> Int] : Dot(a, c) \in Int
      BY <1>1, DotIs
    <3> QED BY <1>1, <3>2, <3>3
  <2> QED BY <2>1, <2>2, <2>3, <2>4, <2>5
<1>7. w[i] = (b * (v - D)) % P
  BY DEF Wrote, Brought, ScanOf
<1>8. Write(h[0], xs, w, i) = (b * (v - p * s - t)) % P
  <2>1. Product([l \in 1..i |-> xs[l].alpha]) = p
    BY <1>1, RatioTerms
  <2>2. Reached(xs, w, i, m, y) = t
    BY <1>1, RatioTerms
  <2> QED BY <1>4, <2>1, <2>2 DEF Write, Reached
<1> HIDE DEF D, p, t, s, v, b
<1>9. Agree(b * (v - D), b * (v - p * s - t))
  <2>1. p * s \in Int /\ p * s + t \in Int
    BY <1>6
  <2>2. Agree((-1) * D, (-1) * (p * s + t))
    BY <1>5, <1>6, <2>1, AgreeScale
  <2>3. Agree(v + (-1) * D, v + (-1) * (p * s + t))
    <3>1. (-1) * D \in Int /\ (-1) * (p * s + t) \in Int /\ Agree(v, v)
      BY <1>6, <2>1 DEF Agree
    <3> QED BY <1>6, <2>2, <3>1, AgreeAdd
  <2>4. v + (-1) * D = v - D /\ v + (-1) * (p * s + t) = v - p * s - t
    BY <1>6, <2>1
  <2>5. Agree(v - D, v - p * s - t) /\ v - D \in Int /\ v - p * s - t \in Int
    BY <1>6, <2>1, <2>3, <2>4
  <2> QED BY <1>6, <2>5, AgreeScale
<1> QED BY <1>7, <1>8, <1>9 DEF Agree

\* Forward substitution has one solution, the writes of the steps.
LEMMA WritesAre ==
  ASSUME NEW h, NEW xs, NEW C, NEW K, ScanOf(h, xs, C, K)
  PROVE  Writes(h[0], xs) = Wrote(h, xs)
<1> DEFINE w == Wrote(h, xs)
           u == Writes(h[0], xs)
           S == h[0]
<1>1. C \in Nat /\ Len(xs) = C /\ DOMAIN w = 1..C
  BY DEF ScanOf, Wrote
<1>2. w = [i \in 1..Len(xs) |-> Write(S, xs, w, i)]
  <2>1. \A i \in 1..C : w[i] = Write(S, xs, w, i)
    BY WroteIs
  <2>2. w = [i \in 1..C |-> w[i]]
    BY <1>1 DEF Wrote
  <2> HIDE DEF w, S
  <2> QED BY <1>1, <2>1, <2>2
<1>3. u = [i \in 1..Len(xs) |-> Write(S, xs, u, i)]
  <2> HIDE DEF w, S
  <2> QED BY <1>2 DEF Writes, S
<1> DEFINE I == {n \in Nat : n <= C => \A j \in 1..n : u[j] = w[j]}
<1>4. 0 \in I
  OBVIOUS
<1>5. ASSUME NEW n \in Nat, n \in I PROVE n + 1 \in I
  <2> SUFFICES ASSUME n + 1 <= C PROVE \A j \in 1..(n + 1) : u[j] = w[j]
    OBVIOUS
  <2> HIDE DEF u, w, S
  <2>1. (\A j \in 1..n : u[j] = w[j]) /\ n + 1 \in 1..C /\ (n + 1) - 1 = n
    BY <1>1, <1>5
  <2>2. u[n + 1] = Write(S, xs, u, n + 1) /\ w[n + 1] = Write(S, xs, w, n + 1)
    <3>1. n + 1 \in 1..Len(xs)
      BY <1>1, <2>1
    <3> QED BY <1>2, <1>3, <3>1
  <2>3. [j \in 1..n |-> Ratio(xs, n + 1, j) * Dot(xs[j].k, xs[n + 1].k) * u[j]]
          = [j \in 1..n |-> Ratio(xs, n + 1, j) * Dot(xs[j].k, xs[n + 1].k) * w[j]]
    BY <2>1
  <2>4. Write(S, xs, u, n + 1) = Write(S, xs, w, n + 1)
    BY <2>1, <2>3 DEF Write
  <2> QED BY <2>1, <2>2, <2>4
<1>6. \A n \in Nat : n \in I
  <2> HIDE DEF I
  <2> QED BY <1>4, <1>5, Sums!NatInd
<1>7. \A j \in 1..C : u[j] = w[j]
  <2> HIDE DEF u, w
  <2> QED BY <1>1, <1>6
<1>8. u = [j \in 1..C |-> u[j]] /\ w = [j \in 1..C |-> w[j]]
  <2> HIDE DEF u, w, S
  <2>1. DOMAIN u = 1..C /\ DOMAIN w = 1..C
    BY <1>1, <1>2, <1>3
  <2> QED BY <1>1, <1>2, <1>3, <2>1
<1> QED BY <1>7, <1>8

\* One chunk does what its steps do.
LEMMA ChunkScan ==
  ASSUME NEW h, NEW xs, NEW C, NEW K, ScanOf(h, xs, C, K)
  PROVE  DeltaChunk(h[0], xs) =
           [S |-> h[C], out |-> [i \in 1..C |-> DeltaStep(h[i - 1], xs[i]).out]]
<1> DEFINE al == Alphas(xs)
           w == Wrote(h, xs)
           S0 == h[0]
           p(i) == Product([l \in 1..i |-> xs[l].alpha])
           entry(c) == (p(C) * S0[c] + Sum([j \in 1..C |-> Ratio(xs, C, j) * w[j] * xs[j].k[c]])) % P
           output(i) == (p(i) * Dot(S0, xs[i].q) + Reached(xs, w, i, i, xs[i].q)) % P
<1>1. /\ C \in Nat /\ C > 0 /\ C \in 0..C /\ C \in 1..C /\ 0 \in 0..C /\ IsFiniteSet(K)
      /\ al \in [1..C -> Int] /\ w \in [1..C -> Int] /\ S0 \in [K -> Int] /\ Len(xs) = C
  <2>1. C \in Nat \ {0} /\ Len(xs) = C /\ IsFiniteSet(K) /\ S0 \in [K -> Int]
    BY DEF ScanOf
  <2>2. al \in [1..C -> Int] /\ w \in [1..C -> Int]
    BY ScanTypes
  <2> HIDE DEF al, w, S0
  <2> QED BY <2>1, <2>2
<1>2. DeltaChunk(S0, xs) = [S |-> [c \in K |-> entry(c)], out |-> [i \in 1..C |-> output(i)]]
  <2>1. DOMAIN S0 = K /\ Writes(S0, xs) = w
    BY <1>1, WritesAre
  <2> QED BY <1>1, <2>1, DeltaChunkIs DEF Reached
<1>3. ASSUME NEW i \in 0..C PROVE p(i) = Decay(al, 1, i) /\ p(i) \in Int
  <2>1. [l \in 1..i |-> xs[l].alpha] = [l \in 1..i |-> al[l]]
    BY <1>1 DEF Alphas
  <2>2. 1 \in Int /\ i \in Int /\ \A l \in 1..i : al[l] \in Int
    BY <1>1
  <2> HIDE DEF al
  <2> QED BY <2>1, <2>2, DecayType DEF Decay
<1>4. ASSUME NEW c \in K PROVE entry(c) = h[C][c]
  <2> DEFINE f == [n \in 0..C |-> h[n][c]]
             z == [j \in 1..C |-> xs[j].k[c]]
  <2>1. f \in [0..C -> Int]
    BY ScanTypes
  <2>2. z \in [1..C -> Int]
    BY DEF ScanOf, DeltaIn
  <2>3. ASSUME NEW i \in 1..C
        PROVE  Agree(f[i], al[i] * f[i - 1] + w[i] * z[i]) /\ h[i][c] % P = h[i][c]
    <3>1. IsFiniteSet(K) /\ h[i - 1] \in [K -> Int] /\ DeltaIn(xs[i], K)
      BY <1>1, ScanTypes
    <3>2. h[i] = DeltaStep(h[i - 1], xs[i]).S
      BY DEF ScanOf
    <3>3. /\ Agree(h[i][c], xs[i].alpha * h[i - 1][c] + (Brought(h[i - 1], xs[i]) % P) * xs[i].k[c])
          /\ h[i][c] % P = h[i][c]
      BY <3>1, <3>2, DeltaStepIs
    <3>4. i \in 0..C /\ i - 1 \in 0..C
      BY <1>1
    <3>5. f[i] = h[i][c] /\ f[i - 1] = h[i - 1][c] /\ z[i] = xs[i].k[c]
      BY <3>4
    <3>6. al[i] = xs[i].alpha /\ w[i] = Brought(h[i - 1], xs[i]) % P
      BY <1>1 DEF Alphas, Wrote
    <3> QED BY <3>3, <3>5, <3>6
  <2>4. \A j \in 1..C : w[j] \in Int
    BY <1>1
  <2>5. Agree(f[C], Decay(al, 1, C) * f[0] + Left(al, w, z, C, C))
    <3> HIDE DEF f, z, al, w
    <3> QED BY <1>1, <2>1, <2>2, <2>3, <2>4, Scanned
  <2>6. Sum([j \in 1..C |-> Ratio(xs, C, j) * w[j] * xs[j].k[c]]) = Left(al, w, z, C, C)
    <3>1. ASSUME NEW j \in 1..C
          PROVE  Ratio(xs, C, j) * w[j] * xs[j].k[c] = Term(al, w, z, C)[j]
      <4>1. [l \in (j + 1)..C |-> xs[l].alpha] = [l \in (j + 1)..C |-> al[l]]
        BY <1>1 DEF Alphas
      <4>2. Ratio(xs, C, j) = Decay(al, j + 1, C)
        BY <4>1 DEF Ratio, Decay
      <4> QED BY <4>2 DEF Term
    <3>2. [j \in 1..C |-> Ratio(xs, C, j) * w[j] * xs[j].k[c]] = UpTo(Term(al, w, z, C), C)
      BY <3>1 DEF UpTo
    <3> QED BY <3>2 DEF Left
  <2>7. h[C][c] % P = h[C][c] /\ f[C] = h[C][c] /\ f[0] = S0[c]
    BY <1>1, <2>3
  <2>8. p(C) = Decay(al, 1, C)
    BY <1>1, <1>3
  <2> HIDE DEF f, z, al, w, p, S0
  <2> QED BY <2>5, <2>6, <2>7, <2>8 DEF Agree
<1>5. ASSUME NEW i \in 1..C PROVE output(i) = DeltaStep(h[i - 1], xs[i]).out
  <2> DEFINE y == xs[i].q
             f == StateDots(h, C, y)
             z == KeyDots(xs, y)
  <2>1. DeltaIn(xs[i], K) /\ h[i - 1] \in [K -> Int] /\ h[i] = DeltaStep(h[i - 1], xs[i]).S
        /\ i \in 0..C /\ h[i] \in [K -> Int]
    <3>1. i \in 0..C
      BY <1>1
    <3> QED BY <3>1, ScanTypes DEF ScanOf
  <2>2. y \in [K -> Int]
    BY <2>1 DEF DeltaIn
  <2>3. /\ f \in [0..C -> Int] /\ z \in [1..C -> Int]
        /\ Agree(f[i], Decay(al, 1, i) * f[0] + Left(al, w, z, i, i))
    <3> HIDE DEF y
    <3> QED BY <2>1, <2>2, ScanDots
  <2>4. Reached(xs, w, i, i, y) = Left(al, w, z, i, i)
    <3> HIDE DEF y
    <3> QED BY <2>1, <2>2, RatioTerms
  <2>5. f[i] = Dot(h[i], y) /\ f[0] = Dot(S0, y)
    BY <1>1, <2>1 DEF StateDots
  <2>6. DeltaStep(h[i - 1], xs[i]).out = Dot(h[i], y)
    <3>1. \A S, x : DeltaStep(S, x).out = Dot(DeltaStep(S, x).S, x.q)
      BY DEF DeltaStep
    <3> QED BY <2>1, <3>1
  <2>7. Dot(h[i], y) \in 0..(P - 1)
    <3>1. \A a, b \in [K -> Int] : Dot(a, b) \in 0..(P - 1)
      BY <1>1, DotIs
    <3> HIDE DEF y
    <3> QED BY <2>1, <2>2, <3>1
  <2>8. p(i) = Decay(al, 1, i)
    BY <1>3, <2>1
  <2>9. \A r \in 0..(P - 1) : r % P = r
    BY PrimeAssumption
  <2> HIDE DEF f, z, al, w, p, y, S0
  <2> QED BY <2>3, <2>4, <2>5, <2>6, <2>7, <2>8, <2>9 DEF Agree, y
<1>6. h[C] = [c \in K |-> h[C][c]]
  <2>1. h[C] \in [K -> Int]
    BY <1>1, ScanTypes
  <2> QED BY <2>1
<1> HIDE DEF entry, output
<1>7. [c \in K |-> entry(c)] = h[C]
  BY <1>4, <1>6
<1>8. [i \in 1..C |-> output(i)] = [i \in 1..C |-> DeltaStep(h[i - 1], xs[i]).out]
  BY <1>5
<1> QED BY <1>2, <1>7, <1>8

\* A piece of the prompt, from the state in front of it.
LEMMA SegmentScan ==
  ASSUME NEW h, NEW U, NEW xs \in Seq(U), NEW K, ScanOf(h, xs, Len(xs), K),
         NEW a \in 0..Len(xs), NEW b \in (a + 1)..Len(xs)
  PROVE  DeltaChunk(h[a], SubSeq(xs, a + 1, b)) =
           [S |-> h[b], out |-> [i \in 1..(b - a) |-> DeltaStep(h[(a + i) - 1], xs[a + i]).out]]
<1> DEFINE T == Len(xs)
           C == b - a
           piece == SubSeq(xs, a + 1, b)
           g == [j \in 0..C |-> h[a + j]]
<1>1. T \in Nat /\ a \in Nat /\ b \in Nat /\ C \in Nat \ {0} /\ a + C = b /\ a + 0 = a /\ b <= T
  OBVIOUS
<1>2. Len(piece) = C /\ \A j \in 1..C : piece[j] = xs[a + j]
  <2>1. a + 1 \in 1..T /\ b \in (a + 1)..T
    BY <1>1
  <2>2. Len(piece) = b - (a + 1) + 1 /\ \A j \in 1..(b - (a + 1) + 1) : piece[j] = xs[(a + 1) + j - 1]
    BY <2>1, SubSeqProperties
  <2>3. \A j \in 1..C : (a + 1) + j - 1 = a + j
    BY <1>1
  <2> QED BY <1>1, <2>2, <2>3
<1>3. \A j \in 1..C : a + j \in 1..T /\ g[j] = h[a + j] /\ g[j - 1] = h[(a + j) - 1]
  <2>1. \A j \in 1..C : j \in 0..C /\ j - 1 \in 0..C /\ a + (j - 1) = (a + j) - 1 /\ a + j \in 1..T
    BY <1>1
  <2> QED BY <2>1
<1>4. g[0] = h[a] /\ g[C] = h[b]
  BY <1>1
<1>5. ScanOf(g, piece, C, K)
  <2>1. IsFiniteSet(K) /\ h[a] \in [K -> Int]
    <3>1. \A i \in 0..T : h[i] \in [K -> Int]
      BY ScanTypes
    <3> QED BY <3>1 DEF ScanOf
  <2>2. ASSUME NEW j \in 1..C
        PROVE  DeltaIn(piece[j], K) /\ g[j] = DeltaStep(g[j - 1], piece[j]).S
    <3>1. DeltaIn(xs[a + j], K) /\ h[a + j] = DeltaStep(h[(a + j) - 1], xs[a + j]).S
      BY <1>3 DEF ScanOf
    <3> QED BY <1>2, <1>3, <3>1
  <2> HIDE DEF g, piece, C
  <2> QED BY <1>1, <1>2, <1>4, <2>1, <2>2 DEF ScanOf
<1>6. DeltaChunk(g[0], piece) =
        [S |-> g[C], out |-> [i \in 1..C |-> DeltaStep(g[i - 1], piece[i]).out]]
  <2> HIDE DEF g, piece, C
  <2> QED BY <1>5, ChunkScan
<1>7. [i \in 1..C |-> DeltaStep(g[i - 1], piece[i]).out]
        = [i \in 1..C |-> DeltaStep(h[(a + i) - 1], xs[a + i]).out]
  <2> HIDE DEF g, piece, C
  <2> QED BY <1>2, <1>3
<1> QED BY <1>4, <1>6, <1>7

PieceOp(p, a, piece) == LET r == DeltaChunk(a.S, piece) IN [S |-> r.S, out |-> a.out \o r.out]
PieceFold == INSTANCE FoldFacts WITH Op <- PieceOp

\* Division with rest.
LEMMA Division ==
  ASSUME NEW a \in Int, NEW b \in Nat, b > 0
  PROVE  a \div b \in Int /\ a % b \in 0..(b - 1) /\ a = b * (a \div b) + (a % b)
<1> DEFINE q == a \div b
           r == a % b
<1>1. q \in Int /\ r \in 0..(b - 1)
  OBVIOUS
<1>2. r = a - b * q
  OBVIOUS
<1> HIDE DEF q, r
<1>3. b * q \in Int
  BY <1>1
<1>4. a = b * q + r
  BY <1>1, <1>2, <1>3
<1> QED BY <1>1, <1>4 DEF q, r

\* The pieces start inside the prompt, and the last one reaches its end.
LEMMA PiecesCover ==
  ASSUME NEW T \in Nat, NEW ch \in 1..T
  PROVE  LET N == (T + ch - 1) \div ch
         IN  /\ N \in Nat /\ N * ch >= T
             /\ \A n \in 1..N : (n - 1) * ch < T /\ (n - 1) * ch \in Nat
<1> DEFINE N == (T + ch - 1) \div ch
<1>1. ch \in Nat /\ ch > 0 /\ T >= ch /\ T + ch - 1 \in Nat
  OBVIOUS
<1>2. N \in Int /\ T + ch - 1 = ch * N + ((T + ch - 1) % ch) /\ (T + ch - 1) % ch \in 0..(ch - 1)
  BY <1>1, Division
<1> HIDE DEF N
<1>3. ch * N >= T /\ ch * N <= T + ch - 1 /\ ch * N \in Int
  BY <1>1, <1>2
<1>4. N > 0
  <2>1. N <= 0 => ch * N <= 0
    BY <1>1, <1>2
  <2> QED BY <1>1, <1>2, <1>3, <2>1
<1>5. ASSUME NEW n \in 1..N PROVE (n - 1) * ch < T /\ (n - 1) * ch \in Nat
  <2>1. n - 1 \in Nat /\ n - 1 <= N - 1
    BY <1>2
  <2>2. (n - 1) * ch <= (N - 1) * ch /\ (n - 1) * ch \in Nat
    BY <1>1, <1>2, <2>1
  <2>3. (N - 1) * ch = ch * N - ch
    BY <1>1, <1>2
  <2> QED BY <1>1, <1>3, <2>2, <2>3
<1>6. N * ch = ch * N
  BY <1>1, <1>2
<1> QED BY <1>2, <1>3, <1>4, <1>5, <1>6 DEF N

\* The chunked scan of the gated delta rule returns the outputs and leaves the state
\* of its recurrent steps, for every chunk size and every prompt
\* (ornith_delta_prefill against ornith_delta_step).
THEOREM DeltaScan ==
  ASSUME NEW h, NEW U, NEW xs \in Seq(U), NEW K, ScanOf(h, xs, Len(xs), K), NEW chunk \in Int
  PROVE  DeltaPrefill(h[0], xs, chunk) =
           [S |-> h[Len(xs)], out |-> [i \in 1..Len(xs) |-> DeltaStep(h[i - 1], xs[i]).out]]
<1> DEFINE T == Len(xs)
           ch == ClampChunk(chunk, T)
           N == (T + ch - 1) \div ch
           ChunkEnd(n) == IF n * ch <= T THEN n * ch ELSE T
           o(i) == DeltaStep(h[i - 1], xs[i]).out
           g == [n \in 0..N |-> [S |-> h[ChunkEnd(n)], out |-> [i \in 1..ChunkEnd(n) |-> o(i)]]]
           ps == Pieces(xs, ch)
<1>1. T \in Nat \ {0} /\ ch \in 1..T
  BY DEF ScanOf, ClampChunk
<1>2. N \in Nat /\ N * ch >= T /\ \A n \in 1..N : (n - 1) * ch < T /\ (n - 1) * ch \in Nat
  <2> HIDE DEF ch, T
  <2> QED BY <1>1, PiecesCover
<1>3. DeltaPrefill(h[0], xs, chunk) = PieceFold!Fold(0, [S |-> h[0], out |-> << >>], ps)
  BY DEF DeltaPrefill, FoldLeft, MapThenFoldSet, PieceFold!Fold, PieceFold!FoldLeft,
         PieceFold!MapThenFoldSet, PieceOp, Max, PieceFold!Max
<1>4. ps = [n \in 1..N |-> SubSeq(xs, (n - 1) * ch + 1, ChunkEnd(n))]
  BY DEF Pieces
<1>5. PICK V : ps \in Seq(V)
  <2>1. ps \in Seq({ps[n] : n \in 1..N})
    <3> HIDE DEF N, ch, ChunkEnd
    <3>1. DOMAIN ps = 1..N /\ ps = [n \in 1..N |-> ps[n]]
      BY <1>4
    <3> HIDE DEF ps
    <3> QED BY <1>2, <3>1
  <2> QED BY <2>1
<1>6. Len(ps) = N
  <2> HIDE DEF ch, N, ChunkEnd
  <2> QED BY <1>2, <1>4
<1>7. ASSUME NEW n \in 1..N PROVE g[n] = PieceOp(0, g[n - 1], ps[n])
  <2> DEFINE a == (n - 1) * ch
             b == ChunkEnd(n)
  <2>1. a \in 0..T /\ b \in (a + 1)..T /\ ChunkEnd(n - 1) = a
    <3>1. a < T /\ a \in Nat /\ n * ch = a + ch
      <4>1. n \in Int /\ ch \in Int
        BY <1>1
      <4> QED BY <1>2, <4>1
    <3> HIDE DEF ch
    <3> QED BY <1>1, <3>1
  <2>2. ps[n] = SubSeq(xs, a + 1, b)
    BY <1>4
  <2>3. g[n - 1] = [S |-> h[a], out |-> [i \in 1..a |-> o(i)]]
    <3>1. n - 1 \in 0..N
      BY <1>2
    <3> HIDE DEF N, ch, ChunkEnd, o, a
    <3> QED BY <2>1, <3>1
  <2>4. g[n] = [S |-> h[b], out |-> [i \in 1..b |-> o(i)]]
    <3>1. n \in 0..N
      BY <1>2
    <3> HIDE DEF N, ch, ChunkEnd, o
    <3> QED BY <3>1
  <2>5. DeltaChunk(h[a], ps[n]) =
          [S |-> h[b], out |-> [i \in 1..(b - a) |-> o(a + i)]]
    <3> HIDE DEF a, b, ps, N, ch
    <3> QED BY <2>1, <2>2, SegmentScan
  <2>6. [i \in 1..a |-> o(i)] \o [i \in 1..(b - a) |-> o(a + i)] = [i \in 1..b |-> o(i)]
    <3> HIDE DEF ch, ChunkEnd, a, b, o
    <3>1. a \in Nat /\ b \in Nat /\ b >= a
      BY <1>1, <2>1
    <3>2. \A i \in 1..b : i > a => a + (i - a) = i
      BY <3>1
    <3> QED BY <3>1, <3>2
  <2>7. PieceOp(0, g[n - 1], ps[n]) =
          [S |-> DeltaChunk(h[a], ps[n]).S,
           out |-> [i \in 1..a |-> o(i)] \o DeltaChunk(h[a], ps[n]).out]
    <3> HIDE DEF a, b, ps, g, N, ch, ChunkEnd, o
    <3>1. PICK r : r = g[n - 1]
      OBVIOUS
    <3>2. PICK c : c = DeltaChunk(h[a], ps[n])
      OBVIOUS
    <3>3. r.S = h[a] /\ r.out = [i \in 1..a |-> o(i)]
      BY <2>3, <3>1
    <3>4. PieceOp(0, r, ps[n]) = [S |-> c.S, out |-> r.out \o c.out]
      BY <3>2, <3>3 DEF PieceOp
    <3> QED BY <3>1, <3>2, <3>3, <3>4
  <2>8. /\ DeltaChunk(h[a], ps[n]).S = h[b]
        /\ DeltaChunk(h[a], ps[n]).out = [i \in 1..(b - a) |-> o(a + i)]
    <3> HIDE DEF a, b, ps, g, N, ch, ChunkEnd, o
    <3> QED BY <2>5
  <2> HIDE DEF a, b, ps, g, N, ch, ChunkEnd, o
  <2> QED BY <2>4, <2>6, <2>7, <2>8
<1>8. g[0] = [S |-> h[0], out |-> << >>]
  <2>1. ChunkEnd(0) = 0 /\ 0 \in 0..N
    BY <1>1, <1>2
  <2> HIDE DEF N, ch, ChunkEnd, o
  <2>2. [i \in 1..0 |-> o(i)] = << >>
    OBVIOUS
  <2> QED BY <2>1, <2>2
<1>9. ChunkEnd(N) = T /\ N \in 0..N
  <2>1. N * ch \in Int
    BY <1>1, <1>2
  <2> HIDE DEF N, ch
  <2> QED BY <1>1, <1>2, <2>1
<1>10. g[N] = [S |-> h[T], out |-> [i \in 1..T |-> o(i)]]
  <2> HIDE DEF N, ch, ChunkEnd, o, T
  <2> QED BY <1>9
<1>11. PieceFold!Fold(0, g[0], ps) = g[N]
  <2> HIDE DEF g, ps, N
  <2> QED BY <1>5, <1>6, <1>7, PieceFold!FoldRun
<1> QED BY <1>3, <1>8, <1>10, <1>11

-----------------------------------------------------------------------------
(* Sampling: whatever is drawn is a token.                                   *)

PenaltyOp(p, l, t) == IF t \notin DOMAIN l THEN l
                      ELSE [l EXCEPT ![t] = IF l[t] > 0 THEN @ \div p.penalty ELSE @ * p.penalty]
Penalties == INSTANCE FoldFacts WITH Op <- PenaltyOp
WeightOp(lg, a, t) == a + Weight(lg, t)
Weights == INSTANCE FoldFacts WITH Op <- WeightOp

\* Sampler parameters, as sampling_params_from_json and the command line make them.
ParamType(p) == /\ p.inv_t \in Int /\ p.top_k \in Int /\ p.penalty \in Int /\ p.last_n \in Int
                /\ p.top_p[1] \in Int /\ p.top_p[2] \in Int
                /\ p.min_p[1] \in Int /\ p.min_p[2] \in Int

\* Finitely many numbered logits, one at least.
LogitType(l) == /\ IsFiniteSet(DOMAIN l) /\ DOMAIN l # {} /\ DOMAIN l \subseteq Int
                /\ l \in [DOMAIN l -> Int]

\* The repetition penalty keeps a vector of logits one, over the same tokens.
LEMMA PenalizedType ==
  ASSUME NEW l, LogitType(l), NEW p, ParamType(p), NEW V, NEW recent \in Seq(V)
  PROVE  LogitType(Penalize(l, p, recent)) /\ DOMAIN Penalize(l, p, recent) = DOMAIN l
<1> DEFINE D == DOMAIN l
           w == Window(recent, p.last_n)
<1>1. CASE p.penalty <= 1
  BY <1>1 DEF Penalize
<1>2. CASE p.penalty > 1
  <2>1. Penalize(l, p, recent) = Penalties!Fold(p, l, w)
    <3>1. ~(p.penalty <= 1)
      BY <1>2 DEF ParamType
    <3> QED BY <3>1 DEF Penalize, FoldLeft, MapThenFoldSet, Penalties!Fold, Penalties!FoldLeft,
         Penalties!MapThenFoldSet, PenaltyOp, Max, Penalties!Max
  <2>2. w \in Seq(V)
    <3>1. CASE p.last_n > 0 /\ p.last_n < Len(recent)
      <4>1. Len(recent) - p.last_n + 1 \in 1..Len(recent) /\ Len(recent) \in 1..Len(recent)
        BY <3>1 DEF ParamType
      <4> QED BY <3>1, <4>1, SubSeqProperties DEF Window
    <3>2. CASE ~(p.last_n > 0 /\ p.last_n < Len(recent))
      BY <3>2 DEF Window
    <3> QED BY <3>1, <3>2
  <2>3. PICK X : X = [D -> Int]
    OBVIOUS
  <2>4. ASSUME NEW x \in X, NEW t PROVE PenaltyOp(p, x, t) \in X
    <3>1. CASE t \notin D
      BY <2>3, <2>4, <3>1 DEF PenaltyOp
    <3>2. CASE t \in D
      <4>1. x[t] \in Int /\ p.penalty \in Int /\ p.penalty > 1
        BY <1>2, <2>3, <3>2 DEF ParamType
      <4>2. x[t] \div p.penalty \in Int /\ x[t] * p.penalty \in Int
        BY <4>1
      <4> QED BY <2>3, <3>2, <4>2 DEF PenaltyOp
    <3> QED BY <3>1, <3>2
  <2>5. l \in X /\ \A x \in X, k \in 1..Len(w) : PenaltyOp(p, x, w[k]) \in X
    BY <2>3, <2>4 DEF LogitType
  <2>6. Penalties!Fold(p, l, w) \in X
    <3> HIDE DEF w
    <3> QED BY <2>2, <2>5, Penalties!FoldKeeps
  <2> QED BY <2>1, <2>3, <2>6 DEF LogitType
<1> QED BY <1>1, <1>2 DEF ParamType

\* One of finitely many logits is the first of the largest.
LEMMA LargestExists ==
  ASSUME NEW l, LogitType(l), NEW free \in SUBSET DOMAIN l, free # {}
  PROVE  \E t \in free : \A o \in free : l[o] < l[t] \/ (l[o] = l[t] /\ t <= o)
<1> DEFINE Ok(f) == \E t \in f : \A o \in f : l[o] < l[t] \/ (l[o] = l[t] /\ t <= o)
           I == {n \in Nat : \A f \in SUBSET DOMAIN l : Cardinality(f) = n /\ f # {} => Ok(f)}
<1>0. /\ \A f \in SUBSET DOMAIN l : IsFiniteSet(f) /\ Cardinality(f) \in Nat
      /\ \A t \in DOMAIN l : t \in Int /\ l[t] \in Int
  BY FS_Subset, FS_CardinalityType DEF LogitType
<1>1. 0 \in I
  BY <1>0, FS_EmptySet
<1>2. ASSUME NEW n \in Nat, n \in I PROVE n + 1 \in I
  <2> SUFFICES ASSUME NEW f \in SUBSET DOMAIN l, Cardinality(f) = n + 1, f # {} PROVE Ok(f)
    OBVIOUS
  <2>1. PICK y \in f : TRUE
    OBVIOUS
  <2> DEFINE g == f \ {y}
  <2>2. g \in SUBSET DOMAIN l /\ IsFiniteSet(f)
    BY <1>0
  <2>3. Cardinality(g) = n
    <3>1. Cardinality(g) = Cardinality(f) - 1
      BY <2>1, <2>2, FS_RemoveElement
    <3> QED BY <3>1
  <2>4. CASE g = {}
    <3>1. f = {y}
      BY <2>1, <2>4
    <3> QED BY <1>0, <3>1
  <2>5. CASE g # {}
    <3>1. Ok(g)
      <4> HIDE DEF Ok, g
      <4> QED BY <1>2, <2>2, <2>3, <2>5
    <3>2. PICK t \in g : \A o \in g : l[o] < l[t] \/ (l[o] = l[t] /\ t <= o)
      BY <3>1
    <3>3. t \in Int /\ l[t] \in Int /\ y \in Int /\ l[y] \in Int
      BY <1>0, <2>1, <3>2
    <3>4. CASE l[y] < l[t] \/ (l[y] = l[t] /\ t <= y)
      BY <3>2, <3>4
    <3>5. CASE ~(l[y] < l[t] \/ (l[y] = l[t] /\ t <= y))
      <4>1. \A o \in g : o \in Int /\ l[o] \in Int
        BY <1>0
      <4>2. \A o \in f : l[o] < l[y] \/ (l[o] = l[y] /\ y <= o)
        BY <3>2, <3>3, <3>5, <4>1
      <4> QED BY <4>2
    <3> QED BY <3>4, <3>5
  <2> QED BY <2>4, <2>5
<1>3. Cardinality(free) \in I
  <2> HIDE DEF I
  <2> QED BY <1>0, <1>1, <1>2, Weights!NatInd
<1> QED BY <1>3

\* The greedy choice is a token, and none has a larger logit.
LEMMA ArgmaxIs ==
  ASSUME NEW l, LogitType(l)
  PROVE  Argmax(l) \in DOMAIN l /\ \A t \in DOMAIN l : l[t] <= l[Argmax(l)]
<1>1. \E t \in DOMAIN l : \A o \in DOMAIN l : l[o] < l[t] \/ (l[o] = l[t] /\ t <= o)
  BY LargestExists DEF LogitType
<1>2. /\ Argmax(l) \in DOMAIN l
      /\ \A o \in DOMAIN l : l[o] < l[Argmax(l)] \/ (l[o] = l[Argmax(l)] /\ Argmax(l) <= o)
  BY <1>1 DEF Argmax
<1>3. \A t \in DOMAIN l : l[t] \in Int
  BY DEF LogitType
<1> QED BY <1>2, <1>3

\* The ranking holds every token in its place.
LEMMA RankedIs ==
  ASSUME NEW l, LogitType(l)
  PROVE  /\ Ranked(l) \in Seq(DOMAIN l) /\ Len(Ranked(l)) = Cardinality(DOMAIN l)
         /\ Len(Ranked(l)) > 0
         /\ \A i \in 1..Len(Ranked(l)) : Cardinality(Ahead(l, Ranked(l)[i])) = i - 1
<1> DEFINE D == DOMAIN l
           n == Cardinality(D)
           r == [t \in D |-> Cardinality(Ahead(l, t))]
<1>1. n \in Nat /\ n > 0 /\ IsFiniteSet(D) /\ IsFiniteSet(0..(n - 1)) /\ Cardinality(0..(n - 1)) = n
  <2>1. n \in Nat /\ IsFiniteSet(D) /\ D # {}
    BY FS_CardinalityType DEF LogitType
  <2>2. n # 0
    BY <2>1, FS_EmptySet
  <2>3. IsFiniteSet(0..(n - 1)) /\ Cardinality(0..(n - 1)) = n
    <3> HIDE DEF n
    <3>1. 0 \in Int /\ n - 1 \in Int /\ ~(0 > n - 1) /\ (n - 1) - 0 + 1 = n
      BY <2>1, <2>2
    <3> QED BY <3>1, FS_Interval
  <2> QED BY <2>1, <2>2, <2>3
<1>0. \A t \in D : t \in Int /\ l[t] \in Int
  BY DEF LogitType
<1>2. ASSUME NEW t \in D
      PROVE  /\ IsFiniteSet(Ahead(l, t)) /\ Cardinality(Ahead(l, t)) \in 0..(n - 1)
             /\ t \notin Ahead(l, t)
  <2>1. Ahead(l, t) \in SUBSET (D \ {t}) /\ t \notin Ahead(l, t)
    BY <1>0 DEF Ahead
  <2>2. IsFiniteSet(D \ {t}) /\ Cardinality(D \ {t}) = n - 1
    BY <1>1, FS_RemoveElement
  <2>3. IsFiniteSet(Ahead(l, t)) /\ Cardinality(Ahead(l, t)) <= n - 1
    BY <2>1, <2>2, FS_Subset
  <2>4. Cardinality(Ahead(l, t)) \in Nat
    BY <2>3, FS_CardinalityType
  <2> HIDE DEF n
  <2> QED BY <1>1, <2>1, <2>3, <2>4
<1>3. ASSUME NEW t \in D, NEW u \in D, t \in Ahead(l, u)
      PROVE  Cardinality(Ahead(l, t)) < Cardinality(Ahead(l, u))
  <2>1. Ahead(l, t) \cup {t} \in SUBSET Ahead(l, u)
    BY <1>0, <1>3 DEF Ahead
  <2>2. Cardinality(Ahead(l, t) \cup {t}) = Cardinality(Ahead(l, t)) + 1
    BY <1>2, FS_AddElement
  <2>3. Cardinality(Ahead(l, t) \cup {t}) <= Cardinality(Ahead(l, u))
    BY <1>2, <2>1, FS_Subset
  <2>4. Cardinality(Ahead(l, t)) \in Int /\ Cardinality(Ahead(l, u)) \in Int
    BY <1>2
  <2> QED BY <2>2, <2>3, <2>4
<1>4. r \in Injection(D, 0..(n - 1))
  <2>1. r \in [D -> 0..(n - 1)]
    BY <1>2
  <2>2. ASSUME NEW t \in D, NEW u \in D, t # u PROVE r[t] # r[u]
    <3>1. t \in Ahead(l, u) \/ u \in Ahead(l, t)
      BY <1>0, <2>2 DEF Ahead
    <3>2. Cardinality(Ahead(l, t)) \in Int /\ Cardinality(Ahead(l, u)) \in Int
      BY <1>2
    <3> QED BY <1>3, <3>1, <3>2
  <2> HIDE DEF r
  <2>3. \A t, u \in DOMAIN r : r[t] = r[u] => t = u
    BY <2>1, <2>2
  <2> QED BY <2>1, <2>3 DEF Injection, IsInjective
<1>5. r \in Surjection(D, 0..(n - 1))
  <2> HIDE DEF r
  <2> QED BY <1>1, <1>4, FS_Injection
<1>6. \A k \in 0..(n - 1) : \E t \in D : Cardinality(Ahead(l, t)) = k
  <2>1. \A k \in 0..(n - 1) : \E t \in D : r[t] = k
    <3> HIDE DEF r
    <3> QED BY <1>5 DEF Surjection
  <2> QED BY <2>1
<1>7. ASSUME NEW i \in 1..n
      PROVE  Ranked(l)[i] \in D /\ Cardinality(Ahead(l, Ranked(l)[i])) = i - 1
  <2>1. i - 1 \in 0..(n - 1)
    BY <1>1
  <2>2. \E t \in D : Cardinality(Ahead(l, t)) = i - 1
    BY <1>6, <2>1
  <2> QED BY <2>2 DEF Ranked
<1>8. Ranked(l) \in Seq(D) /\ Len(Ranked(l)) = n
  <2>1. DOMAIN Ranked(l) = 1..n /\ Ranked(l) = [i \in 1..n |-> Ranked(l)[i]]
    BY DEF Ranked
  <2> HIDE DEF n
  <2> QED BY <1>1, <1>7, <2>1
<1> HIDE DEF n
<1> QED BY <1>1, <1>7, <1>8 DEF n

\* Candidates: some tokens, one at least.
Cands(c, D) == c \in Seq(D) /\ Len(c) > 0

\* The weight of a token is a number, ...
LEMMA WeightIs ==
  ASSUME NEW l, LogitType(l), NEW t \in DOMAIN l
  PROVE  Weight(l, t) \in Nat
<1>1. l[Argmax(l)] \in Int /\ l[t] \in Int /\ l[t] <= l[Argmax(l)]
  BY ArgmaxIs DEF LogitType
<1> DEFINE d == 1 + l[Argmax(l)] - l[t]
<1>2. d \in Nat /\ d > 0
  BY <1>1
<1> HIDE DEF d
<1>3. 64 \div d \in Nat
  BY <1>2
<1> QED BY <1>3 DEF Weight, d

\* ... and so is that of a sequence of tokens.
LEMMA WeightOfIs ==
  ASSUME NEW l, LogitType(l), NEW c \in Seq(DOMAIN l)
  PROVE  WeightOf(l, c) \in Nat
<1>1. WeightOf(l, c) = Weights!Fold(l, 0, c)
  BY DEF WeightOf, FoldLeft, MapThenFoldSet, Weights!Fold, Weights!FoldLeft,
         Weights!MapThenFoldSet, WeightOp, Max, Weights!Max
<1>2. PICK X : X = Nat
  OBVIOUS
<1>3. 0 \in X /\ \A x \in X, k \in 1..Len(c) : WeightOp(l, x, c[k]) \in X
  <2>1. \A k \in 1..Len(c) : Weight(l, c[k]) \in Nat
    BY WeightIs
  <2> QED BY <1>2, <2>1 DEF WeightOp
<1>4. Weights!Fold(l, 0, c) \in X
  BY <1>3, Weights!FoldKeeps
<1> QED BY <1>1, <1>2, <1>4

\* The least of some positions is one of them.
LEMMA MinIs ==
  ASSUME NEW n \in Nat, NEW T \in SUBSET (1..n), T # {}
  PROVE  Min(T) \in T /\ \A x \in T : Min(T) <= x
<1>1. T \in SUBSET Nat
  OBVIOUS
<1>2. \E m \in T : \A k \in T : m <= k
  BY <1>1, Weights!LeastNumber
<1> QED BY <1>2 DEF Min

\* Each filter keeps a first part of the candidates, never none of them:
LEMMA PrefixCands ==
  ASSUME NEW D, NEW c, Cands(c, D), NEW n \in 1..Len(c)
  PROVE  Cands(SubSeq(c, 1, n), D) /\ SubSeq(c, 1, n) \in Seq(D) /\ Len(SubSeq(c, 1, n)) = n
BY SubSeqProperties DEF Cands

\* top-k, ...
LEMMA TopKCands ==
  ASSUME NEW D, NEW c, Cands(c, D), NEW k \in Int
  PROVE  Cands(TopK(c, k), D)
<1>1. CASE k > 0 /\ k < Len(c)
  <2>1. k \in 1..Len(c)
    BY <1>1 DEF Cands
  <2> QED BY <1>1, <2>1, PrefixCands DEF TopK
<1>2. CASE ~(k > 0 /\ k < Len(c))
  BY <1>2 DEF TopK
<1> QED BY <1>1, <1>2

\* ... top-p, ...
LEMMA TopPCands ==
  ASSUME NEW l, LogitType(l), NEW c, Cands(c, DOMAIN l),
         NEW f, f[1] \in Int, f[2] \in Int
  PROVE  Cands(TopP(l, c, f), DOMAIN l)
<1> DEFINE w == WeightOf(l, c)
           reaches == {i \in DOMAIN c : WeightOf(l, SubSeq(c, 1, i)) * f[2] >= f[1] * w}
<1>1. CASE f[1] >= f[2] \/ f[1] <= 0
  BY <1>1 DEF TopP
<1>2. CASE ~(f[1] >= f[2] \/ f[1] <= 0)
  <2>1. w \in Nat /\ SubSeq(c, 1, Len(c)) = c /\ Len(c) \in DOMAIN c /\ Len(c) \in Nat
        /\ DOMAIN c = 1..Len(c)
    BY WeightOfIs, SubSeqFull DEF Cands
  <2>2. w * f[2] >= f[1] * w
    <3> HIDE DEF w
    <3>1. f[2] >= f[1]
      BY <1>2
    <3>2. w * f[2] >= w * f[1]
      BY <2>1, <3>1
    <3> QED BY <2>1, <3>2
  <2>3. Len(c) \in reaches /\ reaches \in SUBSET (1..Len(c))
    BY <2>1, <2>2
  <2>4. Min(reaches) \in reaches
    <3> HIDE DEF reaches
    <3> QED BY <2>1, <2>3, MinIs
  <2>5. Min(reaches) \in 1..Len(c)
    <3> HIDE DEF reaches
    <3> QED BY <2>3, <2>4
  <2>6. Cands(SubSeq(c, 1, Min(reaches)), DOMAIN l)
    <3> HIDE DEF reaches
    <3> QED BY <2>5, PrefixCands
  <2> QED BY <1>2, <2>6 DEF TopP
<1> QED BY <1>1, <1>2

\* ... and min-p.
LEMMA MinPCands ==
  ASSUME NEW l, LogitType(l), NEW c, Cands(c, DOMAIN l),
         NEW f, f[1] \in Int, f[2] \in Int
  PROVE  Cands(MinP(l, c, f), DOMAIN l)
<1> DEFINE under == {i \in DOMAIN c : i > 1 /\ Weight(l, c[i]) * f[2] < f[1] * Weight(l, c[1])}
<1>1. CASE f[1] <= 0 \/ under = {}
  BY <1>1 DEF MinP
<1>2. CASE ~(f[1] <= 0 \/ under = {})
  <2>1. Len(c) \in Nat /\ under \in SUBSET (1..Len(c)) /\ under # {} /\ \A i \in under : i > 1
    BY <1>2 DEF Cands
  <2>2. MinP(l, c, f) = SubSeq(c, 1, Min(under) - 1)
    BY <1>2 DEF MinP
  <2> HIDE DEF under
  <2>3. Min(under) \in under
    BY <2>1, MinIs
  <2>4. Min(under) - 1 \in 1..Len(c)
    <3>1. PICK m : m = Min(under)
      OBVIOUS
    <3>2. m \in 1..Len(c) /\ m > 1
      BY <2>1, <2>3, <3>1
    <3>3. m - 1 \in 1..Len(c)
      BY <2>1, <3>2
    <3> QED BY <3>1, <3>3
  <2> QED BY <2>2, <2>4, PrefixCands
<1> QED BY <1>1, <1>2

\* The draw ends on a candidate, whatever the number drawn.
LEMMA DrawIs ==
  ASSUME NEW l, NEW D, NEW c, Cands(c, D), NEW u
  PROVE  Draw(l, c, u) \in D
<1> DEFINE above == {i \in DOMAIN c : u * WeightOf(l, c) < Draws * WeightOf(l, SubSeq(c, 1, i))}
<1>1. Len(c) \in Nat /\ Len(c) > 0 /\ above \in SUBSET (1..Len(c)) /\ \A i \in 1..Len(c) : c[i] \in D
  BY DEF Cands
<1>2. Draw(l, c, u) = IF above = {} THEN Last(c) ELSE c[Min(above)]
  BY DEF Draw
<1> HIDE DEF above
<1>3. CASE above = {}
  BY <1>1, <1>2, <1>3 DEF Last
<1>4. CASE above # {}
  <2>1. Min(above) \in above
    BY <1>1, <1>4, MinIs
  <2> QED BY <1>1, <1>2, <1>4, <2>1
<1> QED BY <1>3, <1>4

\* Whatever the parameters, the recent tokens and the draw, the token sampled is
\* one of the vocabulary: osample never reads or returns past its candidates.
THEOREM SampledIsToken ==
  ASSUME NEW l, LogitType(l), NEW p, ParamType(p), NEW V, NEW recent \in Seq(V), NEW u
  PROVE  Sample(l, p, recent, u) \in DOMAIN l
<1> DEFINE m == Penalize(l, p, recent)
           s == [t \in DOMAIN m |-> m[t] * p.inv_t]
<1>1. LogitType(m) /\ DOMAIN m = DOMAIN l
  BY PenalizedType
<1>2. Sample(l, p, recent, u) = IF p.inv_t = 0 THEN Argmax(m) ELSE Draw(s, Survivors(s, p), u)
  BY DEF Sample
<1> HIDE DEF m
<1>3. LogitType(s) /\ DOMAIN s = DOMAIN l
  <2>1. \A t \in DOMAIN m : m[t] * p.inv_t \in Int
    BY <1>1 DEF LogitType, ParamType
  <2> QED BY <1>1, <2>1 DEF LogitType
<1> HIDE DEF s
<1>4. Cands(Ranked(s), DOMAIN s)
  BY <1>3, RankedIs DEF Cands
<1>5. Cands(TopK(Ranked(s), p.top_k), DOMAIN s)
  BY <1>4, TopKCands DEF ParamType
<1>6. Cands(TopP(s, TopK(Ranked(s), p.top_k), p.top_p), DOMAIN s)
  BY <1>3, <1>5, TopPCands DEF ParamType
<1>7. Cands(Survivors(s, p), DOMAIN s)
  BY <1>3, <1>6, MinPCands DEF ParamType, Survivors
<1>8. Draw(s, Survivors(s, p), u) \in DOMAIN s
  BY <1>7, DrawIs
<1> QED BY <1>1, <1>2, <1>3, <1>8, ArgmaxIs

-----------------------------------------------------------------------------
(* The state by layers.                                                      *)

\* A session's state has the parts of Fresh.
Shape(s) == /\ s = [pos |-> s.pos, kv |-> s.kv, conv |-> s.conv, S |-> s.S]
            /\ s.kv = [L \in FullLayers |-> s.kv[L]]
            /\ s.conv = [L \in LinLayers |-> s.conv[L]]
            /\ s.S = [L \in LinLayers |-> s.S[L]]

\* What of it belongs to layer L, and the state with another c in its place.
Part(s, L) == IF IsFull(L) THEN s.kv[L] ELSE <<s.conv[L], s.S[L]>>
Put(s, L, c) == IF IsFull(L) THEN [s EXCEPT !.kv[L] = c]
                ELSE [s EXCEPT !.conv[L] = c[1], !.S[L] = c[2]]

\* Put changes the part of its layer and nothing else.
LEMMA PutPart ==
  ASSUME NEW s, Shape(s), NEW L \in Layers, NEW c
  PROVE  /\ Shape(Put(s, L, c)) /\ Put(s, L, c).pos = s.pos
         /\ IsFull(L) \/ c = <<c[1], c[2]>> => Part(Put(s, L, c), L) = c
         /\ \A l \in Layers : l # L => Part(Put(s, L, c), l) = Part(s, l)
         /\ Put(s, L, Part(s, L)) = s
<1>1. CASE IsFull(L)
  <2>1. L \in FullLayers
    BY <1>1 DEF FullLayers
  <2> DEFINE r == [pos |-> s.pos, kv |-> [s.kv EXCEPT ![L] = c], conv |-> s.conv, S |-> s.S]
  <2>2. Put(s, L, c) = r
    BY <1>1 DEF Put, Shape
  <2>3. r.kv = [l \in FullLayers |-> IF l = L THEN c ELSE s.kv[l]]
    BY DEF Shape
  <2>4. Shape(r)
    BY <2>3 DEF Shape
  <2>5. \A l \in Layers : l # L => Part(r, l) = Part(s, l)
    BY <2>3 DEF Part, FullLayers
  <2>6. Part(r, L) = c
    BY <1>1, <2>1, <2>3 DEF Part
  <2>8. Put(s, L, Part(s, L)) = s
    BY <1>1 DEF Put, Shape, Part
  <2> QED BY <2>2, <2>4, <2>5, <2>6, <2>8
<1>2. CASE ~IsFull(L)
  <2>1. L \in LinLayers
    BY <1>2 DEF LinLayers, FullLayers
  <2> DEFINE r == [pos |-> s.pos, kv |-> s.kv, conv |-> [s.conv EXCEPT ![L] = c[1]],
                   S |-> [s.S EXCEPT ![L] = c[2]]]
  <2>2. Put(s, L, c) = r
    BY <1>2 DEF Put, Shape
  <2>3. /\ r.conv = [l \in LinLayers |-> IF l = L THEN c[1] ELSE s.conv[l]]
        /\ r.S = [l \in LinLayers |-> IF l = L THEN c[2] ELSE s.S[l]]
    BY DEF Shape
  <2>4. Shape(r)
    BY <2>3 DEF Shape
  <2>5. \A l \in Layers : l # L => Part(r, l) = Part(s, l)
    BY <2>3 DEF Part, LinLayers, FullLayers
  <2>6. c = <<c[1], c[2]>> => Part(r, L) = c
    BY <1>2, <2>1, <2>3 DEF Part
  <2>8. Put(s, L, Part(s, L)) = s
    BY <1>2 DEF Put, Shape, Part
  <2> QED BY <1>2, <2>2, <2>4, <2>5, <2>6, <2>8
<1> QED BY <1>1, <1>2

\* The last part put counts.
LEMMA PutPut ==
  ASSUME NEW s, Shape(s), NEW L \in Layers, NEW c, NEW d
  PROVE  Put(Put(s, L, c), L, d) = Put(s, L, d)
<1>1. CASE IsFull(L)
  BY <1>1 DEF Put, Shape
<1>2. CASE ~IsFull(L)
  <2>1. L \in LinLayers
    BY <1>2 DEF LinLayers, FullLayers
  <2> DEFINE r == [pos |-> s.pos, kv |-> s.kv, conv |-> [s.conv EXCEPT ![L] = c[1]],
                   S |-> [s.S EXCEPT ![L] = c[2]]]
  <2>2. Put(s, L, c) = r
    BY <1>2 DEF Put, Shape
  <2>3. /\ r.conv = [l \in LinLayers |-> IF l = L THEN c[1] ELSE s.conv[l]]
        /\ r.S = [l \in LinLayers |-> IF l = L THEN c[2] ELSE s.S[l]]
    BY DEF Shape
  <2>4. Put(r, L, d) = [pos |-> s.pos, kv |-> s.kv, conv |-> [r.conv EXCEPT ![L] = d[1]],
                        S |-> [r.S EXCEPT ![L] = d[2]]]
    BY <1>2 DEF Put
  <2>5. Put(s, L, d) = [pos |-> s.pos, kv |-> s.kv, conv |-> [s.conv EXCEPT ![L] = d[1]],
                        S |-> [s.S EXCEPT ![L] = d[2]]]
    BY <1>2 DEF Put, Shape
  <2>6. [r.conv EXCEPT ![L] = d[1]] = [s.conv EXCEPT ![L] = d[1]]
    BY <2>1, <2>3 DEF Shape
  <2>7. [r.S EXCEPT ![L] = d[2]] = [s.S EXCEPT ![L] = d[2]]
    BY <2>1, <2>3 DEF Shape
  <2> QED BY <2>2, <2>4, <2>5, <2>6, <2>7
<1> QED BY <1>1, <1>2

\* States that agree on the position and on every layer are the same.
LEMMA SameParts ==
  ASSUME NEW s, NEW r, Shape(s), Shape(r), s.pos = r.pos,
         \A L \in Layers : Part(s, L) = Part(r, L)
  PROVE  s = r
<1>1. \A L \in FullLayers : s.kv[L] = r.kv[L]
  BY DEF Part, FullLayers
<1>2. \A L \in LinLayers : s.conv[L] = r.conv[L] /\ s.S[L] = r.S[L]
  BY DEF Part, LinLayers, FullLayers
<1>3. s.kv = r.kv
  BY <1>1 DEF Shape
<1>4. s.conv = r.conv /\ s.S = r.S
  BY <1>2 DEF Shape
<1> QED BY <1>3, <1>4 DEF Shape

-----------------------------------------------------------------------------
(* One layer and one token.                                                  *)

\* The layer's new part and the hidden state after it.
FullStep(L, c, x, xn, in) ==
  LET r == GqaStep(c, in.q, in.k, in.v)
  IN [c |-> r.c, x |-> FfnLayer(L, (x + FullFinish(L, in, r.out)) % P)]

LinStep(L, c, x, xn, conv) ==
  LET d(hv) == DeltaStep(c[2][hv], DeltaInput(L, hv, xn, conv.out))
  IN [c |-> <<conv.buf, [hv \in 0..(NV - 1) |-> d(hv).S]>>,
      x |-> FfnLayer(L, (x + LinearFinish(L, xn, [hv \in 0..(NV - 1) |-> d(hv).out])) % P)]

Normed(L, x) == Norm(x, W[L].attn_norm)
Convolve(L, buf, xn) == ConvStep(buf, Linear(W[L].attn_qkv, xn), W[L].ssm_conv1d, NoBias)

LayerStep(L, c, x, pos) ==
  IF IsFull(L) THEN FullStep(L, c, x, Normed(L, x), FullInput(L, Normed(L, x), pos))
  ELSE LinStep(L, c, x, Normed(L, x), Convolve(L, c[1], Normed(L, x)))

\* A layer works on its own part of the state, on x and on the position.
LEMMA TokenLayerIs ==
  ASSUME NEW s, NEW x, NEW L \in Layers
  PROVE  LET r == LayerStep(L, Part(s, L), x, s.pos)
         IN  TokenLayer([s |-> s, x |-> x], L) = [s |-> Put(s, L, r.c), x |-> r.x]
<1>1. CASE IsFull(L)
  BY <1>1 DEF TokenLayer, FullAttn, LayerStep, FullStep, Normed, Part, Put
<1>2. CASE ~IsFull(L)
  BY <1>2 DEF TokenLayer, LinearAttn, LayerStep, LinStep, Normed, Convolve, Part, Put
<1> QED BY <1>1, <1>2

\* What a linear layer leaves is a pair.
LEMMA StepParts ==
  ASSUME NEW L, NEW c, NEW x, NEW pos
  PROVE  IsFull(L) \/ LET d == LayerStep(L, c, x, pos).c IN d = <<d[1], d[2]>>
BY DEF LayerStep, LinStep

-----------------------------------------------------------------------------
(* One token through the stack.                                              *)

TokenOp(p, a, L) == TokenLayer(a, L)
TokenStack == INSTANCE FoldFacts WITH Op <- TokenOp

Order == [i \in 1..NLayers |-> i - 1]

\* The layers are taken in order, each once.
LEMMA OrderIs ==
  /\ NLayers \in Nat \ {0} /\ Order \in Seq(Layers) /\ Len(Order) = NLayers
  /\ \A L \in Layers : L \in Nat /\ L + 1 \in 1..NLayers /\ Order[L + 1] = L /\ (L + 1) - 1 = L
  /\ \A k \in 1..NLayers : Order[k] = k - 1 /\ k - 1 \in Layers
<1>1. NLayers \in Nat \ {0}
  BY ShapeAssumption
<1>2. ASSUME NEW n \in Nat \ {0}
      PROVE  /\ [k \in 1..n |-> k - 1] \in Seq(0..(n - 1)) /\ Len([k \in 1..n |-> k - 1]) = n
             /\ \A L \in 0..(n - 1) : L \in Nat /\ L + 1 \in 1..n /\ [k \in 1..n |-> k - 1][L + 1] = L
             /\ \A k \in 1..n : [j \in 1..n |-> j - 1][k] = k - 1 /\ k - 1 \in 0..(n - 1)
  OBVIOUS
<1>3. \A L \in 0..(NLayers - 1) : (L + 1) - 1 = L
  BY <1>1
<1> QED BY <1>1, <1>2, <1>3 DEF Order, Layers

\* What a token makes of a state and of the hidden states between the layers.
TokenPass(s, tok, x, r) ==
  /\ x[0] = Embd[tok]
  /\ \A L \in Layers : x[L + 1] = LayerStep(L, Part(s, L), x[L], s.pos).x
  /\ r = [st |-> r.st, logits |-> Logits(x[NLayers])]
  /\ Shape(r.st) /\ r.st.pos = s.pos + 1
  /\ \A L \in Layers : Part(r.st, L) = LayerStep(L, Part(s, L), x[L], s.pos).c

\* A token is such a pass, with some hidden states in between.
LEMMA TokenRun ==
  ASSUME NEW s, Shape(s), NEW tok
  PROVE  \E x : TokenPass(s, tok, x, Token(s, tok))
<1> DEFINE start == [s |-> s, x |-> Embd[tok]]
           end == TokenStack!Fold(0, start, Order)
<1>1. Token(s, tok) = [st |-> [end.s EXCEPT !.pos = @ + 1], logits |-> Logits(end.x)]
  BY DEF Token, Order, FoldLeft, MapThenFoldSet, TokenStack!Fold, TokenStack!FoldLeft,
         TokenStack!MapThenFoldSet, TokenOp, Max, TokenStack!Max
<1>2. PICK h : /\ h[0] = start
               /\ \A k \in 1..Len(Order) : h[k] = TokenOp(0, h[k - 1], Order[k])
               /\ end = h[Len(Order)]
  <2>1. Order \in Seq(Layers)
    BY OrderIs
  <2> HIDE DEF start
  <2> QED BY <2>1, TokenStack!FoldHasRun
<1>3. \A k \in 1..NLayers : h[k] = TokenLayer(h[k - 1], k - 1)
  BY <1>2, OrderIs DEF TokenOp
<1> DEFINE x == [k \in 0..NLayers |-> h[k].x]
           After(L) == LayerStep(L, Part(s, L), h[L].x, s.pos)
           Good(k) == /\ h[k] = [s |-> h[k].s, x |-> h[k].x]
                      /\ Shape(h[k].s) /\ h[k].s.pos = s.pos
                      /\ \A L \in Layers :
                           IF L < k THEN Part(h[k].s, L) = After(L).c /\ h[L + 1].x = After(L).x
                           ELSE Part(h[k].s, L) = Part(s, L)
           I == {k \in Nat : k <= NLayers => Good(k)}
<1> HIDE DEF end
<1>4. 0 \in I
  <2>1. \A L \in Layers : ~(L < 0)
    BY OrderIs
  <2> QED BY <1>2, <2>1
<1>5. ASSUME NEW k \in Nat, k \in I PROVE k + 1 \in I
  <2> SUFFICES ASSUME k + 1 <= NLayers PROVE Good(k + 1)
    OBVIOUS
  <2>1. k \in Layers /\ k + 1 \in 1..NLayers /\ (k + 1) - 1 = k
    BY OrderIs DEF Layers
  <2>2. Good(k)
    <3>1. k <= NLayers
      BY OrderIs
    <3> HIDE DEF Good
    <3> QED BY <1>5, <3>1
  <2>3. h[k + 1] = TokenLayer([s |-> h[k].s, x |-> h[k].x], k)
    BY <1>3, <2>1, <2>2
  <2>4. Part(h[k].s, k) = Part(s, k)
    BY <2>1, <2>2
  <2>5. h[k + 1] = [s |-> Put(h[k].s, k, After(k).c), x |-> After(k).x]
    BY <2>1, <2>2, <2>3, <2>4, TokenLayerIs
  <2>6. IsFull(k) \/ After(k).c = <<After(k).c[1], After(k).c[2]>>
    BY StepParts
  <2> DEFINE c == After(k).c
             z == h[k].s
  <2> HIDE DEF c, z
  <2>7. /\ Shape(Put(z, k, c)) /\ Put(z, k, c).pos = z.pos /\ Part(Put(z, k, c), k) = c
        /\ \A l \in Layers : l # k => Part(Put(z, k, c), l) = Part(z, l)
    <3>1. Shape(z)
      BY <2>2 DEF z
    <3>2. IsFull(k) \/ c = <<c[1], c[2]>>
      BY <2>6 DEF c
    <3> HIDE DEF After, Good
    <3> QED BY <2>1, <3>1, <3>2, PutPart
  <2>8. h[k + 1].s = Put(z, k, c) /\ h[k + 1].x = After(k).x
    BY <2>5 DEF c, z
  <2>9. ASSUME NEW L \in Layers
        PROVE  IF L < k + 1 THEN Part(h[k + 1].s, L) = After(L).c /\ h[L + 1].x = After(L).x
               ELSE Part(h[k + 1].s, L) = Part(s, L)
    <3>1. L \in Nat
      BY OrderIs
    <3>2. CASE L = k
      <4>1. Part(h[k + 1].s, k) = After(k).c /\ k < k + 1
        BY <2>7, <2>8 DEF c
      <4> HIDE DEF After
      <4> QED BY <2>8, <3>2, <4>1
    <3>3. CASE L # k
      <4>1. Part(h[k + 1].s, L) = Part(h[k].s, L) /\ (L < k + 1 <=> L < k)
        BY <2>1, <2>7, <2>8, <3>1, <3>3 DEF z
      <4> HIDE DEF After
      <4> QED BY <2>2, <4>1
    <3> QED BY <3>2, <3>3
  <2> HIDE DEF After
  <2> QED BY <2>2, <2>5, <2>7, <2>8, <2>9 DEF z
<1>6. NLayers \in I
  <2> HIDE DEF I
  <2> QED BY <1>4, <1>5, OrderIs, TokenStack!NatInd
<1>7. Good(NLayers) /\ end = h[NLayers]
  BY <1>2, <1>6, OrderIs
<1>8. x[0] = Embd[tok] /\ \A L \in Layers : x[L] = h[L].x /\ x[L + 1] = h[L + 1].x
  BY <1>2, OrderIs DEF Layers
<1>9. x[NLayers] = h[NLayers].x
  BY OrderIs
<1>10. \A L \in Layers : L < NLayers
  BY OrderIs DEF Layers
<1> DEFINE r == [end.s EXCEPT !.pos = @ + 1]
<1>11. /\ Shape(r) /\ r.pos = s.pos + 1
       /\ \A L \in Layers : Part(r, L) = Part(end.s, L)
  <2>1. Shape(end.s) /\ end.s.pos = s.pos
    BY <1>7
  <2> HIDE DEF Good, x
  <2>2. r = [pos |-> s.pos + 1, kv |-> end.s.kv, conv |-> end.s.conv, S |-> end.s.S]
    BY <2>1 DEF Shape
  <2> HIDE DEF r
  <2> QED BY <2>1, <2>2 DEF Shape, Part
<1> HIDE DEF x, r
<1>12. TokenPass(s, tok, x, [st |-> r, logits |-> Logits(end.x)])
  BY <1>7, <1>8, <1>9, <1>10, <1>11 DEF TokenPass
<1> QED BY <1>1, <1>12 DEF r

-----------------------------------------------------------------------------
(* The kernels give integers for integers.                                   *)

\* The scalar functions do; a gate does even without.
LEMMA ScalarType ==
  /\ \A x \in Int : /\ Exp(x) \in Int /\ InvSqrt(x) \in Int /\ Cos(x) \in Int /\ Sin(x) \in Int
                    /\ Silu(x) \in Int /\ Softplus(x) \in Int
  /\ \A x : Reciprocal(x) \in Int /\ Sigmoid(x) \in Int
<1>1. \A x : Reciprocal(x) \in Int
  BY DEF Reciprocal
<1>2. \A x : Sigmoid(x) \in Int
  BY <1>1 DEF Sigmoid
<1>3. ASSUME NEW x \in Int
      PROVE  /\ Exp(x) \in Int /\ InvSqrt(x) \in Int /\ Cos(x) \in Int /\ Sin(x) \in Int
             /\ Silu(x) \in Int
  <2>1. x * x \in Int /\ x * x * x \in Int /\ x * Sigmoid(x) \in Int
    BY <1>2
  <2>2. 1 + x + x * x * x \in Int /\ 3 + x * x \in Int /\ 1 + 2 * x \in Int
    BY <2>1
  <2> QED BY <2>1, <2>2, ResidueOf DEF Exp, InvSqrt, Cos, Sin, Silu
<1>4. ASSUME NEW x \in Int PROVE Softplus(x) \in Int
  <2>1. PICK e \in Int : e = Exp(x)
    BY <1>3
  <2>2. e + 4 * e * e \in Int
    OBVIOUS
  <2> QED BY <2>1, <2>2, ResidueOf DEF Softplus, Log1p
<1> QED BY <1>1, <1>2, <1>3, <1>4

\* The vector functions do.
LEMMA VectorType ==
  ASSUME NEW K, IsFiniteSet(K), NEW x \in [K -> Int]
  PROVE  /\ L2Norm(x) \in [K -> Int] /\ Softmax(x) \in [K -> Int]
         /\ \A w \in [K -> Int] : RmsNorm(x, w) \in [K -> Int]
<1>1. PICK d \in Int : d = InvSqrt(Dot(x, x))
  BY DotIs, ScalarType
<1>2. \A i \in K : (d * x[i]) % P \in Int
  <2>1. \A i \in K : d * x[i] \in Int
    OBVIOUS
  <2> QED BY <2>1, ResidueOf
<1>3. L2Norm(x) \in [K -> Int]
  BY <1>1, <1>2 DEF L2Norm, Scale
<1>4. PICK r \in Int : r = Reciprocal(Sum([j \in DOMAIN x |-> Exp(x[j])]))
  BY ScalarType
<1>5. \A i \in K : (Exp(x[i]) * r) % P \in Int
  <2>1. \A i \in K : Exp(x[i]) \in Int
    BY ScalarType
  <2>2. \A i \in K : Exp(x[i]) * r \in Int
    BY <2>1
  <2> QED BY <2>2, ResidueOf
<1>6. Softmax(x) \in [K -> Int]
  BY <1>4, <1>5 DEF Softmax
<1>7. ASSUME NEW w \in [K -> Int] PROVE RmsNorm(x, w) \in [K -> Int]
  <2>1. \A i \in K : x[i] * d * w[i] \in Int
    OBVIOUS
  <2>2. \A i \in K : (x[i] * d * w[i]) % P \in Int
    BY <2>1, ResidueOf
  <2> QED BY <1>1, <2>2 DEF RmsNorm
<1> QED BY <1>3, <1>6, <1>7

\* A linear map of a hidden state is a vector of integers, its norm an integer.
LEMMA LinearType ==
  ASSUME NEW x \in Int
  PROVE  /\ \A K : \A w \in [K -> Int] : Linear(w, x) \in [K -> Int]
         /\ \A w \in Int : Norm(x, w) \in Int
<1>1. ASSUME NEW K, NEW w \in [K -> Int] PROVE Linear(w, x) \in [K -> Int]
  <2>1. \A o \in K : w[o] * x \in Int
    OBVIOUS
  <2> QED BY <2>1, ResidueOf DEF Linear
<1>2. ASSUME NEW w \in Int PROVE Norm(x, w) \in Int
  <2>1. IsFiniteSet(1..1)
    <3>1. 1..1 = {1}
      OBVIOUS
    <3> QED BY <3>1, FS_Singleton
  <2>2. <<x>> \in [1..1 -> Int] /\ <<w>> \in [1..1 -> Int]
    OBVIOUS
  <2>3. RmsNorm(<<x>>, <<w>>) \in [1..1 -> Int]
    BY <2>1, <2>2, VectorType
  <2> QED BY <2>3 DEF Norm
<1> QED BY <1>1, <1>2

\* Rotation does.
LEMMA RopeType ==
  ASSUME NEW v \in [0..(HeadDim - 1) -> Int], NEW pos \in Int
  PROVE  Rope(v, Rotary, pos) \in [0..(HeadDim - 1) -> Int]
<1> DEFINE half == Rotary \div 2
<1>1. half \in Nat /\ 2 * half <= HeadDim /\ HeadDim \in Nat
  <2>1. Rotary \in Nat /\ Rotary <= HeadDim /\ HeadDim \in Nat
    BY ShapeAssumption
  <2> QED BY <2>1
<1> DEFINE angle(i) == pos * (i + 1)
           r == Rope(v, Rotary, pos)
<1>2. r = [i \in 0..(HeadDim - 1) |->
             IF i < half
             THEN (v[i] * Cos(angle(i)) - v[i + half] * Sin(angle(i))) % P
             ELSE IF i < 2 * half
             THEN (v[i - half] * Sin(angle(i - half)) + v[i] * Cos(angle(i - half))) % P
             ELSE v[i]]
  BY DEF Rope
<1> HIDE DEF half
<1>3. \A a \in Int, b \in Int, t \in Int :
        /\ (a * Cos(t) - b * Sin(t)) % P \in Int
        /\ (a * Sin(t) + b * Cos(t)) % P \in Int
  <2>1. \A t \in Int : Cos(t) \in Int /\ Sin(t) \in Int
    BY ScalarType
  <2>2. \A a \in Int, b \in Int, c \in Int, d \in Int : a * c - b * d \in Int /\ a * c + b * d \in Int
    OBVIOUS
  <2> TAKE a \in Int, b \in Int, t \in Int
  <2>3. Cos(t) \in Int /\ Sin(t) \in Int
    BY <2>1
  <2>4. a * Cos(t) - b * Sin(t) \in Int /\ a * Sin(t) + b * Cos(t) \in Int
    BY <2>2, <2>3
  <2> QED BY <2>4, ResidueOf
<1>4. \A i \in Int : angle(i) \in Int
  OBVIOUS
<1>5. ASSUME NEW i \in 0..(HeadDim - 1) PROVE r[i] \in Int
  <2>1. CASE i < half
    <3>1. v[i] \in Int /\ v[i + half] \in Int /\ angle(i) \in Int
      BY <1>1, <1>4, <2>1
    <3> HIDE DEF angle, r
    <3> QED BY <1>2, <1>3, <2>1, <3>1
  <2>2. CASE ~(i < half) /\ i < 2 * half
    <3>1. v[i] \in Int /\ v[i - half] \in Int /\ angle(i - half) \in Int
      BY <1>1, <1>4, <2>2
    <3> HIDE DEF angle, r
    <3> QED BY <1>2, <1>3, <2>2, <3>1
  <2>3. CASE ~(i < half) /\ ~(i < 2 * half)
    <3> HIDE DEF angle, r
    <3> QED BY <1>2, <2>3
  <2> QED BY <2>1, <2>2, <2>3
<1> HIDE DEF r, angle
<1>6. DOMAIN r = 0..(HeadDim - 1) /\ r = [i \in 0..(HeadDim - 1) |-> r[i]]
  BY <1>2
<1> QED BY <1>5, <1>6 DEF r

-----------------------------------------------------------------------------
(* The layers give integers for integers.                                    *)

HeadVec == [0..(HeadDim - 1) -> Int]
KvVec == [0..(KvHeads - 1) -> HeadVec]
QVec == [0..(Heads - 1) -> HeadVec]

\* The dimensions, and the finite sets they make.
LEMMA Dimensions ==
  /\ Heads \in Nat /\ KvHeads \in Nat /\ HeadDim \in Nat /\ NK \in Nat /\ NV \in Nat
  /\ KeyDim \in Nat /\ ConvKernel \in Nat
  /\ Heads > 0 /\ KvHeads > 0 /\ HeadDim > 0 /\ NK > 0 /\ NV > 0 /\ KeyDim > 0 /\ ConvKernel > 0
  /\ IsFiniteSet(0..(HeadDim - 1)) /\ IsFiniteSet(0..(Heads - 1)) /\ IsFiniteSet(0..(NV - 1))
  /\ IsFiniteSet(0..(KeyDim - 1)) /\ IsFiniteSet(Chans)
<1>1. /\ HeadDim \in Nat /\ NK \in Nat /\ NV \in Nat /\ KeyDim \in Nat /\ ConvKernel \in Nat
      /\ HeadDim > 0 /\ NK > 0 /\ NV > 0 /\ KeyDim > 0 /\ ConvKernel > 0
  BY ShapeAssumption
<1>2. KvHeads \in Nat /\ KvHeads > 0
  BY AttentionAssumption
<1>3. PICK g \in 1..Heads : Heads = KvHeads * g
  BY AttentionAssumption
<1>4. Heads \in Nat /\ Heads > 0
  <2>1. g \in Int /\ KvHeads * g \in Int
    BY <1>2
  <2>2. Heads \in Int /\ 1 <= g /\ g <= Heads
    BY <1>3, <2>1
  <2> QED BY <2>1, <2>2
<1>5. \A n \in Int : IsFiniteSet(0..n)
  BY FS_Interval
<1>6. 2 * NK * KeyDim + NV - 1 \in Int
  BY <1>1
<1> QED BY <1>1, <1>2, <1>4, <1>5, <1>6 DEF Chans

\* A query head attends over a key-value head there is.
LEMMA KvHeadIn == \A h \in 0..(Heads - 1) : KvHead(h) \in 0..(KvHeads - 1)
<1> TAKE h \in 0..(Heads - 1)
<1>1. PICK g \in 1..Heads : Heads = KvHeads * g
  BY AttentionAssumption
<1>2. Heads \in Nat /\ KvHeads \in Nat /\ KvHeads > 0 /\ Heads > 0 /\ g \in Nat /\ g > 0
  BY Dimensions, <1>1
<1>3. Heads \div KvHeads = g
  <2>1. PICK q \in Int : q = Heads \div KvHeads
    BY <1>2
  <2>2. PICK r \in 0..(KvHeads - 1) : Heads = KvHeads * q + r
    BY <1>2, <2>1, Division
  <2>3. KvHeads * (g - q) = r
    BY <1>1, <1>2, <2>2
  <2>4. g - q = 0
    <3>1. CASE g - q >= 1
      <4>1. KvHeads * (g - q) >= KvHeads
        BY <1>2, <3>1
      <4> QED BY <1>2, <2>2, <2>3, <4>1
    <3>2. CASE g - q <= -1
      <4>1. KvHeads * (g - q) <= -KvHeads
        BY <1>2, <3>2
      <4> QED BY <1>2, <2>2, <2>3, <4>1
    <3> QED BY <1>2, <3>1, <3>2
  <2> QED BY <1>2, <2>1, <2>4
<1>4. PICK k \in Int : k = h \div g
  BY <1>2
<1>5. PICK r \in 0..(g - 1) : h = g * k + r
  BY <1>2, <1>4, Division
<1>6. k >= 0
  <2>1. CASE k <= -1
    <3>1. g * k <= -g
      BY <1>2, <2>1
    <3> QED BY <1>2, <1>5, <3>1
  <2> QED BY <2>1
<1>7. k <= KvHeads - 1
  <2>1. CASE k >= KvHeads
    <3>1. g * k >= g * KvHeads
      BY <1>2, <2>1
    <3>2. g * KvHeads = Heads
      BY <1>1, <1>2
    <3> QED BY <1>2, <1>5, <3>1, <3>2
  <2> QED BY <1>2, <2>1
<1> QED BY <1>2, <1>3, <1>4, <1>6, <1>7 DEF KvHead

\* What a full-attention layer makes of a hidden state.
LEMMA FullInputType ==
  ASSUME NEW L \in Layers, IsFull(L), NEW xn \in Int, NEW pos \in Int
  PROVE  LET in == FullInput(L, xn, pos)
         IN  in.q \in QVec /\ in.gate \in QVec /\ in.k \in KvVec /\ in.v \in KvVec
<1> DEFINE D == 0..(HeadDim - 1)
           part(v, from) == [i \in D |-> v[from + i]]
           turned(v, w) == Rope(RmsNorm(v, w), Rotary, pos)
           qp == Linear(W[L].attn_q, xn)
           kp == Linear(W[L].attn_k, xn)
           vp == Linear(W[L].attn_v, xn)
<1>1. LayerWeights(L)
  BY WeightsAssumption
<1>2. /\ qp \in Vec(2 * Heads * HeadDim) /\ kp \in Vec(KvHeads * HeadDim)
      /\ vp \in Vec(KvHeads * HeadDim)
  BY <1>1, LinearType DEF LayerWeights, Vec
<1>3. W[L].attn_q_norm \in [D -> Int] /\ W[L].attn_k_norm \in [D -> Int]
  BY <1>1 DEF LayerWeights, Vec
<1>4. ASSUME NEW n \in Nat, NEW v \in Vec(n), NEW from \in Nat, from + HeadDim <= n
      PROVE  part(v, from) \in [D -> Int]
  <2>1. \A i \in D : from + i \in 0..(n - 1)
    BY <1>4, Dimensions
  <2> QED BY <2>1 DEF Vec
<1>5. ASSUME NEW v \in [D -> Int], NEW w \in [D -> Int] PROVE turned(v, w) \in [D -> Int]
  <2>1. RmsNorm(v, w) \in [D -> Int]
    BY Dimensions, VectorType
  <2> QED BY <2>1, RopeType
<1>6. ASSUME NEW n \in Nat, NEW h \in 0..(n - 1)
      PROVE  /\ h * HeadDim \in Nat /\ h * HeadDim + HeadDim <= n * HeadDim
             /\ h * 2 * HeadDim \in Nat
             /\ h * 2 * HeadDim + HeadDim \in Nat
             /\ h * 2 * HeadDim + HeadDim + HeadDim <= 2 * n * HeadDim
             /\ n * HeadDim \in Nat /\ 2 * n * HeadDim \in Nat
  <2>1. HeadDim \in Nat /\ h + 1 <= n /\ h \in Nat
    BY Dimensions
  <2>2. (h + 1) * HeadDim <= n * HeadDim /\ (h + 1) * HeadDim = h * HeadDim + HeadDim
    BY <2>1
  <2>3. h * 2 * HeadDim = 2 * (h * HeadDim) /\ 2 * n * HeadDim = 2 * (n * HeadDim)
    BY <2>1
  <2>4. h * HeadDim \in Nat /\ n * HeadDim \in Nat
    BY <2>1
  <2> QED BY <2>1, <2>2, <2>3, <2>4
<1> HIDE DEF part, turned, qp, kp, vp
<1>7. ASSUME NEW h \in 0..(Heads - 1)
      PROVE  /\ turned(part(qp, h * 2 * HeadDim), W[L].attn_q_norm) \in [D -> Int]
             /\ part(qp, h * 2 * HeadDim + HeadDim) \in [D -> Int]
  <2>1. /\ h * 2 * HeadDim \in Nat /\ h * 2 * HeadDim + HeadDim \in Nat
        /\ h * 2 * HeadDim + HeadDim + HeadDim <= 2 * Heads * HeadDim
        /\ 2 * Heads * HeadDim \in Nat /\ HeadDim \in Nat
    BY <1>6, Dimensions
  <2>2. h * 2 * HeadDim + HeadDim <= 2 * Heads * HeadDim
    BY <2>1
  <2>3. part(qp, h * 2 * HeadDim) \in [D -> Int]
    BY <1>2, <1>4, <2>1, <2>2
  <2>4. part(qp, h * 2 * HeadDim + HeadDim) \in [D -> Int]
    BY <1>2, <1>4, <2>1
  <2> QED BY <1>3, <1>5, <2>3, <2>4
<1>8. ASSUME NEW h \in 0..(KvHeads - 1)
      PROVE  /\ turned(part(kp, h * HeadDim), W[L].attn_k_norm) \in [D -> Int]
             /\ part(vp, h * HeadDim) \in [D -> Int]
  <2>1. h * HeadDim \in Nat /\ h * HeadDim + HeadDim <= KvHeads * HeadDim /\ KvHeads * HeadDim \in Nat
    BY <1>6, Dimensions
  <2>2. part(kp, h * HeadDim) \in [D -> Int] /\ part(vp, h * HeadDim) \in [D -> Int]
    BY <1>2, <1>4, <2>1
  <2> QED BY <1>3, <1>5, <2>2
<1>9. FullInput(L, xn, pos) =
        [q |-> [h \in 0..(Heads - 1) |-> turned(part(qp, h * 2 * HeadDim), W[L].attn_q_norm)],
         gate |-> [h \in 0..(Heads - 1) |-> part(qp, h * 2 * HeadDim + HeadDim)],
         k |-> [h \in 0..(KvHeads - 1) |-> turned(part(kp, h * HeadDim), W[L].attn_k_norm)],
         v |-> [h \in 0..(KvHeads - 1) |-> part(vp, h * HeadDim)]]
  BY DEF FullInput, part, turned, qp, kp, vp
<1> QED BY <1>7, <1>8, <1>9 DEF QVec, KvVec, HeadVec

\* A row of the key-value cache, and the cache of a layer.
KvRows == [k : KvVec, v : KvVec]
FullPart == [cap : {Cap}, kv : Seq(KvRows)]

\* Attention over integer keys and values gives integers.
LEMMA AttendType ==
  ASSUME NEW q \in QVec, NEW kv \in Seq(KvRows)
  PROVE  Attend(q, kv) \in QVec
<1> DEFINE D == DOMAIN kv
           score(h) == [t \in D |-> Dot(q[h], kv[t].k[KvHead(h)])]
           out(h) == [i \in DOMAIN q[h] |->
                        Sum([t \in D |-> Softmax(score(h))[t] * kv[t].v[KvHead(h)][i]])]
<1>1. IsFiniteSet(D) /\ \A t \in D : kv[t] \in KvRows
  BY FS_Interval
<1>2. ASSUME NEW h \in 0..(Heads - 1) PROVE out(h) \in HeadVec
  <2>1. q[h] \in HeadVec /\ DOMAIN q[h] = 0..(HeadDim - 1)
    BY DEF QVec, HeadVec
  <2>2. \A t \in D : kv[t].k[KvHead(h)] \in HeadVec /\ kv[t].v[KvHead(h)] \in HeadVec
    BY <1>1, KvHeadIn DEF KvRows, KvVec
  <2>3. \A t \in D : Dot(q[h], kv[t].k[KvHead(h)]) \in Int
    BY <2>1, <2>2, DotIs, Dimensions DEF HeadVec
  <2>4. PICK w \in [D -> Int] : w = Softmax(score(h))
    <3>1. score(h) \in [D -> Int]
      BY <2>3
    <3> HIDE DEF score, D
    <3> QED BY <1>1, <3>1, VectorType
  <2>5. ASSUME NEW i \in 0..(HeadDim - 1)
        PROVE  Sum([t \in D |-> w[t] * kv[t].v[KvHead(h)][i]]) \in Int
    <3> DEFINE f == [t \in D |-> w[t] * kv[t].v[KvHead(h)][i]]
    <3>1. \A t \in D : kv[t].v[KvHead(h)][i] \in Int
      BY <2>2 DEF HeadVec
    <3>2. \A t \in D : f[t] \in Int
      BY <3>1
    <3>3. Ints(f)
      BY <1>1, <3>2 DEF Ints
    <3> HIDE DEF f
    <3>4. Sum(f) \in Int
      BY <3>3, SumType
    <3> QED BY <3>4 DEF f
  <2> QED BY <2>1, <2>4, <2>5 DEF HeadVec
<1>3. Attend(q, kv) = [h \in 0..(Heads - 1) |-> out(h)]
  BY DEF Attend
<1> HIDE DEF out
<1> QED BY <1>2, <1>3 DEF QVec

\* A step of a layer's attention keeps the cache's type and adds one position
\* when there is room.
LEMMA GqaType ==
  ASSUME NEW c \in FullPart, NEW q \in QVec, NEW k \in KvVec, NEW v \in KvVec
  PROVE  LET r == GqaStep(c, q, k, v)
         IN  /\ r.c \in FullPart /\ r.out \in QVec
             /\ Len(c.kv) < Cap => Len(r.c.kv) = Len(c.kv) + 1
<1> DEFINE row == [k |-> k, v |-> v]
           kv == Append(c.kv, row)
<1>1. c.cap = Cap /\ c.kv \in Seq(KvRows) /\ Cap \in Nat /\ c = [cap |-> c.cap, kv |-> c.kv]
  BY ShapeAssumption DEF FullPart
<1>2. row \in KvRows
  BY DEF KvRows
<1> HIDE DEF row
<1>3. kv \in Seq(KvRows) /\ Len(kv) = Len(c.kv) + 1
  BY <1>1, <1>2
<1>4. CASE Len(c.kv) < Cap
  <2>1. GqaStep(c, q, k, v) = [c |-> [cap |-> Cap, kv |-> kv], out |-> Attend(q, kv)]
    <3>1. ~(KvLen(c) >= c.cap)
      <4>1. Len(c.kv) \in Nat
        BY <1>1
      <4> QED BY <1>1, <1>4, <4>1 DEF KvLen
    <3> HIDE DEF kv
    <3>2. [c EXCEPT !.kv = kv] = [cap |-> Cap, kv |-> kv]
      BY <1>1
    <3> QED BY <3>1, <3>2 DEF GqaStep, kv, row
  <2> HIDE DEF kv
  <2>2. Attend(q, kv) \in QVec
    BY <1>3, AttendType
  <2> QED BY <1>3, <2>1, <2>2 DEF FullPart
<1>5. CASE ~(Len(c.kv) < Cap)
  <2>1. Len(c.kv) \in Nat
    BY <1>1
  <2> DEFINE out == [h \in 0..(Heads - 1) |-> [i \in DOMAIN q[h] |-> Garbage]]
  <2>2. GqaStep(c, q, k, v) = [c |-> c, out |-> out]
    BY <1>1, <1>5, <2>1 DEF GqaStep, KvLen
  <2>3. Garbage \in Int
    BY AttentionAssumption, PrimeAssumption
  <2>4. out \in QVec
    BY <2>3 DEF QVec, HeadVec
  <2> HIDE DEF out
  <2> QED BY <1>5, <2>2, <2>4
<1> QED BY <1>4, <1>5

\* The projection of what the heads give is an integer.
LEMMA FullFinishType ==
  ASSUME NEW L \in Layers, IsFull(L), NEW in, NEW o \in QVec
  PROVE  FullFinish(L, in, o) \in Int
<1> DEFINE D == 0..(HeadDim - 1)
           w == W[L].attn_output
           term(h) == [i \in D |-> w[h * HeadDim + i] * o[h][i] * Sigmoid(in.gate[h][i])]
           all == [h \in 0..(Heads - 1) |-> Sum(term(h))]
<1>1. LayerWeights(L)
  BY WeightsAssumption
<1>2. w \in [0..(Heads * HeadDim - 1) -> Int]
  BY <1>1 DEF LayerWeights, Vec
<1>3. ASSUME NEW h \in 0..(Heads - 1) PROVE Sum(term(h)) \in Int
  <2>1. ASSUME NEW i \in D PROVE term(h)[i] \in Int
    <3>1. h * HeadDim + i \in 0..(Heads * HeadDim - 1)
      <4>1. HeadDim \in Nat /\ Heads \in Nat /\ h + 1 <= Heads /\ h \in Nat
        BY Dimensions
      <4>2. (h + 1) * HeadDim <= Heads * HeadDim /\ (h + 1) * HeadDim = h * HeadDim + HeadDim
        BY <4>1
      <4>3. h * HeadDim \in Nat /\ Heads * HeadDim \in Nat
        BY <4>1
      <4> QED BY <4>1, <4>2, <4>3
    <3>2. w[h * HeadDim + i] \in Int /\ o[h][i] \in Int
      BY <1>2, <3>1 DEF QVec, HeadVec
    <3>3. PICK g \in Int : g = Sigmoid(in.gate[h][i])
      BY ScalarType
    <3>4. w[h * HeadDim + i] * o[h][i] * g \in Int
      BY <3>2
    <3> QED BY <3>3, <3>4
  <2>2. Ints(term(h))
    BY <2>1, Dimensions DEF Ints
  <2> HIDE DEF term
  <2> QED BY <2>2, SumType
<1>4. FullFinish(L, in, o) = Sum(all)
  BY DEF FullFinish
<1> HIDE DEF term
<1>5. Ints(all)
  BY <1>3, Dimensions DEF Ints
<1> HIDE DEF all
<1> QED BY <1>4, <1>5, SumType

-----------------------------------------------------------------------------
(* A linear layer.                                                           *)

LinConv == {b \in Seq([Chans -> Int]) : Len(b) = ConvKernel - 1}
LinState == [0..(NV - 1) -> [0..(KeyDim - 1) -> Int]]
LinPart == LinConv \X LinState

\* The convolution keeps as many inputs as before and gives a vector of integers.
LEMMA ConvolveType ==
  ASSUME NEW L \in Layers, ~IsFull(L), NEW buf \in LinConv, NEW xn \in Int
  PROVE  Convolve(L, buf, xn).buf \in LinConv /\ Convolve(L, buf, xn).out \in [Chans -> Int]
<1> DEFINE x == Linear(W[L].attn_qkv, xn)
           w == W[L].ssm_conv1d
           window == Append(buf, x)
           f(c) == [j \in DOMAIN window |-> w[c][j] * window[j][c]]
<1>1. LayerWeights(L)
  BY WeightsAssumption
<1>2. x \in [Chans -> Int]
  BY <1>1, LinearType DEF LayerWeights
<1>3. w \in [Chans -> [1..ConvKernel -> Int]]
  BY <1>1 DEF LayerWeights
<1> HIDE DEF x, w
<1>4. /\ window \in Seq([Chans -> Int]) /\ DOMAIN window = 1..ConvKernel
      /\ Len(window) = ConvKernel /\ ConvKernel \in Nat /\ ConvKernel > 0
      /\ IsFiniteSet(1..ConvKernel)
  <2>1. buf \in Seq([Chans -> Int]) /\ Len(buf) = ConvKernel - 1 /\ ConvKernel \in Nat /\ ConvKernel > 0
    BY Dimensions DEF LinConv
  <2>2. window \in Seq([Chans -> Int]) /\ Len(window) = ConvKernel
    BY <1>2, <2>1
  <2> QED BY <2>1, <2>2, FS_Interval
<1>5. Convolve(L, buf, xn) =
        [buf |-> Tail(window), out |-> [c \in Chans |-> (NoBias[c] + Sum(f(c))) % P]]
  <2>1. DOMAIN x = Chans
    BY <1>2
  <2> QED BY <2>1 DEF Convolve, ConvStep, x, w
<1> HIDE DEF window
<1>6. Tail(window) \in LinConv
  <2>1. Tail(window) \in Seq([Chans -> Int]) /\ Len(Tail(window)) = ConvKernel - 1
    BY <1>4
  <2> QED BY <2>1 DEF LinConv
<1>7. ASSUME NEW c \in Chans PROVE (NoBias[c] + Sum(f(c))) % P \in Int
  <2>1. \A j \in DOMAIN window : w[c][j] \in Int /\ window[j][c] \in Int
    BY <1>3, <1>4
  <2>2. Ints(f(c))
    BY <1>4, <2>1 DEF Ints
  <2> HIDE DEF f
  <2>3. Sum(f(c)) \in Int /\ NoBias[c] = 0
    BY <2>2, SumType DEF NoBias
  <2> QED BY <2>3, ResidueOf
<1> HIDE DEF f
<1> QED BY <1>5, <1>6, <1>7

\* What the delta rule gets is integers.
LEMMA DeltaInputType ==
  ASSUME NEW L \in Layers, ~IsFull(L), NEW hv \in 0..(NV - 1), NEW xn \in Int,
         NEW conv \in [Chans -> Int]
  PROVE  DeltaIn(DeltaInput(L, hv, xn, conv), 0..(KeyDim - 1))
<1> DEFINE K == 0..(KeyDim - 1)
           act == [c \in Chans |-> Silu(conv[c])]
           key(from) == [c \in K |-> act[from + KeyHead(hv) * KeyDim + c]]
           n == NK * KeyDim
<1>1. LayerWeights(L)
  BY WeightsAssumption
<1>2. /\ W[L].ssm_alpha[hv] \in Int /\ W[L].ssm_beta[hv] \in Int /\ W[L].ssm_a[hv] \in Int
      /\ W[L].ssm_dt[hv] \in Int
  BY <1>1 DEF LayerWeights, Vec
<1>3. act \in [Chans -> Int]
  BY ScalarType
<1>4. n \in Nat /\ Chans = 0..(2 * n + NV - 1)
  <2>1. 2 * NK * KeyDim = 2 * (NK * KeyDim) /\ NK * KeyDim \in Nat
    BY Dimensions
  <2> QED BY <2>1 DEF Chans
<1>5. \A c \in K : KeyHead(hv) * KeyDim + c \in 0..(n - 1)
  <2> TAKE c \in K
  <2>1. PICK k \in 0..(NK - 1) : k = KeyHead(hv)
    BY Dimensions, Division DEF KeyHead
  <2>2. (k + 1) * KeyDim <= n /\ (k + 1) * KeyDim = k * KeyDim + KeyDim /\ k * KeyDim \in Nat
    <3>1. k \in Nat /\ k + 1 <= NK /\ KeyDim \in Nat /\ NK \in Nat
      BY Dimensions
    <3> QED BY <3>1
  <2>3. k * KeyDim + c \in 0..(n - 1)
    <3> HIDE DEF n
    <3> QED BY <1>4, <2>2, Dimensions
  <2> QED BY <2>1, <2>3
<1>6. ASSUME NEW from \in {0, n} PROVE key(from) \in [K -> Int]
  <2>1. ASSUME NEW c \in K PROVE from + KeyHead(hv) * KeyDim + c \in Chans
    <3>1. PICK m \in 0..(n - 1) : m = KeyHead(hv) * KeyDim + c
      BY <1>5
    <3>2. from + KeyHead(hv) * KeyDim + c = from + m
      <4>1. KeyHead(hv) \in Int /\ KeyDim \in Int /\ c \in Int
        BY Dimensions, Division DEF KeyHead
      <4>2. KeyHead(hv) * KeyDim \in Int /\ from \in Int
        BY <1>4, <4>1
      <4> QED BY <3>1, <4>1, <4>2
    <3> HIDE DEF n
    <3>3. from + m \in 0..(2 * n + NV - 1)
      BY <1>4, Dimensions
    <3> QED BY <1>4, <3>2, <3>3
  <2> HIDE DEF act
  <2> QED BY <1>3, <2>1
<1>7. L2Norm(key(0)) \in [K -> Int] /\ L2Norm(key(n)) \in [K -> Int]
  <2> HIDE DEF key
  <2> QED BY <1>6, Dimensions, VectorType
<1>8. act[2 * NK * KeyDim + hv] \in Int
  <2>1. 2 * NK * KeyDim + hv \in Chans
    <3>1. 2 * NK * KeyDim = 2 * n
      BY Dimensions
    <3>2. 2 * n + hv \in Chans
      <4> HIDE DEF n
      <4> QED BY <1>4, Dimensions
    <3> QED BY <3>1, <3>2
  <2> HIDE DEF act
  <2> QED BY <1>3, <2>1
<1>9. DecayAlpha(W[L].ssm_alpha[hv] * xn, W[L].ssm_a[hv], W[L].ssm_dt[hv]) \in Int
  <2>1. PICK a \in Int : a = W[L].ssm_alpha[hv] * xn + W[L].ssm_dt[hv]
    BY <1>2
  <2>2. PICK b \in Int : b = W[L].ssm_a[hv] * Softplus(a)
    BY <1>2, ScalarType
  <2> QED BY <2>1, <2>2, ScalarType DEF DecayAlpha
<1>10. Sigmoid(W[L].ssm_beta[hv] * xn) \in Int
  BY ScalarType
<1>11. DeltaInput(L, hv, xn, conv) =
         [q |-> L2Norm(key(0)), k |-> L2Norm(key(n)), v |-> act[2 * NK * KeyDim + hv],
          alpha |-> DecayAlpha(W[L].ssm_alpha[hv] * xn, W[L].ssm_a[hv], W[L].ssm_dt[hv]),
          beta |-> Sigmoid(W[L].ssm_beta[hv] * xn)]
  BY DEF DeltaInput
<1> HIDE DEF key, act, n, K
<1>12. DeltaIn(DeltaInput(L, hv, xn, conv), K)
  BY <1>7, <1>8, <1>9, <1>10, <1>11 DEF DeltaIn
<1> QED BY <1>12 DEF K

\* The projection of what the value heads give is an integer.
LEMMA LinearFinishType ==
  ASSUME NEW L \in Layers, ~IsFull(L), NEW xn \in Int, NEW o \in [0..(NV - 1) -> Int]
  PROVE  LinearFinish(L, xn, o) \in Int
<1> DEFINE f == [hv \in 0..(NV - 1) |-> W[L].ssm_out[hv] * Norm(o[hv] * InvSqrt(KeyDim), W[L].ssm_norm)
                                * Silu(W[L].attn_gate[hv] * xn)]
<1>1. LayerWeights(L)
  BY WeightsAssumption
<1>2. ASSUME NEW hv \in 0..(NV - 1) PROVE f[hv] \in Int
  <2>1. W[L].ssm_out[hv] \in Int /\ W[L].attn_gate[hv] \in Int /\ W[L].ssm_norm \in Int
    BY <1>1 DEF LayerWeights, Vec
  <2>2. PICK a \in Int : a = o[hv] * InvSqrt(KeyDim)
    <3>1. PICK z \in Int : z = InvSqrt(KeyDim)
      <4>1. KeyDim \in Int
        BY Dimensions
      <4> QED BY <4>1, ScalarType
    <3>2. o[hv] \in Int
      OBVIOUS
    <3>3. o[hv] * z \in Int
      BY <3>2
    <3> QED BY <3>1, <3>3
  <2>3. PICK b \in Int : b = Norm(a, W[L].ssm_norm)
    BY <2>1, LinearType
  <2>4. PICK s \in Int : s = Silu(W[L].attn_gate[hv] * xn)
    <3>1. PICK c \in Int : c = W[L].attn_gate[hv] * xn
      BY <2>1
    <3> QED BY <3>1, ScalarType
  <2>5. W[L].ssm_out[hv] * b * s \in Int
    BY <2>1
  <2> QED BY <2>2, <2>3, <2>4, <2>5
<1>3. LinearFinish(L, xn, o) = Sum(f)
  BY DEF LinearFinish
<1>4. Ints(f)
  BY <1>2, Dimensions DEF Ints
<1> HIDE DEF f
<1> QED BY <1>3, <1>4, SumType

-----------------------------------------------------------------------------
(* The router's choice.                                                      *)

RouteOp(lg, idx, s) == Append(idx, Best(lg, DOMAIN lg \ {idx[i] : i \in DOMAIN idx}))
Routes == INSTANCE FoldFacts WITH Op <- RouteOp

Better(l, e, f) == l[e] > l[f] \/ (l[e] = l[f] /\ e < f)

\* The scan takes the best of those left.
LEMMA BestIs ==
  ASSUME NEW l, LogitType(l), NEW free \in SUBSET DOMAIN l, free # {}
  PROVE  Best(l, free) \in free /\ \A f \in free : f # Best(l, free) => Better(l, Best(l, free), f)
<1>1. \E t \in free : \A o \in free : l[o] < l[t] \/ (l[o] = l[t] /\ t <= o)
  BY LargestExists
<1>2. PICK b : b = Best(l, free)
  OBVIOUS
<1>3. b \in free /\ \A o \in free : l[o] < l[b] \/ (l[o] = l[b] /\ b <= o)
  BY <1>1, <1>2 DEF Best
<1>4. \A o \in free : o \in Int /\ l[o] \in Int
  BY DEF LogitType
<1>5. \A o \in free : o # b => Better(l, b, o)
  BY <1>3, <1>4 DEF Better
<1> QED BY <1>2, <1>3, <1>5

\* The choices made so far are different and none is worse than one left.
Chosen(l, idx, k) ==
  /\ idx \in Seq(DOMAIN l) /\ Len(idx) = k
  /\ Cardinality({idx[i] : i \in DOMAIN idx}) = k
  /\ \A e \in {idx[i] : i \in DOMAIN idx}, f \in DOMAIN l \ {idx[i] : i \in DOMAIN idx} : Better(l, e, f)

\* One more choice keeps that.
LEMMA ChosenNext ==
  ASSUME NEW l, LogitType(l), NEW k \in Nat, k < Cardinality(DOMAIN l), NEW idx, Chosen(l, idx, k),
         NEW s
  PROVE  Chosen(l, RouteOp(l, idx, s), k + 1)
<1> DEFINE D == DOMAIN l
           in == {idx[i] : i \in DOMAIN idx}
           b == Best(l, D \ in)
           idy == Append(idx, b)
           im == {idy[i] : i \in DOMAIN idy}
<1>1. /\ idx \in Seq(D) /\ Len(idx) = k /\ Cardinality(in) = k
      /\ \A e \in in, f \in D \ in : Better(l, e, f)
  BY DEF Chosen
<1>2. in \in SUBSET D /\ IsFiniteSet(in)
  <2>1. in \in SUBSET D
    BY <1>1
  <2> QED BY <2>1, FS_Subset DEF LogitType
<1>3. D \ in # {}
  <2>1. in # D
    BY <1>1
  <2> QED BY <1>2, <2>1
<1>4. b \in D \ in /\ \A f \in D \ in : f # b => Better(l, b, f)
  <2>1. D \ in \in SUBSET DOMAIN l
    OBVIOUS
  <2> HIDE DEF D, in
  <2> QED BY <1>3, <2>1, BestIs
<1> HIDE DEF b
<1>5. im = in \cup {b} /\ idy \in Seq(D) /\ Len(idy) = k + 1
  <2>1. /\ idy \in Seq(D) /\ Len(idy) = k + 1 /\ DOMAIN idy = 1..(k + 1) /\ DOMAIN idx = 1..k
        /\ idy[k + 1] = b /\ \A i \in 1..k : idy[i] = idx[i]
    BY <1>1, <1>4
  <2> HIDE DEF idy
  <2>2. im \subseteq in \cup {b}
    <3>1. \A i \in 1..(k + 1) : i \in 1..k \/ i = k + 1
      OBVIOUS
    <3> QED BY <2>1, <3>1
  <2>3. in \cup {b} \subseteq im
    <3>1. k + 1 \in 1..(k + 1) /\ \A i \in 1..k : i \in 1..(k + 1)
      OBVIOUS
    <3> QED BY <2>1, <3>1
  <2> QED BY <2>1, <2>2, <2>3
<1>6. Cardinality(in \cup {b}) = k + 1
  <2> HIDE DEF in
  <2>1. Cardinality(in \cup {b}) = Cardinality(in) + 1
    BY <1>2, <1>4, FS_AddElement
  <2> QED BY <1>1, <2>1
<1>7. \A e \in in \cup {b}, f \in D \ (in \cup {b}) : Better(l, e, f)
  <2> HIDE DEF in, D
  <2> QED BY <1>1, <1>4
<1>8. RouteOp(l, idx, s) = idy
  BY DEF RouteOp, b
<1> HIDE DEF idy
<1> QED BY <1>5, <1>6, <1>7, <1>8 DEF Chosen

\* Any fold over the turns of the router has a run.
LEMMA RouteHasRun ==
  ASSUME NEW l, NEW b, NEW S, NEW s \in Seq(S)
  PROVE  \E h : /\ h[0] = b /\ \A k \in 1..Len(s) : h[k] = RouteOp(l, h[k - 1], s[k])
               /\ Routes!Fold(l, b, s) = h[Len(s)]
BY Routes!FoldHasRun

\* The router goes through its turns.
LEMMA RouteRun ==
  ASSUME NEW l, NEW topK \in Nat
  PROVE  \E h : /\ h[0] = << >> /\ \A k \in 1..topK : h[k] = RouteOp(l, h[k - 1], k)
               /\ Route(l, topK) = h[topK]
<1> DEFINE turns == [s \in 1..topK |-> s]
<1>1. turns \in Seq(1..topK) /\ Len(turns) = topK /\ \A k \in 1..topK : turns[k] = k
  OBVIOUS
<1>2. Route(l, topK) = Routes!Fold(l, << >>, turns)
  BY DEF Route, FoldLeft, MapThenFoldSet, Routes!Fold, Routes!FoldLeft, Routes!MapThenFoldSet,
         RouteOp, Max, Routes!Max
<1> HIDE DEF turns
<1>3. PICK e, s : e = << >> /\ s = turns
  OBVIOUS
<1>4. s \in Seq(1..topK)
  BY <1>1, <1>3
<1>5. PICK h : /\ h[0] = e /\ \A k \in 1..Len(s) : h[k] = RouteOp(l, h[k - 1], s[k])
               /\ Routes!Fold(l, e, s) = h[Len(s)]
  BY <1>4, RouteHasRun
<1> QED BY <1>1, <1>2, <1>3, <1>5

\* The router makes topK such choices.
LEMMA RouteIs ==
  ASSUME NEW l, LogitType(l), NEW topK \in Nat, topK <= Cardinality(DOMAIN l)
  PROVE  Chosen(l, Route(l, topK), topK)
<1>3. PICK h : /\ h[0] = << >> /\ \A k \in 1..topK : h[k] = RouteOp(l, h[k - 1], k)
               /\ Route(l, topK) = h[topK]
  BY RouteRun
<1> DEFINE I == {k \in Nat : k <= topK => Chosen(l, h[k], k)}
<1>4. 0 \in I
  <2>1. Cardinality({}) = 0
    BY FS_EmptySet
  <2> DEFINE e == << >>
  <2>2. {e[i] : i \in DOMAIN e} = {} /\ e \in Seq(DOMAIN l) /\ Len(e) = 0
    OBVIOUS
  <2> HIDE DEF e
  <2>3. Chosen(l, e, 0)
    BY <2>1, <2>2 DEF Chosen
  <2> QED BY <1>3, <2>3 DEF e
<1>5. ASSUME NEW k \in Nat, k \in I PROVE k + 1 \in I
  <2> SUFFICES ASSUME k + 1 <= topK PROVE Chosen(l, h[k + 1], k + 1)
    OBVIOUS
  <2>1. k + 1 \in 1..topK /\ (k + 1) - 1 = k /\ Chosen(l, h[k], k)
    BY <1>5
  <2>2. Cardinality(DOMAIN l) \in Nat
    BY FS_CardinalityType DEF LogitType
  <2>3. k < Cardinality(DOMAIN l)
    BY <2>2
  <2>4. h[k + 1] = RouteOp(l, h[k], k + 1)
    BY <1>3, <2>1
  <2> HIDE DEF I
  <2> QED BY <2>1, <2>3, <2>4, ChosenNext
<1>6. topK \in I
  <2> HIDE DEF I
  <2> QED BY <1>4, <1>5, Routes!NatInd
<1> QED BY <1>3, <1>6

\* The router picks topK different experts, none of them worse than one it leaves,
\* the earlier of two equals (ornith_moe_route).
THEOREM RouterPicksBest ==
  ASSUME NEW l, LogitType(l), NEW topK \in Nat, topK <= Cardinality(DOMAIN l)
  PROVE  RoutesBest(l, topK)
BY RouteIs DEF RoutesBest, Chosen, Better

-----------------------------------------------------------------------------
(* The feed-forward network.                                                 *)

Swi == [gate : Int, up : Int, down : Int]

\* A feed-forward block gives an integer.
LEMMA SwiGluType ==
  ASSUME NEW w \in Swi, NEW x \in Int
  PROVE  SwiGlu(w, x) \in Int
<1>1. w.gate \in Int /\ w.up \in Int /\ w.down \in Int
  BY DEF Swi
<1>2. PICK s \in Int : s = Silu((w.gate * x) % P)
  <2>1. (w.gate * x) % P \in Int
    BY <1>1, ResidueOf
  <2> QED BY <2>1, ScalarType
<1>3. w.down * s * w.up * x \in Int
  BY <1>1
<1> QED BY <1>2, <1>3, ResidueOf DEF SwiGlu

\* What the routed experts give is an integer.
LEMMA MoeType ==
  ASSUME NEW L \in Layers, NExperts > 0, NEW x \in Int
  PROVE  MoeForward(W[L].router, W[L].experts, ExpertsPerTok, {}, x) \in Int
<1> DEFINE E == 0..(NExperts - 1)
           l == [e \in DOMAIN W[L].router |-> (W[L].router[e] * x) % P]
           idx == Route(l, ExpertsPerTok)
           w == RouteWeights(l, idx)
           f == [s \in DOMAIN idx |-> w[s] * SwiGlu(W[L].experts[idx[s]], x)]
<1>1. W[L].router \in [E -> Int] /\ W[L].experts \in [E -> Swi]
  <2>1. LayerWeights(L)
    BY WeightsAssumption
  <2> QED BY <2>1 DEF LayerWeights, Vec, Swi
<1>2. NExperts \in Nat /\ ExpertsPerTok \in Nat /\ ExpertsPerTok <= NExperts
  BY ShapeAssumption
<1>3. LogitType(l) /\ DOMAIN l = E /\ Cardinality(E) = NExperts
  <2>1. \A e \in E : (W[L].router[e] * x) % P \in Int
    <3>1. \A e \in E : W[L].router[e] * x \in Int
      <4>1. \A e \in E : W[L].router[e] \in Int
        BY <1>1
      <4> HIDE DEF E, l
      <4> QED BY <4>1
    <3> QED BY <3>1, ResidueOf
  <2>2. l \in [E -> Int] /\ DOMAIN l = E
    BY <1>1, <2>1
  <2> HIDE DEF l
  <2>3. IsFiniteSet(E) /\ Cardinality(E) = NExperts /\ 0 \in E
    <3>1. ~(0 > NExperts - 1) /\ (NExperts - 1) - 0 + 1 = NExperts /\ NExperts - 1 \in Int
      BY <1>2
    <3> QED BY <1>2, <3>1, FS_Interval
  <2> QED BY <2>2, <2>3 DEF LogitType
<1> HIDE DEF l
<1>4. idx \in Seq(E) /\ Len(idx) = ExpertsPerTok
  <2>1. Chosen(l, Route(l, ExpertsPerTok), ExpertsPerTok)
    <3> HIDE DEF E
    <3> QED BY <1>2, <1>3, RouteIs
  <2>2. DOMAIN l = E
    BY <1>3
  <2> HIDE DEF E
  <2> QED BY <2>1, <2>2 DEF Chosen
<1> HIDE DEF idx
<1>5. IsFiniteSet(DOMAIN idx) /\ \A s \in DOMAIN idx : idx[s] \in E
  <2>1. DOMAIN idx = 1..ExpertsPerTok /\ \A s \in DOMAIN idx : idx[s] \in E
    <3> HIDE DEF E
    <3> QED BY <1>2, <1>4
  <2>2. IsFiniteSet(1..ExpertsPerTok)
    BY <1>2, FS_Interval
  <2> QED BY <2>1, <2>2
<1>6. w \in [DOMAIN idx -> Int]
  <2> DEFINE v == [s \in DOMAIN idx |-> l[idx[s]]]
  <2>1. v \in [DOMAIN idx -> Int]
    BY <1>3, <1>5 DEF LogitType
  <2> HIDE DEF v
  <2>2. Softmax(v) \in [DOMAIN idx -> Int]
    BY <1>5, <2>1, VectorType
  <2> QED BY <2>2 DEF RouteWeights, v
<1> HIDE DEF w
<1>7. \A s \in DOMAIN idx : f[s] \in Int
  <2>1. \A s \in DOMAIN idx : SwiGlu(W[L].experts[idx[s]], x) \in Int
    BY <1>1, <1>5, SwiGluType
  <2>2. \A s \in DOMAIN idx : w[s] \in Int
    BY <1>6
  <2> QED BY <2>1, <2>2
<1>8. Sum(f) \in Int
  <2>1. Ints(f)
    BY <1>5, <1>7 DEF Ints
  <2> HIDE DEF f
  <2> QED BY <2>1, SumType
<1>9. Sum([e \in {} |-> SwiGlu(e, x)]) = 0
  BY SumEmpty
<1>10. (Sum(f) + 0) % P \in Int
  BY <1>8, ResidueOf
<1>11. MoeForward(W[L].router, W[L].experts, ExpertsPerTok, {}, x)
         = (Sum(f) + Sum([e \in {} |-> SwiGlu(e, x)])) % P
  BY DEF MoeForward, l, idx, w
<1> QED BY <1>9, <1>10, <1>11

\* So does a layer's feed-forward half, dense or routed.
LEMMA FfnLayerType ==
  ASSUME NEW L \in Layers, NEW x \in Int
  PROVE  FfnLayer(L, x) \in Int
<1>0. LayerWeights(L)
  BY WeightsAssumption
<1>1. PICK xn \in Int : xn = Norm(x, W[L].post_norm)
  <2>1. W[L].post_norm \in Int
    BY <1>0 DEF LayerWeights
  <2> QED BY <2>1, LinearType
<1>2. PICK s \in Int : s = SwiGlu(W[L].shared, xn)
  <2>1. W[L].shared \in Swi
    BY <1>0 DEF LayerWeights, Swi
  <2> QED BY <2>1, SwiGluType
<1>3. Ffn(L, xn) \in Int
  <2>1. CASE NExperts = 0
    BY <1>2, <2>1 DEF Ffn
  <2>2. CASE NExperts # 0
    <3>1. NExperts > 0
      BY <2>2, ShapeAssumption
    <3>2. PICK m \in Int : m = MoeForward(W[L].router, W[L].experts, ExpertsPerTok, {}, xn)
      BY <3>1, MoeType
    <3>3. PICK g \in Int : g = Sigmoid(W[L].shared_gate * xn)
      BY ScalarType
    <3>4. m + g * s \in Int
      OBVIOUS
    <3> QED BY <1>2, <2>2, <3>2, <3>3, <3>4, ResidueOf DEF Ffn
  <2> QED BY <2>1, <2>2
<1>4. x + Ffn(L, xn) \in Int
  BY <1>3
<1> QED BY <1>1, <1>4, ResidueOf DEF FfnLayer

-----------------------------------------------------------------------------
(* A layer over a whole prompt.                                              *)

PartType(L, c) == IF IsFull(L) THEN c \in FullPart ELSE c \in LinPart

\* A layer keeps the type of its part, and a full one adds a position to its cache.
LEMMA LayerTyped ==
  ASSUME NEW L \in Layers, NEW c, PartType(L, c), NEW x \in Int, NEW pos \in Int
  PROVE  LET d == LayerStep(L, c, x, pos)
         IN  /\ PartType(L, d.c) /\ d.x \in Int
             /\ IsFull(L) /\ Len(c.kv) < Cap => Len(d.c.kv) = Len(c.kv) + 1
<1>0. LayerWeights(L)
  BY WeightsAssumption
<1>1. PICK xn \in Int : xn = Normed(L, x)
  <2>1. W[L].attn_norm \in Int
    BY <1>0 DEF LayerWeights
  <2> QED BY <2>1, LinearType DEF Normed
<1>2. CASE IsFull(L)
  <2>1. PICK in : in = FullInput(L, xn, pos)
    OBVIOUS
  <2>2. in.q \in QVec /\ in.k \in KvVec /\ in.v \in KvVec
    BY <1>2, <2>1, FullInputType
  <2>3. c \in FullPart
    BY <1>2 DEF PartType
  <2>4. PICK r : r = GqaStep(c, in.q, in.k, in.v)
    OBVIOUS
  <2>5. /\ r.c \in FullPart /\ r.out \in QVec
        /\ Len(c.kv) < Cap => Len(r.c.kv) = Len(c.kv) + 1
    BY <2>2, <2>3, <2>4, GqaType
  <2>6. PICK o \in Int : o = FullFinish(L, in, r.out)
    BY <1>2, <2>5, FullFinishType
  <2>7. FfnLayer(L, (x + o) % P) \in Int
    <3>1. x + o \in Int
      OBVIOUS
    <3>2. (x + o) % P \in Int
      BY <3>1, ResidueOf
    <3> QED BY <3>2, FfnLayerType
  <2>8. LayerStep(L, c, x, pos) = [c |-> r.c, x |-> FfnLayer(L, (x + o) % P)]
    BY <1>1, <1>2, <2>1, <2>4, <2>6 DEF LayerStep, FullStep
  <2> QED BY <1>2, <2>5, <2>7, <2>8 DEF PartType
<1>3. CASE ~IsFull(L)
  <2>1. c[1] \in LinConv /\ c[2] \in LinState
    BY <1>3 DEF PartType, LinPart
  <2>2. PICK conv : conv = Convolve(L, c[1], xn)
    OBVIOUS
  <2>3. conv.buf \in LinConv /\ conv.out \in [Chans -> Int]
    BY <1>3, <2>1, <2>2, ConvolveType
  <2> DEFINE d(hv) == DeltaStep(c[2][hv], DeltaInput(L, hv, xn, conv.out))
  <2>4. ASSUME NEW hv \in 0..(NV - 1)
        PROVE  d(hv).S \in [0..(KeyDim - 1) -> Int] /\ d(hv).out \in Int
    <3>1. DeltaIn(DeltaInput(L, hv, xn, conv.out), 0..(KeyDim - 1))
      BY <1>3, <2>3, DeltaInputType
    <3>2. c[2][hv] \in [0..(KeyDim - 1) -> Int]
      BY <2>1 DEF LinState
    <3> QED BY <3>1, <3>2, Dimensions, DeltaStepIs
  <2> HIDE DEF d
  <2> DEFINE S == [hv \in 0..(NV - 1) |-> d(hv).S]
             out == [hv \in 0..(NV - 1) |-> d(hv).out]
  <2>5. S \in LinState /\ out \in [0..(NV - 1) -> Int]
    BY <2>4 DEF LinState
  <2>6. LayerStep(L, c, x, pos)
          = [c |-> <<conv.buf, S>>, x |-> FfnLayer(L, (x + LinearFinish(L, xn, out)) % P)]
    BY <1>1, <1>3, <2>2 DEF LayerStep, LinStep, d
  <2> HIDE DEF S, out
  <2>7. PICK o \in Int : o = LinearFinish(L, xn, out)
    BY <1>3, <2>5, LinearFinishType
  <2>8. FfnLayer(L, (x + o) % P) \in Int
    <3>1. x + o \in Int
      OBVIOUS
    <3>2. (x + o) % P \in Int
      BY <3>1, ResidueOf
    <3> QED BY <3>2, FfnLayerType
  <2>9. <<conv.buf, S>> \in LinPart
    BY <2>3, <2>5 DEF LinPart
  <2> QED BY <1>3, <2>6, <2>7, <2>8, <2>9 DEF PartType
<1> QED BY <1>2, <1>3

\* What layer L makes of its part over the hidden states X of T positions.
LayerRun(L, c, X, T, pos) ==
  /\ T \in Nat \ {0} /\ pos \in Int /\ X \in [1..T -> Int] /\ PartType(L, c[0])
  /\ \A t \in 1..T : c[t] = LayerStep(L, c[t - 1], X[t], pos + (t - 1)).c

\* Every part of such a run has the type, and the hidden states after it are integers.
LEMMA RunTypes ==
  ASSUME NEW L \in Layers, NEW c, NEW X, NEW T, NEW pos, LayerRun(L, c, X, T, pos)
  PROVE  /\ \A t \in 0..T : PartType(L, c[t])
         /\ \A t \in 1..T : PartType(L, c[t - 1])
         /\ \A t \in 1..T : LayerStep(L, c[t - 1], X[t], pos + (t - 1)).x \in Int
<1> DEFINE I == {t \in Nat : t <= T => PartType(L, c[t])}
<1>1. 0 \in I
  BY DEF LayerRun
<1>2. ASSUME NEW t \in Nat, t \in I PROVE t + 1 \in I
  <2> SUFFICES ASSUME t + 1 <= T PROVE PartType(L, c[t + 1])
    OBVIOUS
  <2>1. t + 1 \in 1..T /\ (t + 1) - 1 = t /\ PartType(L, c[t])
    BY <1>2 DEF LayerRun
  <2>2. c[t + 1] = LayerStep(L, c[t], X[t + 1], pos + t).c /\ X[t + 1] \in Int /\ pos + t \in Int
    BY <2>1 DEF LayerRun
  <2> HIDE DEF I
  <2> QED BY <2>1, <2>2, LayerTyped
<1>3. \A t \in Nat : t \in I
  <2> HIDE DEF I
  <2> QED BY <1>1, <1>2, TokenStack!NatInd
<1>4. \A t \in 0..T : PartType(L, c[t])
  BY <1>3 DEF LayerRun
<1>5. \A t \in 1..T : t - 1 \in 0..T /\ X[t] \in Int /\ pos + (t - 1) \in Int
  BY DEF LayerRun
<1>6. \A t \in 1..T : PartType(L, c[t - 1])
  BY <1>4, <1>5
<1> QED BY <1>4, <1>5, <1>6, LayerTyped

GqaOp(p, a, t) ==
  LET in == FullInput(p.L, p.xns[t], p.base + t - 1)
      r == GqaStep(a.s.kv[p.L], in.q, in.k, in.v)
  IN [s |-> [a.s EXCEPT !.kv[p.L] = r.c], out |-> Append(a.out, FullFinish(p.L, in, r.out))]
GqaFold == INSTANCE FoldFacts WITH Op <- GqaOp

\* Full attention over a prompt is a fold of FoldFacts.
LEMMA GqaLink ==
  ASSUME NEW s, NEW p
  PROVE  FullAttnPrefill(s, p.L, p.xns, p.base)
           = GqaFold!Fold(p, [s |-> s, out |-> << >>], [t \in DOMAIN p.xns |-> t])
BY DEF FullAttnPrefill, FoldLeft, MapThenFoldSet, GqaFold!Fold, GqaFold!FoldLeft,
       GqaFold!MapThenFoldSet, GqaOp, Max, GqaFold!Max

\* The first n values and the next one.
LEMMA OneMore ==
  ASSUME NEW n \in Nat, NEW f
  PROVE  Append(UpTo(f, n), f[n + 1]) = UpTo(f, n + 1)
<1> DEFINE S == {f[i] : i \in 1..(n + 1)}
           a == UpTo(f, n)
           e == f[n + 1]
           b == UpTo(f, n + 1)
<1>1. e \in S /\ \A i \in 1..(n + 1) : f[i] \in S
  OBVIOUS
<1>2. a \in [1..n -> S] /\ b \in [1..(n + 1) -> S] /\ (\A i \in 1..n : a[i] = b[i]) /\ e = b[n + 1]
  <2>1. \A i \in 1..n : i \in 1..(n + 1)
    OBVIOUS
  <2> HIDE DEF S
  <2> QED BY <1>1, <2>1 DEF UpTo
<1> HIDE DEF S, a, b, e
<1>3. a \in Seq(S) /\ b \in Seq(S) /\ Len(a) = n /\ Len(b) = n + 1
  <2>1. n + 1 \in Nat
    OBVIOUS
  <2> QED BY <1>2, <2>1
<1>4. Append(a, e) = b
  BY <1>1, <1>2, <1>3
<1> QED BY <1>4 DEF a, b, e

\* Full attention over the prompt is its positions one after the other.
LEMMA FullPrefillIs ==
  ASSUME NEW s, Shape(s), NEW L \in Layers, IsFull(L), NEW c, NEW X, NEW T,
         LayerRun(L, c, X, T, s.pos), c[0] = Part(s, L)
  PROVE  LET xns == [t \in 1..T |-> Normed(L, X[t])]
             in(t) == FullInput(L, Normed(L, X[t]), s.pos + (t - 1))
             out(t) == GqaStep(c[t - 1], in(t).q, in(t).k, in(t).v).out
         IN  FullAttnPrefill(s, L, xns, s.pos)
               = [s |-> Put(s, L, c[T]), out |-> [t \in 1..T |-> FullFinish(L, in(t), out(t))]]
<1> DEFINE xns == [t \in 1..T |-> Normed(L, X[t])]
           in(t) == FullInput(L, Normed(L, X[t]), s.pos + (t - 1))
           r(t) == GqaStep(c[t - 1], in(t).q, in(t).k, in(t).v)
           turns == [t \in 1..T |-> t]
           p == [L |-> L, xns |-> xns, base |-> s.pos]
           h == [t \in 0..T |-> [s |-> Put(s, L, c[t]),
                                 out |-> [i \in 1..t |-> FullFinish(L, in(i), r(i).out)]]]
<1>1. T \in Nat /\ T # 0 /\ s.pos \in Int
  BY DEF LayerRun
<1>2. turns \in Seq(1..T) /\ Len(turns) = T /\ \A t \in 1..T : turns[t] = t
  BY <1>1
<1>p. p.L = L /\ p.xns = xns /\ p.base = s.pos /\ DOMAIN xns = 1..T
  OBVIOUS
<1>3. FullAttnPrefill(s, L, xns, s.pos) = GqaFold!Fold(p, [s |-> s, out |-> << >>], turns)
  <2> HIDE DEF p, xns
  <2>1. FullAttnPrefill(s, p.L, p.xns, p.base)
           = GqaFold!Fold(p, [s |-> s, out |-> << >>], [t \in DOMAIN p.xns |-> t])
    BY GqaLink
  <2> QED BY <1>p, <2>1
<1> HIDE DEF turns, r
<1>4. h[0] = [s |-> s, out |-> << >>]
  <2>1. Put(s, L, c[0]) = s
    BY PutPart
  <2>2. [i \in 1..0 |-> FullFinish(L, in(i), r(i).out)] = << >>
    OBVIOUS
  <2>3. 0 \in 0..T
    BY <1>1
  <2> HIDE DEF in
  <2> QED BY <2>1, <2>2, <2>3
<1>5. ASSUME NEW t \in 1..T PROVE h[t] = GqaOp(p, h[t - 1], turns[t])
  <2>1. t - 1 \in 0..T /\ t \in 0..T /\ turns[t] = t /\ s.pos + t - 1 = s.pos + (t - 1)
        /\ t \in Nat /\ t - 1 \in Nat
    BY <1>1, <1>2
  <2>2. c[t] = r(t).c
    <3>1. c[t] = LayerStep(L, c[t - 1], X[t], s.pos + (t - 1)).c
      BY DEF LayerRun
    <3> QED BY <3>1 DEF LayerStep, FullStep, r
  <2>3. xns[t] = Normed(L, X[t])
    OBVIOUS
  <2> DEFINE z == Put(s, L, c[t - 1])
  <2>4. z.kv[L] = c[t - 1]
    <3>1. Part(z, L) = c[t - 1]
      BY PutPart
    <3> HIDE DEF z
    <3> QED BY <3>1 DEF Part
  <2>5. [z EXCEPT !.kv[L] = r(t).c] = Put(s, L, c[t])
    <3>1. [z EXCEPT !.kv[L] = r(t).c] = Put(z, L, r(t).c)
      BY DEF Put
    <3> QED BY <2>2, <3>1, PutPut
  <2> DEFINE o(i) == FullFinish(L, in(i), r(i).out)
             outs(n) == [i \in 1..n |-> o(i)]
  <2> HIDE DEF o, z
  <2>6. Append(outs(t - 1), o(t)) = outs(t)
    <3>1. PICK f : f = [i \in 1..T |-> o(i)]
      OBVIOUS
    <3>2. \A i \in 1..T : f[i] = o(i)
      BY <3>1
    <3>3. (t - 1) + 1 = t /\ \A i \in 1..t : i \in 1..T
      BY <1>1, <2>1
    <3>4. \A i \in 1..(t - 1) : i \in 1..T
      BY <1>1, <2>1
    <3>5. UpTo(f, t - 1) = outs(t - 1)
      BY <3>2, <3>4 DEF UpTo
    <3>6. UpTo(f, t) = outs(t)
      BY <3>2, <3>3 DEF UpTo
    <3>7. Append(UpTo(f, t - 1), f[(t - 1) + 1]) = UpTo(f, (t - 1) + 1)
      BY <2>1, OneMore
    <3> HIDE DEF outs
    <3> QED BY <3>2, <3>3, <3>5, <3>6, <3>7
  <2> HIDE DEF outs
  <2>7. h[t - 1] = [s |-> z, out |-> outs(t - 1)] /\ h[t] = [s |-> Put(s, L, c[t]), out |-> outs(t)]
    BY <2>1 DEF z, outs, o
  <2>8. GqaOp(p, h[t - 1], t)
          = [s |-> [z EXCEPT !.kv[L] = r(t).c], out |-> Append(outs(t - 1), o(t))]
    <3> HIDE DEF h, xns, p, in
    <3>1. FullInput(p.L, p.xns[t], p.base + t - 1) = in(t)
      BY <1>p, <2>1, <2>3 DEF in
    <3>2. GqaStep(h[t - 1].s.kv[p.L], in(t).q, in(t).k, in(t).v) = r(t)
      BY <1>p, <2>4, <2>7 DEF r
    <3>3. h[t - 1].s = z /\ h[t - 1].out = outs(t - 1)
      BY <2>7
    <3> QED BY <1>p, <3>1, <3>2, <3>3 DEF GqaOp, o
  <2> QED BY <2>1, <2>5, <2>6, <2>7, <2>8
<1>6. h[T] = [s |-> Put(s, L, c[T]), out |-> [i \in 1..T |-> FullFinish(L, in(i), r(i).out)]]
  <2>1. T \in 0..T
    BY <1>1
  <2> HIDE DEF in
  <2> QED BY <2>1
<1>7. GqaFold!Fold(p, h[0], turns) = h[T]
  <2> HIDE DEF h, p
  <2>1. turns \in Seq(1..T)
    BY <1>2
  <2>2. \A k \in 1..Len(turns) : h[k] = GqaOp(p, h[k - 1], turns[k])
    BY <1>2, <1>5
  <2>3. PICK b : b = h[0]
    OBVIOUS
  <2>4. GqaFold!Fold(p, b, turns) = h[Len(turns)]
    BY <2>1, <2>2, <2>3, GqaFold!FoldRun
  <2> QED BY <1>2, <2>3, <2>4
<1> HIDE DEF h
<1> QED BY <1>3, <1>4, <1>6, <1>7 DEF r

ConvOp(p, a, x) == LET s == ConvStep(a.buf, x, p.w, p.b)
                   IN [buf |-> s.buf, out |-> Append(a.out, s.out)]
ConvFold == INSTANCE FoldFacts WITH Op <- ConvOp

\* The convolution of a prompt is a fold of FoldFacts.
LEMMA ConvLink ==
  ASSUME NEW buf, NEW xs, NEW p
  PROVE  ConvPrefill(buf, xs, p.w, p.b) = ConvFold!Fold(p, [buf |-> buf, out |-> << >>], xs)
BY DEF ConvPrefill, FoldLeft, MapThenFoldSet, ConvFold!Fold, ConvFold!FoldLeft,
       ConvFold!MapThenFoldSet, ConvOp, Max, ConvFold!Max

\* The windows of a convolution step by step, and what it gives.
ConvSteps(g, xs, w, b) == \A t \in 1..Len(xs) : g[t] = ConvStep(g[t - 1], xs[t], w, b).buf
ConvOuts(g, xs, w, b) == [t \in 1..Len(xs) |-> ConvStep(g[t - 1], xs[t], w, b).out]

\* The convolution of a prompt is its positions one after the other.
LEMMA ConvScan ==
  ASSUME NEW w, NEW b, NEW V, NEW xs \in Seq(V), NEW g, ConvSteps(g, xs, w, b)
  PROVE  ConvPrefill(g[0], xs, w, b) = [buf |-> g[Len(xs)], out |-> ConvOuts(g, xs, w, b)]
<1> DEFINE p == [w |-> w, b |-> b]
           T == Len(xs)
           o == [t \in 1..T |-> ConvStep(g[t - 1], xs[t], w, b).out]
           h == [t \in 0..T |-> [buf |-> g[t], out |-> UpTo(o, t)]]
<1>1. T \in Nat
  OBVIOUS
<1>p. p.w = w /\ p.b = b
  OBVIOUS
<1> HIDE DEF p
<1>2. ConvPrefill(g[0], xs, w, b) = ConvFold!Fold(p, [buf |-> g[0], out |-> << >>], xs)
  <2>1. ConvPrefill(g[0], xs, p.w, p.b) = ConvFold!Fold(p, [buf |-> g[0], out |-> << >>], xs)
    BY ConvLink
  <2> QED BY <1>p, <2>1
<1> HIDE DEF T, o
<1>3. h[0] = [buf |-> g[0], out |-> << >>]
  <2>1. UpTo(o, 0) = << >> /\ 0 \in 0..T
    BY <1>1 DEF UpTo
  <2> QED BY <2>1
<1>4. ASSUME NEW t \in 1..T PROVE h[t] = ConvOp(p, h[t - 1], xs[t])
  <2>1. t - 1 \in 0..T /\ t \in 0..T /\ t - 1 \in Nat /\ (t - 1) + 1 = t
    BY <1>1
  <2>2. h[t] = [buf |-> g[t], out |-> UpTo(o, t)] /\ h[t - 1] = [buf |-> g[t - 1], out |-> UpTo(o, t - 1)]
    BY <2>1
  <2> HIDE DEF h
  <2>3. Append(UpTo(o, t - 1), o[(t - 1) + 1]) = UpTo(o, (t - 1) + 1)
    BY <2>1, OneMore
  <2>4. o[t] = ConvStep(g[t - 1], xs[t], w, b).out /\ g[t] = ConvStep(g[t - 1], xs[t], w, b).buf
    BY DEF o, T, ConvSteps
  <2>5. ConvOp(p, h[t - 1], xs[t])
          = [buf |-> g[t], out |-> Append(UpTo(o, t - 1), o[t])]
    BY <1>p, <2>2, <2>4 DEF ConvOp
  <2> QED BY <2>1, <2>2, <2>3, <2>5
<1>5. h[T] = [buf |-> g[T], out |-> UpTo(o, T)]
  <2>1. T \in 0..T
    BY <1>1
  <2> QED BY <2>1
<1> HIDE DEF h
<1>6. ConvFold!Fold(p, h[0], xs) = h[T]
  <2>1. \A k \in 1..Len(xs) : h[k] = ConvOp(p, h[k - 1], xs[k])
    BY <1>4 DEF T
  <2>2. PICK a : a = h[0]
    OBVIOUS
  <2>3. ConvFold!Fold(p, a, xs) = h[Len(xs)]
    BY <2>1, <2>2, ConvFold!FoldRun
  <2> QED BY <2>2, <2>3 DEF T
<1>7. UpTo(o, T) = ConvOuts(g, xs, w, b)
  BY DEF UpTo, o, ConvOuts, T
<1> QED BY <1>2, <1>3, <1>5, <1>6, <1>7 DEF T

\* What a linear layer gives at the positions of a run.
LinOuts(L, c, X, T) ==
  LET xn(t) == Normed(L, X[t])
      conv(t) == Convolve(L, c[t - 1][1], xn(t)).out
      out(t, hv) == DeltaStep(c[t - 1][2][hv], DeltaInput(L, hv, xn(t), conv(t))).out
  IN [t \in 1..T |-> LinearFinish(L, xn(t), [hv \in 0..(NV - 1) |-> out(t, hv)])]

\* A linear layer over the prompt is its positions one after the other, whatever
\* the chunks of the delta rule.
LEMMA LinearPrefillIs ==
  ASSUME NEW s, Shape(s), NEW L \in Layers, ~IsFull(L), NEW c, NEW X, NEW T,
         LayerRun(L, c, X, T, s.pos), c[0] = Part(s, L)
  PROVE  LinearAttnPrefill(s, L, [t \in 1..T |-> Normed(L, X[t])])
           = [s |-> Put(s, L, c[T]), out |-> LinOuts(L, c, X, T)]
<1> DEFINE xn(t) == Normed(L, X[t])
           xns == [t \in 1..T |-> xn(t)]
           step(t) == Convolve(L, c[t - 1][1], xn(t))
           in(t, hv) == DeltaInput(L, hv, xn(t), step(t).out)
           d(t, hv) == DeltaStep(c[t - 1][2][hv], in(t, hv))
           HV == 0..(NV - 1)
           K == 0..(KeyDim - 1)
<1>1. T \in Nat /\ T # 0 /\ T > 0
  BY DEF LayerRun
<1>0. LayerWeights(L)
  BY WeightsAssumption
<1>2. ASSUME NEW t \in 1..T
      PROVE  /\ xn(t) \in Int /\ c[t - 1][1] \in LinConv /\ c[t - 1][2] \in LinState
             /\ t - 1 \in 0..T /\ t \in 0..T
  <2>1. X[t] \in Int
    BY DEF LayerRun
  <2>2. W[L].attn_norm \in Int
    BY <1>0 DEF LayerWeights
  <2>3. xn(t) \in Int
    BY <2>1, <2>2, LinearType DEF Normed
  <2>4. PartType(L, c[t - 1])
    BY RunTypes
  <2> QED BY <1>1, <2>3, <2>4 DEF PartType, LinPart
<1>3. ASSUME NEW t \in 1..T
      PROVE  /\ c[t] = <<step(t).buf, [hv \in HV |-> d(t, hv).S]>>
             /\ c[t][1] = step(t).buf /\ \A hv \in HV : c[t][2][hv] = d(t, hv).S
  <2>1. c[t] = LayerStep(L, c[t - 1], X[t], s.pos + (t - 1)).c
    BY DEF LayerRun
  <2> HIDE DEF xn
  <2>2. c[t] = LinStep(L, c[t - 1], X[t], xn(t), step(t)).c
    BY <2>1 DEF LayerStep, xn
  <2>3. c[t] = <<step(t).buf, [hv \in HV |-> d(t, hv).S]>>
    <3> HIDE DEF step
    <3> QED BY <2>2 DEF LinStep
  <2> HIDE DEF step, d
  <2> QED BY <2>3
<1>4. ASSUME NEW t \in 1..T PROVE step(t).out \in [Chans -> Int]
  BY <1>2, ConvolveType
<1>5. ASSUME NEW t \in 1..T, NEW hv \in HV PROVE DeltaIn(in(t, hv), K)
  <2>1. step(t).out \in [Chans -> Int] /\ xn(t) \in Int
    BY <1>2, <1>4
  <2> HIDE DEF step, xn
  <2> QED BY <2>1, DeltaInputType
<1> DEFINE g == [t \in 0..T |-> c[t][1]]
           xs == [t \in 1..T |-> Linear(W[L].attn_qkv, xn(t))]
           conv == ConvPrefill(s.conv[L], [t \in DOMAIN xns |-> Linear(W[L].attn_qkv, xns[t])],
                      W[L].ssm_conv1d, NoBias)
<1>6. conv = [buf |-> c[T][1], out |-> [t \in 1..T |-> step(t).out]]
  <2>1. s.conv[L] = g[0]
    <3>1. 0 \in 0..T
      BY <1>1
    <3>2. c[0][1] = s.conv[L]
      BY DEF Part
    <3> QED BY <3>1, <3>2
  <2>2. [t \in DOMAIN xns |-> Linear(W[L].attn_qkv, xns[t])] = xs
    OBVIOUS
  <2> HIDE DEF xn
  <2>3. PICK V : V = {xs[t] : t \in 1..T}
    OBVIOUS
  <2>4. xs \in Seq(V) /\ Len(xs) = T
    <3>1. \A t \in 1..T : xs[t] \in V
      BY <2>3
    <3>2. DOMAIN xs = 1..T /\ xs = [t \in 1..T |-> xs[t]]
      OBVIOUS
    <3> HIDE DEF xs
    <3>3. xs \in [1..T -> V]
      BY <3>1, <3>2
    <3> QED BY <1>1, <3>3
  <2>5. ASSUME NEW t \in 1..T
        PROVE  ConvStep(g[t - 1], xs[t], W[L].ssm_conv1d, NoBias) = step(t) /\ g[t] = step(t).buf
    <3>1. g[t - 1] = c[t - 1][1] /\ g[t] = c[t][1]
      BY <1>2
    <3>2. xs[t] = Linear(W[L].attn_qkv, xn(t))
      OBVIOUS
    <3>3. c[t][1] = step(t).buf
      BY <1>3
    <3> HIDE DEF g, xs
    <3> QED BY <3>1, <3>2, <3>3 DEF Convolve
  <2> HIDE DEF g, xs, step
  <2>6. \A t \in 1..Len(xs) : g[t] = ConvStep(g[t - 1], xs[t], W[L].ssm_conv1d, NoBias).buf
    BY <2>4, <2>5
  <2>7. ConvPrefill(g[0], xs, W[L].ssm_conv1d, NoBias)
          = [buf |-> g[Len(xs)],
             out |-> [t \in 1..Len(xs) |-> ConvStep(g[t - 1], xs[t], W[L].ssm_conv1d, NoBias).out]]
    <3>1. xs \in Seq(V)
      BY <2>4
    <3>2. ConvSteps(g, xs, W[L].ssm_conv1d, NoBias)
      BY <2>6 DEF ConvSteps
    <3>3. ConvPrefill(g[0], xs, W[L].ssm_conv1d, NoBias)
            = [buf |-> g[Len(xs)], out |-> ConvOuts(g, xs, W[L].ssm_conv1d, NoBias)]
      BY <3>1, <3>2, ConvScan
    <3> QED BY <3>3 DEF ConvOuts
  <2>8. g[T] = c[T][1]
    <3>1. T \in 0..T
      BY <1>1
    <3> QED BY <3>1 DEF g
  <2> QED BY <2>1, <2>2, <2>4, <2>5, <2>7, <2>8
<1> HIDE DEF conv, g, xs
<1> DEFINE ins(hv) == [t \in 1..T |-> in(t, hv)]
<1>7. ASSUME NEW hv \in HV
      PROVE  DeltaPrefill(s.S[L][hv],
                          [t \in DOMAIN xns |-> DeltaInput(L, hv, xns[t], conv.out[t])], Chunk)
               = [S |-> c[T][2][hv], out |-> [t \in 1..T |-> d(t, hv).out]]
  <2>1. [t \in DOMAIN xns |-> DeltaInput(L, hv, xns[t], conv.out[t])] = ins(hv)
    <3>1. \A t \in 1..T : conv.out[t] = step(t).out
      BY <1>6
    <3> HIDE DEF step
    <3> QED BY <3>1
  <2> HIDE DEF in
  <2> DEFINE m == [t \in 0..T |-> c[t][2][hv]]
             zs == ins(hv)
  <2>2. PICK U : U = {zs[t] : t \in 1..T}
    OBVIOUS
  <2>3. zs \in Seq(U) /\ Len(zs) = T /\ \A t \in 1..T : zs[t] = in(t, hv)
    <3>1. \A t \in 1..T : zs[t] \in U
      BY <2>2
    <3>2. DOMAIN zs = 1..T /\ zs = [t \in 1..T |-> zs[t]] /\ \A t \in 1..T : zs[t] = in(t, hv)
      OBVIOUS
    <3> HIDE DEF zs
    <3>3. zs \in [1..T -> U]
      BY <3>1, <3>2
    <3> QED BY <1>1, <3>2, <3>3
  <2>4. m[0] = s.S[L][hv] /\ m[0] \in [K -> Int]
    <3>1. 0 \in 0..T /\ 1 \in 1..T /\ 1 - 1 = 0
      BY <1>1
    <3>2. c[0][2] = s.S[L]
      BY DEF Part
    <3>3. c[0][2] \in LinState
      BY <1>2, <3>1
    <3> QED BY <3>1, <3>2, <3>3 DEF LinState
  <2>5. \A t \in 1..T : m[t] = c[t][2][hv] /\ m[t - 1] = c[t - 1][2][hv]
    BY <1>2
  <2>6. m[T] = c[T][2][hv]
    <3>1. T \in 0..T
      BY <1>1
    <3> QED BY <3>1
  <2> HIDE DEF m, zs
  <2>7. \A t \in 1..T : m[t] = DeltaStep(m[t - 1], zs[t]).S
    BY <1>3, <2>3, <2>5
  <2>8. ScanOf(m, zs, Len(zs), K)
    BY <1>1, <1>5, <2>3, <2>4, <2>7, Dimensions DEF ScanOf
  <2>9. Chunk \in Int
    BY ShapeAssumption
  <2>10. DeltaPrefill(m[0], zs, Chunk)
           = [S |-> m[Len(zs)], out |-> [t \in 1..Len(zs) |-> DeltaStep(m[t - 1], zs[t]).out]]
    BY <2>3, <2>8, <2>9, DeltaScan
  <2>11. [t \in 1..T |-> DeltaStep(m[t - 1], zs[t]).out] = [t \in 1..T |-> d(t, hv).out]
    BY <2>3, <2>5
  <2> QED BY <2>1, <2>3, <2>4, <2>6, <2>10, <2>11 DEF zs
<1> HIDE DEF ins, in
<1> DEFINE heads == [hv \in HV |-> DeltaPrefill(s.S[L][hv],
                          [t \in DOMAIN xns |-> DeltaInput(L, hv, xns[t], conv.out[t])], Chunk)]
<1>8. LinearAttnPrefill(s, L, xns)
        = [s |-> [s EXCEPT !.conv[L] = conv.buf, !.S[L] = [hv \in DOMAIN heads |-> heads[hv].S]],
           out |-> [t \in DOMAIN xns |->
                      LinearFinish(L, xns[t], [hv \in DOMAIN heads |-> heads[hv].out[t]])]]
  BY DEF LinearAttnPrefill, conv
<1>9. heads = [hv \in HV |-> [S |-> c[T][2][hv], out |-> [t \in 1..T |-> d(t, hv).out]]]
  BY <1>7
<1> HIDE DEF heads, d
<1>10. [hv \in DOMAIN heads |-> heads[hv].S] = c[T][2]
  <2>1. [hv \in DOMAIN heads |-> heads[hv].S] = [hv \in HV |-> c[T][2][hv]]
    BY <1>9
  <2>2. T \in 1..T
    BY <1>1
  <2>3. PICK z : z = [hv \in HV |-> d(T, hv).S]
    OBVIOUS
  <2>4. c[T][2] = z
    BY <1>3, <2>2, <2>3
  <2>5. z = [hv \in HV |-> z[hv]]
    BY <2>3
  <2> QED BY <2>1, <2>4, <2>5
<1>11. ASSUME NEW t \in 1..T
       PROVE  LinearFinish(L, xns[t], [hv \in DOMAIN heads |-> heads[hv].out[t]])
                = LinearFinish(L, xn(t), [hv \in HV |-> d(t, hv).out])
  <2>1. xns[t] = xn(t)
    OBVIOUS
  <2>2. [hv \in DOMAIN heads |-> heads[hv].out[t]] = [hv \in HV |-> d(t, hv).out]
    BY <1>9
  <2> HIDE DEF xns, xn
  <2> QED BY <2>1, <2>2
<1>12. [s EXCEPT !.conv[L] = conv.buf, !.S[L] = c[T][2]] = Put(s, L, c[T])
  BY <1>6 DEF Put
<1>13. DOMAIN xns = 1..T
  OBVIOUS
<1> HIDE DEF xns, xn
<1> DEFINE Out(t) == LinearFinish(L, xns[t], [hv \in DOMAIN heads |-> heads[hv].out[t]])
           Res(t) == LinearFinish(L, xn(t), [hv \in HV |-> d(t, hv).out])
<1>14. LinearAttnPrefill(s, L, xns) = [s |-> Put(s, L, c[T]), out |-> [t \in 1..T |-> Out(t)]]
  BY <1>8, <1>10, <1>12, <1>13
<1>15. \A t \in 1..T : Out(t) = Res(t)
  BY <1>11
<1> HIDE DEF Out, Res
<1>16. LinearAttnPrefill(s, L, xns) = [s |-> Put(s, L, c[T]), out |-> [t \in 1..T |-> Res(t)]]
  BY <1>14, <1>15
<1>17. [t \in 1..T |-> Res(t)] = LinOuts(L, c, X, T)
  BY DEF LinOuts, Res, xn, d, in
<1> QED BY <1>16, <1>17 DEF xns, xn

\* The hidden states after layer L.
RunX(L, c, X, T, pos) == [t \in 1..T |-> LayerStep(L, c[t - 1], X[t], pos + (t - 1)).x]

\* A layer over the prompt is its positions one after the other.
LEMMA PrefillLayerIs ==
  ASSUME NEW s, Shape(s), NEW L \in Layers, NEW c, NEW X, NEW T,
         LayerRun(L, c, X, T, s.pos), c[0] = Part(s, L)
  PROVE  PrefillLayer([s |-> s, X |-> X], L)
           = [s |-> Put(s, L, c[T]), X |-> RunX(L, c, X, T, s.pos)]
<1> DEFINE xn(t) == Normed(L, X[t])
           xns == [t \in 1..T |-> xn(t)]
<1>1. DOMAIN X = 1..T
  BY DEF LayerRun
<1>2. [t \in DOMAIN X |-> Norm(X[t], W[L].attn_norm)] = xns
  BY <1>1 DEF Normed
<1>3. CASE IsFull(L)
  <2> DEFINE in(t) == FullInput(L, xn(t), s.pos + (t - 1))
             o(t) == FullFinish(L, in(t), GqaStep(c[t - 1], in(t).q, in(t).k, in(t).v).out)
             r == FullAttnPrefill(s, L, xns, s.pos)
  <2>1. r = [s |-> Put(s, L, c[T]), out |-> [t \in 1..T |-> o(t)]]
    BY <1>3, FullPrefillIs
  <2>2. PrefillLayer([s |-> s, X |-> X], L)
          = [s |-> r.s, X |-> [t \in DOMAIN X |-> FfnLayer(L, (X[t] + r.out[t]) % P)]]
    <3> HIDE DEF xns
    <3> QED BY <1>2, <1>3 DEF PrefillLayer
  <2>3. ASSUME NEW t \in 1..T
        PROVE  FfnLayer(L, (X[t] + o(t)) % P) = LayerStep(L, c[t - 1], X[t], s.pos + (t - 1)).x
    BY <1>3 DEF LayerStep, FullStep
  <2> HIDE DEF r, o
  <2> QED BY <1>1, <2>1, <2>2, <2>3 DEF RunX
<1>4. CASE ~IsFull(L)
  <2> DEFINE step(t) == Convolve(L, c[t - 1][1], xn(t))
             d(t, hv) == DeltaStep(c[t - 1][2][hv], DeltaInput(L, hv, xn(t), step(t).out)).out
             o(t) == LinearFinish(L, xn(t), [hv \in 0..(NV - 1) |-> d(t, hv)])
             r == LinearAttnPrefill(s, L, xns)
  <2>1. r = [s |-> Put(s, L, c[T]), out |-> [t \in 1..T |-> o(t)]]
    <3>1. r = [s |-> Put(s, L, c[T]), out |-> LinOuts(L, c, X, T)]
      BY <1>4, LinearPrefillIs
    <3>2. LinOuts(L, c, X, T) = [t \in 1..T |-> o(t)]
      BY DEF LinOuts
    <3> HIDE DEF r, o
    <3> QED BY <3>1, <3>2
  <2>2. PrefillLayer([s |-> s, X |-> X], L)
          = [s |-> r.s, X |-> [t \in DOMAIN X |-> FfnLayer(L, (X[t] + r.out[t]) % P)]]
    <3> HIDE DEF xns
    <3> QED BY <1>2, <1>4 DEF PrefillLayer
  <2>3. ASSUME NEW t \in 1..T
        PROVE  FfnLayer(L, (X[t] + o(t)) % P) = LayerStep(L, c[t - 1], X[t], s.pos + (t - 1)).x
    BY <1>4 DEF LayerStep, LinStep
  <2> HIDE DEF r, o
  <2> QED BY <1>1, <2>1, <2>2, <2>3 DEF RunX
<1> QED BY <1>3, <1>4

-----------------------------------------------------------------------------
(* A prompt through the stack.                                               *)

PrefillOp(p, a, L) == PrefillLayer(a, L)
PrefillStack == INSTANCE FoldFacts WITH Op <- PrefillOp

\* The hidden states X between the layers and the runs C of the layers' parts, over
\* the prompt of T tokens that starts in s.
Runs(s, toks, T, X, C) ==
  /\ T \in Nat \ {0} /\ Len(toks) = T /\ X[0] = [t \in DOMAIN toks |-> Embd[toks[t]]]
  /\ \A L \in Layers : /\ LayerRun(L, C[L], X[L], T, s.pos) /\ C[L][0] = Part(s, L)
                       /\ X[L + 1] = RunX(L, C[L], X[L], T, s.pos)

\* Evaluating the prompt layer by layer ends where these runs end.
LEMMA PrefillRun ==
  ASSUME NEW s, Shape(s), NEW toks, NEW T, NEW X, NEW C, Runs(s, toks, T, X, C)
  PROVE  LET r == Prefill(s, toks)
         IN  /\ r = [st |-> r.st, logits |-> Logits(X[NLayers][T])]
             /\ Shape(r.st) /\ r.st.pos = s.pos + T
             /\ \A L \in Layers : Part(r.st, L) = C[L][T]
<1> DEFINE X0 == [t \in DOMAIN toks |-> Embd[toks[t]]]
           start == [s |-> s, X |-> X0]
           end == PrefillStack!Fold(0, start, Order)
<1>1. Prefill(s, toks) = [st |-> [end.s EXCEPT !.pos = s.pos + Len(toks)],
                          logits |-> Logits(end.X[Len(toks)])]
  BY DEF Prefill, Order, FoldLeft, MapThenFoldSet, PrefillStack!Fold, PrefillStack!FoldLeft,
         PrefillStack!MapThenFoldSet, PrefillOp, Max, PrefillStack!Max
<1>2. PICK h : /\ h[0] = start
               /\ \A k \in 1..Len(Order) : h[k] = PrefillOp(0, h[k - 1], Order[k])
               /\ end = h[Len(Order)]
  <2>1. Order \in Seq(Layers)
    BY OrderIs
  <2> HIDE DEF start
  <2> QED BY <2>1, PrefillStack!FoldHasRun
<1>3. \A k \in 1..NLayers : h[k] = PrefillLayer(h[k - 1], k - 1)
  BY <1>2, OrderIs DEF PrefillOp
<1> DEFINE Good(k) == /\ h[k] = [s |-> h[k].s, X |-> X[k]]
                      /\ Shape(h[k].s) /\ h[k].s.pos = s.pos
                      /\ \A L \in Layers :
                           IF L < k THEN Part(h[k].s, L) = C[L][T]
                           ELSE Part(h[k].s, L) = Part(s, L)
           I == {k \in Nat : k <= NLayers => Good(k)}
<1> HIDE DEF end
<1>4. 0 \in I
  <2>1. \A L \in Layers : ~(L < 0)
    BY OrderIs
  <2>2. X[0] = X0
    BY DEF Runs
  <2> HIDE DEF X0
  <2> QED BY <1>2, <2>1, <2>2
<1>5. ASSUME NEW k \in Nat, k \in I PROVE k + 1 \in I
  <2> SUFFICES ASSUME k + 1 <= NLayers PROVE Good(k + 1)
    OBVIOUS
  <2>1. k \in Layers /\ k + 1 \in 1..NLayers /\ (k + 1) - 1 = k
    BY OrderIs DEF Layers
  <2>2. Good(k)
    <3>1. k <= NLayers
      BY OrderIs
    <3> HIDE DEF Good
    <3> QED BY <1>5, <3>1
  <2>3. /\ LayerRun(k, C[k], X[k], T, s.pos) /\ C[k][0] = Part(s, k)
        /\ X[k + 1] = RunX(k, C[k], X[k], T, s.pos)
    BY <2>1 DEF Runs
  <2> DEFINE z == h[k].s
             c == C[k][T]
  <2>4. h[k + 1] = PrefillLayer([s |-> z, X |-> X[k]], k)
    BY <1>3, <2>1, <2>2
  <2>5. Shape(z) /\ z.pos = s.pos /\ Part(z, k) = Part(s, k)
    BY <2>1, <2>2
  <2> HIDE DEF z
  <2>6. h[k + 1] = [s |-> Put(z, k, c), X |-> X[k + 1]]
    <3>1. LayerRun(k, C[k], X[k], T, z.pos) /\ C[k][0] = Part(z, k)
      BY <2>3, <2>5
    <3>2. PrefillLayer([s |-> z, X |-> X[k]], k)
            = [s |-> Put(z, k, c), X |-> RunX(k, C[k], X[k], T, z.pos)]
      BY <2>1, <2>5, <3>1, PrefillLayerIs
    <3> QED BY <2>3, <2>4, <2>5, <3>2
  <2>7. IsFull(k) \/ c = <<c[1], c[2]>>
    <3>1. T \in 1..T /\ c = LayerStep(k, C[k][T - 1], X[k][T], s.pos + (T - 1)).c
      BY <2>3 DEF LayerRun
    <3> HIDE DEF c
    <3> QED BY <3>1, StepParts
  <2> HIDE DEF c
  <2>8. /\ Shape(Put(z, k, c)) /\ Put(z, k, c).pos = z.pos /\ Part(Put(z, k, c), k) = c
        /\ \A l \in Layers : l # k => Part(Put(z, k, c), l) = Part(z, l)
    <3>1. Shape(z)
      BY <2>5
    <3>2. IsFull(k) \/ c = <<c[1], c[2]>>
      BY <2>7
    <3> HIDE DEF Good, I
    <3> QED BY <2>1, <3>1, <3>2, PutPart
  <2>9. ASSUME NEW L \in Layers
        PROVE  IF L < k + 1 THEN Part(h[k + 1].s, L) = C[L][T]
               ELSE Part(h[k + 1].s, L) = Part(s, L)
    <3>1. L \in Nat
      BY OrderIs
    <3>2. CASE L = k
      BY <2>6, <2>8, <3>2 DEF c
    <3>3. CASE L # k
      <4>1. Part(h[k + 1].s, L) = Part(h[k].s, L) /\ (L < k + 1 <=> L < k)
        BY <2>1, <2>6, <2>8, <3>1, <3>3 DEF z
      <4> QED BY <2>2, <4>1
    <3> QED BY <3>2, <3>3
  <2> QED BY <2>5, <2>6, <2>8, <2>9
<1>6. NLayers \in I
  <2> HIDE DEF I
  <2> QED BY <1>4, <1>5, OrderIs, PrefillStack!NatInd
<1>7. Good(NLayers) /\ end = h[NLayers]
  BY <1>2, <1>6, OrderIs
<1>8. Len(toks) = T
  BY DEF Runs
<1>9. \A L \in Layers : L < NLayers
  BY OrderIs DEF Layers
<1> DEFINE r == [end.s EXCEPT !.pos = s.pos + T]
<1>10. /\ Shape(r) /\ r.pos = s.pos + T
       /\ \A L \in Layers : Part(r, L) = Part(end.s, L)
  <2>1. Shape(end.s)
    BY <1>7
  <2> HIDE DEF Good
  <2>2. r = [pos |-> s.pos + T, kv |-> end.s.kv, conv |-> end.s.conv, S |-> end.s.S]
    BY <2>1 DEF Shape
  <2> HIDE DEF r
  <2> QED BY <2>1, <2>2 DEF Shape, Part
<1> HIDE DEF r
<1>11. Prefill(s, toks) = [st |-> r, logits |-> Logits(X[NLayers][T])]
  <2>1. end.X = X[NLayers]
    BY <1>7
  <2> QED BY <1>1, <1>8, <2>1 DEF r
<1> QED BY <1>7, <1>9, <1>10, <1>11

-----------------------------------------------------------------------------
(* The prompt token by token.                                                *)

SerialOp(p, a, tok) == Token(a.st, tok)
Serial == INSTANCE FoldFacts WITH Op <- SerialOp

\* A state whose parts have their types and count its positions.
StateOk(s) == /\ Shape(s) /\ s.pos \in Nat /\ s.pos <= Cap
              /\ \A L \in Layers : /\ PartType(L, Part(s, L))
                                   /\ IsFull(L) => Len(Part(s, L).kv) = s.pos

LogitsOk(l) == l \in [Vocab -> Int]

\* Any hidden state has logits.
LEMMA LogitsType == ASSUME NEW x \in Int PROVE LogitsOk(Logits(x))
<1>1. PICK n \in Int : n = Norm(x, OutNorm)
  BY LinearType, WeightsAssumption
<1>2. \A t \in Vocab : (OutHead[t] * n) % P \in Int
  <2>1. \A t \in Vocab : OutHead[t] \in Int
    BY WeightsAssumption
  <2>2. \A t \in Vocab : OutHead[t] * n \in Int
    BY <2>1
  <2> QED BY <2>2, ResidueOf
<1> QED BY <1>1, <1>2 DEF Logits, LogitsOk

\* The hidden states of a token through the layers are integers.
LEMMA PassTypes ==
  ASSUME NEW s, StateOk(s), NEW tok \in Vocab, NEW x, NEW r, TokenPass(s, tok, x, r)
  PROVE  /\ \A L \in Layers : x[L] \in Int
         /\ x[NLayers] \in Int
<1> DEFINE I == {k \in Nat : k <= NLayers => x[k] \in Int}
<1>1. 0 \in I
  BY WeightsAssumption DEF TokenPass
<1>2. ASSUME NEW k \in Nat, k \in I PROVE k + 1 \in I
  <2> SUFFICES ASSUME k + 1 <= NLayers PROVE x[k + 1] \in Int
    OBVIOUS
  <2>1. k \in Layers /\ k <= NLayers
    BY OrderIs DEF Layers
  <2>2. x[k] \in Int
    BY <1>2, <2>1
  <2>3. x[k + 1] = LayerStep(k, Part(s, k), x[k], s.pos).x
    BY <2>1 DEF TokenPass
  <2>4. PartType(k, Part(s, k)) /\ s.pos \in Int
    BY <2>1 DEF StateOk
  <2> HIDE DEF I
  <2> QED BY <2>1, <2>2, <2>3, <2>4, LayerTyped
<1>3. \A k \in Nat : k \in I
  <2> HIDE DEF I
  <2> QED BY <1>1, <1>2, Serial!NatInd
<1>4. \A L \in Layers : L \in Nat /\ L <= NLayers
  BY OrderIs DEF Layers
<1>5. NLayers \in Nat /\ NLayers <= NLayers
  BY OrderIs
<1> QED BY <1>3, <1>4, <1>5

\* A token keeps a state good and moves it one position on.
LEMMA TokenOk ==
  ASSUME NEW s, StateOk(s), s.pos < Cap, NEW tok \in Vocab
  PROVE  LET r == Token(s, tok)
         IN  /\ StateOk(r.st) /\ r.st.pos = s.pos + 1 /\ LogitsOk(r.logits)
             /\ r = [st |-> r.st, logits |-> r.logits]
<1>1. Shape(s)
  BY DEF StateOk
<1>2. PICK r : r = Token(s, tok)
  OBVIOUS
<1>3. PICK x : TokenPass(s, tok, x, r)
  BY <1>1, <1>2, TokenRun
<1>4. (\A L \in Layers : x[L] \in Int) /\ x[NLayers] \in Int
  BY <1>3, PassTypes
<1>5. r.st.pos = s.pos + 1 /\ Shape(r.st) /\ r = [st |-> r.st, logits |-> Logits(x[NLayers])]
  BY <1>3 DEF TokenPass
<1>6. LogitsOk(Logits(x[NLayers]))
  BY <1>4, LogitsType
<1>7. r.logits = Logits(x[NLayers])
  BY <1>5
<1>8. s.pos \in Nat /\ Cap \in Nat
  BY ShapeAssumption DEF StateOk
<1>9. ASSUME NEW L \in Layers
      PROVE  /\ PartType(L, Part(r.st, L))
             /\ IsFull(L) => Len(Part(r.st, L).kv) = s.pos + 1
  <2>1. Part(r.st, L) = LayerStep(L, Part(s, L), x[L], s.pos).c
    BY <1>3 DEF TokenPass
  <2>2. PartType(L, Part(s, L)) /\ s.pos \in Int /\ x[L] \in Int
        /\ (IsFull(L) => Len(Part(s, L).kv) = s.pos)
    BY <1>4 DEF StateOk
  <2>3. LET d == LayerStep(L, Part(s, L), x[L], s.pos)
        IN  /\ PartType(L, d.c)
            /\ IsFull(L) /\ Len(Part(s, L).kv) < Cap => Len(d.c.kv) = Len(Part(s, L).kv) + 1
    BY <2>2, LayerTyped
  <2> QED BY <2>1, <2>2, <2>3
<1>10. s.pos + 1 \in Nat /\ s.pos + 1 <= Cap
  BY <1>8
<1>11. StateOk(r.st)
  BY <1>5, <1>9, <1>10 DEF StateOk
<1> QED BY <1>2, <1>5, <1>6, <1>7, <1>11

\* The states of a prompt fed token by token.
SerialRun(s, toks, h) ==
  /\ h[0].st = s
  /\ \A t \in 1..Len(toks) : h[t] = Token(h[t - 1].st, toks[t])
  /\ SerialPrefill(s, toks) = h[Len(toks)]

\* Feeding a prompt token by token passes through a run of states.
LEMMA SerialHasRun ==
  ASSUME NEW s, NEW toks \in Seq(Vocab)
  PROVE  \E h : SerialRun(s, toks, h) /\ h[0] = [st |-> s, logits |-> << >>]
<1>1. PICK b : b = [st |-> s, logits |-> << >>]
  OBVIOUS
<1>2. SerialPrefill(s, toks) = Serial!Fold(0, b, toks)
  BY <1>1 DEF SerialPrefill, FoldLeft, MapThenFoldSet, Serial!Fold, Serial!FoldLeft,
         Serial!MapThenFoldSet, SerialOp, Max, Serial!Max
<1>3. PICK h : /\ h[0] = b /\ \A t \in 1..Len(toks) : h[t] = SerialOp(0, h[t - 1], toks[t])
               /\ Serial!Fold(0, b, toks) = h[Len(toks)]
  BY Serial!FoldHasRun
<1>4. SerialRun(s, toks, h)
  BY <1>1, <1>2, <1>3 DEF SerialRun, SerialOp
<1> QED BY <1>1, <1>3, <1>4

\* All of them are good, as long as there is room.
LEMMA SerialOk ==
  ASSUME NEW s, StateOk(s), NEW toks \in Seq(Vocab), s.pos + Len(toks) <= Cap,
         NEW h, SerialRun(s, toks, h)
  PROVE  /\ \A t \in 0..Len(toks) : StateOk(h[t].st) /\ h[t].st.pos = s.pos + t
         /\ \A t \in 1..Len(toks) : LogitsOk(h[t].logits) /\ h[t] = [st |-> h[t].st, logits |-> h[t].logits]
<1> DEFINE T == Len(toks)
           Good(t) == StateOk(h[t].st) /\ h[t].st.pos = s.pos + t
           I == {t \in Nat : t <= T => Good(t)}
<1>1. T \in Nat /\ s.pos \in Nat /\ Cap \in Nat
  BY ShapeAssumption DEF StateOk
<1>2. 0 \in I
  BY <1>1 DEF SerialRun
<1>3. ASSUME NEW t \in Nat, t + 1 <= T, Good(t)
      PROVE  /\ Good(t + 1) /\ LogitsOk(h[t + 1].logits)
             /\ h[t + 1] = [st |-> h[t + 1].st, logits |-> h[t + 1].logits]
  <2>1. t + 1 \in 1..T /\ (t + 1) - 1 = t /\ s.pos + t < Cap /\ toks[t + 1] \in Vocab
        /\ (s.pos + t) + 1 = s.pos + (t + 1)
    BY <1>1, <1>3
  <2>2. h[t + 1] = Token(h[t].st, toks[t + 1])
    BY <2>1 DEF SerialRun
  <2>3. StateOk(h[t].st) /\ h[t].st.pos < Cap
    BY <1>3, <2>1
  <2>4. LET r == Token(h[t].st, toks[t + 1])
        IN  /\ StateOk(r.st) /\ r.st.pos = h[t].st.pos + 1 /\ LogitsOk(r.logits)
            /\ r = [st |-> r.st, logits |-> r.logits]
    BY <2>1, <2>3, TokenOk
  <2> QED BY <1>3, <2>1, <2>2, <2>4
<1>4. ASSUME NEW t \in Nat, t \in I PROVE t + 1 \in I
  <2> SUFFICES ASSUME t + 1 <= T PROVE Good(t + 1)
    OBVIOUS
  <2>1. t <= T
    BY <1>1
  <2>2. Good(t)
    BY <1>4, <2>1
  <2> HIDE DEF I, Good, T
  <2> QED BY <1>3, <2>2
<1>5. \A t \in Nat : t \in I
  <2> HIDE DEF I
  <2> QED BY <1>2, <1>4, Serial!NatInd
<1>6. \A t \in 0..T : Good(t)
  <2> HIDE DEF Good
  <2> QED BY <1>1, <1>5
<1>7. ASSUME NEW t \in 1..T
      PROVE  LogitsOk(h[t].logits) /\ h[t] = [st |-> h[t].st, logits |-> h[t].logits]
  <2>1. t - 1 \in Nat /\ t - 1 \in 0..T /\ (t - 1) + 1 = t /\ t <= T
    BY <1>1
  <2>2. Good(t - 1)
    BY <1>6, <2>1
  <2> HIDE DEF Good, I, T
  <2> QED BY <1>3, <2>1, <2>2
<1> QED BY <1>6, <1>7

\* Evaluating a prompt layer by layer, every layer over all its tokens and the delta
\* rule in chunks (rforward_prefill), gives the state and the logits of its tokens fed
\* one at a time (rforward_token).
THEOREM PrefillIsSerial ==
  ASSUME NEW s, StateOk(s), NEW toks \in Seq(Vocab), Len(toks) # 0, s.pos + Len(toks) <= Cap
  PROVE  Prefill(s, toks) = SerialPrefill(s, toks)
<1> DEFINE T == Len(toks)
<1>1. T \in Nat \ {0} /\ T \in 1..T /\ s.pos \in Nat /\ s.pos \in Int
  BY DEF StateOk
<1>2. PICK h : SerialRun(s, toks, h)
  BY SerialHasRun
<1>3. /\ \A t \in 0..T : StateOk(h[t].st) /\ h[t].st.pos = s.pos + t
      /\ \A t \in 1..T : LogitsOk(h[t].logits) /\ h[t] = [st |-> h[t].st, logits |-> h[t].logits]
  BY <1>2, SerialOk
<1>4. \A t \in 1..T : t - 1 \in 0..T /\ t \in 0..T /\ toks[t] \in Vocab
  BY <1>1
<1> HIDE DEF T
<1> DEFINE Pass(t, x) == TokenPass(h[t - 1].st, toks[t], x, h[t])
           x(t) == CHOOSE y : Pass(t, y)
<1>5. ASSUME NEW t \in 1..T PROVE Pass(t, x(t))
  <2>1. h[t] = Token(h[t - 1].st, toks[t])
    BY <1>2 DEF SerialRun, T
  <2>2. Shape(h[t - 1].st)
    BY <1>3, <1>4 DEF StateOk
  <2>3. \E y : Pass(t, y)
    BY <2>1, <2>2, TokenRun
  <2> HIDE DEF Pass
  <2> QED BY <2>3
<1> HIDE DEF x
<1>6. ASSUME NEW t \in 1..T
      PROVE  /\ x(t)[0] = Embd[toks[t]]
             /\ \A L \in Layers :
                  /\ x(t)[L] \in Int
                  /\ x(t)[L + 1] = LayerStep(L, Part(h[t - 1].st, L), x(t)[L], s.pos + (t - 1)).x
                  /\ Part(h[t].st, L) = LayerStep(L, Part(h[t - 1].st, L), x(t)[L], s.pos + (t - 1)).c
             /\ h[t].logits = Logits(x(t)[NLayers])
  <2>1. StateOk(h[t - 1].st) /\ h[t - 1].st.pos = s.pos + (t - 1)
    BY <1>3, <1>4
  <2>2. TokenPass(h[t - 1].st, toks[t], x(t), h[t])
    BY <1>5
  <2>3. \A L \in Layers : x(t)[L] \in Int
    BY <1>4, <2>1, <2>2, PassTypes
  <2>4. h[t].logits = Logits(x(t)[NLayers])
    BY <2>2 DEF TokenPass
  <2> HIDE DEF Pass
  <2> QED BY <2>1, <2>2, <2>3, <2>4 DEF TokenPass
<1> HIDE DEF Pass
<1> DEFINE X == [k \in 0..NLayers |-> [t \in 1..T |-> x(t)[k]]]
           C == [L \in Layers |-> [t \in 0..T |-> Part(h[t].st, L)]]
<1>7. \A L \in Layers : L \in 0..NLayers /\ L + 1 \in 0..NLayers
  BY OrderIs DEF Layers
<1>8. ASSUME NEW L \in Layers
      PROVE  /\ LayerRun(L, C[L], X[L], T, s.pos) /\ C[L][0] = Part(s, L)
             /\ X[L + 1] = RunX(L, C[L], X[L], T, s.pos)
  <2> DEFINE c == [t \in 0..T |-> Part(h[t].st, L)]
             Y == [t \in 1..T |-> x(t)[L]]
  <2>1. C[L] = c /\ X[L] = Y /\ X[L + 1] = [t \in 1..T |-> x(t)[L + 1]]
    BY <1>7
  <2>2. Y \in [1..T -> Int] /\ \A t \in 1..T : Y[t] = x(t)[L]
    BY <1>6
  <2>3. \A t \in 1..T : c[t] = Part(h[t].st, L) /\ c[t - 1] = Part(h[t - 1].st, L)
    BY <1>4
  <2>4. c[0] = Part(s, L) /\ PartType(L, c[0])
    <3>1. 0 \in 0..T /\ h[0].st = s
      BY <1>1, <1>2 DEF SerialRun
    <3>2. PartType(L, Part(s, L))
      BY DEF StateOk
    <3> QED BY <3>1, <3>2
  <2> HIDE DEF c, Y, X, C
  <2>5. \A t \in 1..T : c[t] = LayerStep(L, c[t - 1], Y[t], s.pos + (t - 1)).c
    BY <1>6, <2>2, <2>3
  <2>6. LayerRun(L, c, Y, T, s.pos)
    BY <1>1, <2>2, <2>4, <2>5 DEF LayerRun
  <2>7. \A t \in 1..T : x(t)[L + 1] = LayerStep(L, c[t - 1], Y[t], s.pos + (t - 1)).x
    BY <1>6, <2>2, <2>3
  <2>8. [t \in 1..T |-> x(t)[L + 1]] = RunX(L, c, Y, T, s.pos)
    BY <2>7 DEF RunX
  <2> QED BY <2>1, <2>4, <2>6, <2>8
<1>9. X[0] = [t \in DOMAIN toks |-> Embd[toks[t]]]
  <2>1. 0 \in 0..NLayers /\ DOMAIN toks = 1..T
    BY OrderIs DEF T
  <2>2. X[0] = [t \in 1..T |-> x(t)[0]]
    BY <2>1
  <2> HIDE DEF X
  <2> QED BY <1>6, <2>1, <2>2
<1>10. X[NLayers][T] = x(T)[NLayers]
  <2>1. NLayers \in 0..NLayers
    BY OrderIs
  <2> QED BY <1>1, <2>1
<1>11. \A L \in Layers : C[L][T] = Part(h[T].st, L)
  BY <1>1, <1>4
<1> HIDE DEF X, C
<1>12. Runs(s, toks, T, X, C)
  BY <1>1, <1>8, <1>9 DEF Runs, T
<1>13. PICK r : r = Prefill(s, toks)
  OBVIOUS
<1>14. /\ r = [st |-> r.st, logits |-> Logits(X[NLayers][T])]
       /\ Shape(r.st) /\ r.st.pos = s.pos + T
       /\ \A L \in Layers : Part(r.st, L) = C[L][T]
  <2>1. Shape(s)
    BY DEF StateOk
  <2> QED BY <1>12, <1>13, <2>1, PrefillRun
<1>15. Shape(h[T].st) /\ h[T].st.pos = s.pos + T
  BY <1>1, <1>3, <1>4 DEF StateOk
<1>16. r.st = h[T].st
  BY <1>11, <1>14, <1>15, SameParts
<1>17. h[T] = [st |-> h[T].st, logits |-> Logits(X[NLayers][T])]
  BY <1>1, <1>3, <1>6, <1>10
<1>18. SerialPrefill(s, toks) = h[T]
  BY <1>2 DEF SerialRun, T
<1> QED BY <1>13, <1>14, <1>16, <1>17, <1>18

-----------------------------------------------------------------------------
(* The session.                                                              *)

\* A fresh session is good.
LEMMA FreshOk == StateOk(Fresh) /\ Fresh.pos = 0
<1>1. Shape(Fresh)
  BY DEF Fresh, Shape
<1>2. Fresh.pos = 0 /\ 0 \in Nat /\ 0 <= Cap
  BY ShapeAssumption DEF Fresh
<1>3. ASSUME NEW L \in Layers, IsFull(L)
      PROVE  PartType(L, Part(Fresh, L)) /\ Len(Part(Fresh, L).kv) = 0
  <2>1. L \in FullLayers
    BY <1>3 DEF FullLayers
  <2>2. Part(Fresh, L) = [cap |-> Cap, kv |-> << >>]
    BY <1>3, <2>1 DEF Part, Fresh, KvInit
  <2>3. [cap |-> Cap, kv |-> << >>] \in FullPart
    BY DEF FullPart
  <2> QED BY <1>3, <2>2, <2>3 DEF PartType
<1>4. ASSUME NEW L \in Layers, ~IsFull(L) PROVE PartType(L, Part(Fresh, L))
  <2>1. L \in LinLayers
    BY <1>4 DEF FullLayers, LinLayers
  <2> DEFINE b == ConvInit(ConvKernel, Chans)
             S == [hv \in 0..(NV - 1) |-> DeltaInit(0..(KeyDim - 1))]
  <2>2. Part(Fresh, L) = <<b, S>>
    BY <1>4, <2>1 DEF Part, Fresh
  <2>3. S \in LinState
    BY DEF LinState, DeltaInit
  <2>4. b \in LinConv
    <3>1. b \in [1..(ConvKernel - 1) -> [Chans -> Int]]
      BY DEF ConvInit
    <3> HIDE DEF b
    <3>2. ConvKernel - 1 \in Nat
      BY Dimensions
    <3>3. b \in Seq([Chans -> Int]) /\ Len(b) = ConvKernel - 1
      BY <3>1, <3>2
    <3> QED BY <3>3 DEF LinConv
  <2> HIDE DEF b, S
  <2> QED BY <1>4, <2>2, <2>3, <2>4 DEF PartType, LinPart
<1>5. \A L \in Layers : /\ PartType(L, Part(Fresh, L))
                        /\ IsFull(L) => Len(Part(Fresh, L).kv) = Fresh.pos
  BY <1>2, <1>3, <1>4
<1> QED BY <1>1, <1>2, <1>5 DEF StateOk

\* What a history leaves in a fresh session.
LEMMA HistoryOk ==
  ASSUME NEW H \in Seq(Vocab), Len(H) <= Cap
  PROVE  LET r == SerialPrefill(Fresh, H)
         IN  /\ StateOk(r.st) /\ r.st.pos = Len(H)
             /\ H = << >> => r = [st |-> Fresh, logits |-> << >>]
             /\ H # << >> => LogitsOk(r.logits)
             /\ r = [st |-> r.st, logits |-> r.logits]
<1>1. PICK h : SerialRun(Fresh, H, h) /\ h[0] = [st |-> Fresh, logits |-> << >>]
  BY SerialHasRun
<1>2. Len(H) \in Nat /\ Fresh.pos = 0 /\ StateOk(Fresh) /\ Len(H) \in 0..Len(H)
  BY FreshOk
<1>3. Fresh.pos + Len(H) <= Cap /\ Fresh.pos + Len(H) = Len(H)
  BY <1>2
<1>4. /\ \A t \in 0..Len(H) : StateOk(h[t].st) /\ h[t].st.pos = Fresh.pos + t
      /\ \A t \in 1..Len(H) : LogitsOk(h[t].logits) /\ h[t] = [st |-> h[t].st, logits |-> h[t].logits]
  BY <1>1, <1>2, <1>3, SerialOk
<1>5. PICK r : r = SerialPrefill(Fresh, H)
  OBVIOUS
<1>6. r = h[Len(H)]
  BY <1>1, <1>5 DEF SerialRun
<1>7. StateOk(r.st) /\ r.st.pos = Len(H)
  BY <1>2, <1>3, <1>4, <1>6
<1>8. CASE H = << >>
  <2>1. Len(H) = 0
    BY <1>8
  <2> QED BY <1>1, <1>5, <1>6, <1>7, <1>8, <2>1
<1>9. CASE H # << >>
  <2>1. Len(H) \in 1..Len(H)
    BY <1>2, <1>9
  <2> QED BY <1>4, <1>5, <1>6, <1>7, <1>9, <2>1
<1> QED BY <1>8, <1>9

\* Feeding more tokens carries on from where the history left the session.
LEMMA SerialMore ==
  ASSUME NEW H \in Seq(Vocab), Len(H) <= Cap, NEW toks \in Seq(Vocab), Len(toks) # 0
  PROVE  SerialPrefill(Fresh, H \o toks) = SerialPrefill(SerialPrefill(Fresh, H).st, toks)
<1>1. PICK b : b = [st |-> Fresh, logits |-> << >>]
  OBVIOUS
<1>2. \A z : z \in Seq(Vocab) => SerialPrefill(Fresh, z) = Serial!Fold(0, b, z)
  BY <1>1 DEF SerialPrefill, FoldLeft, MapThenFoldSet, Serial!Fold, Serial!FoldLeft,
         Serial!MapThenFoldSet, SerialOp, Max, Serial!Max
<1>3. PICK a : a = SerialPrefill(Fresh, H)
  OBVIOUS
<1>4. PICK d : d = [st |-> a.st, logits |-> << >>]
  OBVIOUS
<1>5. SerialPrefill(a.st, toks) = Serial!Fold(0, d, toks)
  BY <1>4 DEF SerialPrefill, FoldLeft, MapThenFoldSet, Serial!Fold, Serial!FoldLeft,
         Serial!MapThenFoldSet, SerialOp, Max, Serial!Max
<1>6. Serial!Fold(0, b, H \o toks) = Serial!Fold(0, Serial!Fold(0, b, H), toks)
  BY Serial!FoldConcat
<1>7. SerialOp(0, a, toks[1]) = SerialOp(0, d, toks[1])
  BY <1>4 DEF SerialOp
<1>8. Serial!Fold(0, a, toks) = Serial!Fold(0, d, toks)
  BY <1>7, Serial!FoldBase
<1>9. H \o toks \in Seq(Vocab)
  OBVIOUS
<1> QED BY <1>2, <1>3, <1>5, <1>6, <1>8, <1>9

\* One token more is one Token more.
LEMMA SerialOne ==
  ASSUME NEW s, NEW tok \in Vocab
  PROVE  SerialPrefill(s, <<tok>>) = Token(s, tok)
<1>1. PICK toks \in Seq(Vocab) : toks = <<tok>>
  <2>1. <<tok>> \in Seq(Vocab)
    OBVIOUS
  <2> QED BY <2>1
<1>2. Len(toks) = 1 /\ toks[1] = tok
  BY <1>1
<1>3. PICK h : SerialRun(s, toks, h) /\ h[0] = [st |-> s, logits |-> << >>]
  BY SerialHasRun
<1>4. h[0].st = s
  BY <1>3
<1>5. h[1] = Token(h[0].st, tok) /\ SerialPrefill(s, toks) = h[1]
  <2>1. 1 \in 1..Len(toks) /\ 1 - 1 = 0
    BY <1>2
  <2> QED BY <1>2, <1>3, <2>1 DEF SerialRun
<1> QED BY <1>1, <1>4, <1>5

-----------------------------------------------------------------------------
(* The invariant.                                                            *)

\* The history alone determines the state and the logits; the tokens picked are
\* tokens, and only a session with a history generates.
SessionInv ==
  /\ SameAsDecoding /\ hist \in Seq(Vocab) /\ Len(hist) <= Cap
  /\ sp \in Params /\ next \in Vocab \cup {-1}
  /\ next # -1 => hist # << >>

\* In such a state the parts count the same tokens.
LEMMA InStep ==
  ASSUME SessionInv
  PROVE  /\ StateOk(st) /\ st.pos = Len(hist) /\ StateInStep
         /\ hist # << >> => LogitsOk(logits)
         /\ hist = << >> => logits = << >>
<1>1. PICK r : r = SerialPrefill(Fresh, hist)
  OBVIOUS
<1>2. /\ StateOk(r.st) /\ r.st.pos = Len(hist)
      /\ hist = << >> => r = [st |-> Fresh, logits |-> << >>]
      /\ hist # << >> => LogitsOk(r.logits)
  BY <1>1, HistoryOk DEF SessionInv
<1>3. r = [st |-> st, logits |-> logits]
  BY <1>1 DEF SessionInv, SameAsDecoding
<1>4. r.st = st /\ r.logits = logits
  BY <1>3
<1>5. \A L \in FullLayers : KvLen(st.kv[L]) = st.pos
  <2> TAKE L \in FullLayers
  <2>1. L \in Layers /\ IsFull(L)
    BY DEF FullLayers
  <2>2. Len(Part(st, L).kv) = st.pos
    BY <1>2, <1>4, <2>1 DEF StateOk
  <2> QED BY <2>1, <2>2 DEF Part, KvLen
<1>6. \A L \in LinLayers : Len(st.conv[L]) = ConvKernel - 1
  <2> TAKE L \in LinLayers
  <2>1. L \in Layers /\ ~IsFull(L)
    BY DEF LinLayers, FullLayers
  <2>2. PartType(L, Part(st, L))
    BY <1>2, <1>4, <2>1 DEF StateOk
  <2>3. <<st.conv[L], st.S[L]>> \in LinConv \X LinState
    BY <2>1, <2>2 DEF Part, PartType, LinPart
  <2> QED BY <2>3 DEF LinConv
<1>7. StateInStep
  BY <1>2, <1>4, <1>5, <1>6 DEF StateInStep, StateOk
<1> QED BY <1>2, <1>4, <1>7

\* The parameters of a session are sampler parameters.
LEMMA ParamsOk == \A p \in Params : ParamType(p)
<1> TAKE p \in Params
<1>1. p \in [inv_t : Int, top_k : Int, top_p : Int \X Int, min_p : Int \X Int,
             penalty : Int, last_n : Int]
  BY ShapeAssumption
<1>2. p.top_p \in Int \X Int /\ p.min_p \in Int \X Int
  BY <1>1
<1>3. p.top_p[1] \in Int /\ p.top_p[2] \in Int /\ p.min_p[1] \in Int /\ p.min_p[2] \in Int
  BY <1>2
<1> QED BY <1>1, <1>3 DEF ParamType

\* What is picked is a token.
LEMMA PickOk ==
  ASSUME NEW l, LogitsOk(l), NEW p \in Params, NEW H \in Seq(Vocab)
  PROVE  Picks(l, p, H) \subseteq Vocab
<1>1. LogitType(l) /\ DOMAIN l = Vocab
  <2>1. /\ IsFiniteSet(Vocab) /\ Vocab # {} /\ Vocab \subseteq Int
    BY ShapeAssumption
  <2>2. DOMAIN l = Vocab /\ l \in [Vocab -> Int]
    BY DEF LogitsOk
  <2> QED BY <2>1, <2>2 DEF LogitType
<1>2. \A u : Sample(l, p, H, u) \in Vocab
  BY <1>1, ParamsOk, SampledIsToken
<1> QED BY <1>2 DEF Picks

\* What fits in the history is remembered whole.
LEMMA RememberAll ==
  ASSUME hist \in Seq(Vocab), NEW toks \in Seq(Vocab), Len(hist) + Len(toks) <= Cap
  PROVE  /\ Remember(toks) = hist \o toks /\ hist \o toks \in Seq(Vocab)
         /\ Len(hist \o toks) = Len(hist) + Len(toks)
<1> DEFINE all == hist \o toks
           n == Len(hist) + Len(toks)
<1>1. all \in Seq(Vocab) /\ Len(all) = n /\ n \in Nat /\ Cap \in Nat
  BY ShapeAssumption
<1>2. (IF n < Cap THEN n ELSE Cap) = Len(all)
  BY <1>1
<1>3. SubSeq(all, 1, Len(all)) = all
  BY <1>1, SubSeqFull
<1> QED BY <1>1, <1>2, <1>3 DEF Remember

\* A step that feeds toks, in whatever way gives what feeding them one by one gives,
\* keeps the invariant's part about the state.
LEMMA Fed ==
  ASSUME SessionInv, NEW toks \in Seq(Vocab), Len(toks) # 0, Len(hist) + Len(toks) <= Cap,
         NEW r, r = SerialPrefill(st, toks), st' = r.st, logits' = r.logits,
         hist' = Remember(toks)
  PROVE  /\ SameAsDecoding' /\ hist' \in Seq(Vocab) /\ Len(hist') <= Cap /\ hist' # << >>
         /\ LogitsOk(logits')
<1>1. hist \in Seq(Vocab) /\ Len(hist) <= Cap
  BY DEF SessionInv
<1>2. hist' = hist \o toks /\ hist' \in Seq(Vocab) /\ Len(hist') = Len(hist) + Len(toks)
  BY <1>1, RememberAll
<1>3. Len(hist) \in Nat /\ Len(toks) \in Nat
  BY <1>1
<1>4. hist' # << >>
  BY <1>2, <1>3
<1>5. PICK a : a = SerialPrefill(Fresh, hist)
  OBVIOUS
<1>6. a = [st |-> st, logits |-> logits]
  BY <1>5 DEF SessionInv, SameAsDecoding
<1>7. a.st = st
  BY <1>6
<1>8. SerialPrefill(Fresh, hist') = r
  BY <1>1, <1>2, <1>5, <1>7, SerialMore
<1>9. Len(hist') <= Cap
  BY <1>2
<1>10. r = [st |-> r.st, logits |-> r.logits] /\ LogitsOk(r.logits)
  BY <1>2, <1>4, <1>8, <1>9, HistoryOk
<1>11. SameAsDecoding'
  BY <1>8, <1>10 DEF SameAsDecoding, Fresh
<1> QED BY <1>2, <1>4, <1>9, <1>10, <1>11

\* A fresh session is in the invariant.
LEMMA InitInv == Init => SessionInv
<1> SUFFICES ASSUME Init PROVE SessionInv
  OBVIOUS
<1>1. hist = << >> /\ st = Fresh /\ logits = << >> /\ next = -1 /\ sp \in Params
  BY DEF Init
<1>2. hist \in Seq(Vocab) /\ Len(hist) = 0 /\ 0 <= Cap
  BY <1>1, ShapeAssumption
<1>3. SerialPrefill(Fresh, hist) = [st |-> Fresh, logits |-> << >>]
  BY <1>1, <1>2, HistoryOk
<1> QED BY <1>1, <1>2, <1>3 DEF SessionInv, SameAsDecoding

\* Every step keeps it.
LEMMA NextInv == SessionInv /\ [Next]_vars => SessionInv'
<1> SUFFICES ASSUME SessionInv, [Next]_vars PROVE SessionInv'
  OBVIOUS
<1>0. /\ hist \in Seq(Vocab) /\ Len(hist) <= Cap /\ sp \in Params /\ next \in Vocab \cup {-1}
      /\ next # -1 => hist # << >>
  BY DEF SessionInv
<1>s. /\ StateOk(st) /\ st.pos = Len(hist)
      /\ hist # << >> => LogitsOk(logits)
      /\ hist = << >> => logits = << >>
  BY InStep
<1>t. -1 \notin Vocab
  BY ShapeAssumption
<1>1. CASE \E toks \in Prompts : Eval(toks)
  <2>1. PICK toks \in Prompts : Eval(toks)
    BY <1>1
  <2>2. toks \in Seq(Vocab) /\ Len(toks) # 0 /\ Len(hist) + Len(toks) <= Cap
        /\ st.pos + Len(toks) <= Cap
    <3>1. toks \in Seq(Vocab)
      BY ShapeAssumption
    <3>2. Len(toks) > 0 /\ st.pos + Len(toks) <= Cap
      BY <2>1 DEF Eval
    <3> QED BY <1>s, <3>1, <3>2
  <2>3. PICK r : r = RPrefill(st, toks) /\ st' = r.st /\ logits' = r.logits
    BY <2>1 DEF Eval
  <2>4. r = SerialPrefill(st, toks)
    BY <1>s, <2>2, <2>3, PrefillIsSerial DEF RPrefill
  <2>5. hist' = Remember(toks) /\ next' = next /\ next = -1 /\ sp' = sp
    BY <2>1 DEF Eval
  <2>6. /\ SameAsDecoding' /\ hist' \in Seq(Vocab) /\ Len(hist') <= Cap /\ hist' # << >>
    BY <2>2, <2>3, <2>4, <2>5, Fed
  <2> QED BY <1>0, <2>5, <2>6 DEF SessionInv
<1>2. CASE Begin
  <2>1. hist # << >>
    BY <1>2, <1>s DEF Begin
  <2>2. sp' \in Params /\ next' \in Picks(logits, sp', hist)
        /\ UNCHANGED <<serial, st, logits, hist>>
    BY <1>2 DEF Begin
  <2>3. Picks(logits, sp', hist) \subseteq Vocab
    BY <1>0, <1>s, <2>1, <2>2, PickOk
  <2>4. SameAsDecoding'
    BY <2>2 DEF SessionInv, SameAsDecoding, Fresh
  <2> QED BY <1>0, <2>1, <2>2, <2>3, <2>4 DEF SessionInv
<1>3. CASE Step
  <2>1. /\ next # -1 /\ ~Stops /\ hist' = Remember(<<next>>) /\ next' \in Picks(logits', sp, hist')
        /\ sp' = sp
    BY <1>3 DEF Step
  <2>2. PICK r : r = Token(st, next) /\ st' = r.st /\ logits' = r.logits
    BY <1>3 DEF Step
  <2>3. PICK toks \in Seq(Vocab) : toks = <<next>>
    <3>1. next \in Vocab
      BY <1>0, <2>1
    <3>2. <<next>> \in Seq(Vocab)
      BY <3>1
    <3> QED BY <3>2
  <2>4. Len(toks) = 1 /\ Len(toks) # 0 /\ next \in Vocab
    BY <1>0, <2>1, <2>3
  <2>5. Len(hist) + Len(toks) <= Cap
    <3>1. ~(Len(hist) >= Cap) /\ Len(hist) \in Nat /\ Cap \in Nat
      BY <1>0, <1>s, <2>1, ShapeAssumption DEF Stops
    <3> QED BY <2>4, <3>1
  <2>6. r = SerialPrefill(st, toks)
    BY <2>2, <2>3, <2>4, SerialOne
  <2>7. /\ SameAsDecoding' /\ hist' \in Seq(Vocab) /\ Len(hist') <= Cap /\ hist' # << >>
        /\ LogitsOk(logits')
    BY <2>1, <2>2, <2>3, <2>4, <2>5, <2>6, Fed
  <2>8. next' \in Vocab
    BY <1>0, <2>1, <2>7, PickOk
  <2> QED BY <1>0, <2>1, <2>7, <2>8 DEF SessionInv
<1>4. CASE End
  <2>1. next' = -1 /\ UNCHANGED <<serial, st, logits, hist, sp>>
    BY <1>4 DEF End
  <2>2. SameAsDecoding'
    BY <2>1 DEF SessionInv, SameAsDecoding, Fresh
  <2> QED BY <1>0, <2>1, <2>2 DEF SessionInv
<1>5. CASE UNCHANGED vars
  BY <1>5 DEF vars, SessionInv, SameAsDecoding, Fresh
<1> QED BY <1>1, <1>2, <1>3, <1>4, <1>5 DEF Next

\* Whatever the mix of prompts and generations, and however the prompts are evaluated,
\* a session is where its history fed one token at a time to a fresh one would be
\* (rmodel_session_eval and rmodel_session_generate).
THEOREM SessionIsDecoding == Spec => []SameAsDecoding
<1>1. Spec => []SessionInv
  BY InitInv, NextInv, PTL DEF Spec
<1>2. SessionInv => SameAsDecoding
  BY DEF SessionInv
<1> QED BY <1>1, <1>2, PTL

\* The position, the history, every cache and every window count the same tokens.
THEOREM PartsInStep == Spec => []StateInStep
<1>1. Spec => []SessionInv
  BY InitInv, NextInv, PTL DEF Spec
<1>2. SessionInv => StateInStep
  BY InStep
<1> QED BY <1>1, <1>2, PTL

-----------------------------------------------------------------------------
(* The window of the first layer's convolution.                              *)

\* What the first layer convolves for a token.
Mixed(tok) == Linear(W[0].attn_qkv, Norm(Embd[tok], W[0].attn_norm))

\* The window of s holds the last of the first t tokens of H, zeros before them.
WindowAt(s, H, t) ==
  \A j \in 1..(ConvKernel - 1) :
    s.conv[0][j] = IF t - (ConvKernel - 1) + j < 1 THEN NoBias
                   ELSE Mixed(H[t - (ConvKernel - 1) + j])

\* A token moves the window by one.
LEMMA WindowMoves ==
  ASSUME 0 \in LinLayers, NEW s, StateOk(s), NEW H, NEW t \in Nat, WindowAt(s, H, t),
         H[t + 1] \in Vocab
  PROVE  WindowAt(Token(s, H[t + 1]).st, H, t + 1)
<1>1. 0 \in Layers /\ ~IsFull(0)
  BY DEF LinLayers, FullLayers
<1>2. PICK r : r = Token(s, H[t + 1])
  OBVIOUS
<1>3. PICK x : TokenPass(s, H[t + 1], x, r)
  <2>1. Shape(s)
    BY DEF StateOk
  <2> QED BY <1>2, <2>1, TokenRun
<1>4. PICK m : m = Mixed(H[t + 1])
  OBVIOUS
<1>5. r.st.conv[0] = Tail(Append(s.conv[0], m))
  <2>1. x[0] = Embd[H[t + 1]] /\ Part(r.st, 0) = LayerStep(0, Part(s, 0), x[0], s.pos).c
    BY <1>1, <1>3 DEF TokenPass
  <2>2. Part(r.st, 0)[1] = Convolve(0, Part(s, 0)[1], Normed(0, x[0])).buf
    BY <1>1, <2>1 DEF LayerStep, LinStep
  <2>3. Part(r.st, 0)[1] = r.st.conv[0] /\ Part(s, 0)[1] = s.conv[0]
    BY <1>1 DEF Part
  <2>4. Linear(W[0].attn_qkv, Normed(0, x[0])) = m
    BY <1>4, <2>1 DEF Mixed, Normed
  <2> QED BY <2>2, <2>3, <2>4 DEF Convolve, ConvStep
<1>6. PICK b : b = s.conv[0]
  OBVIOUS
<1>7. b \in Seq([Chans -> Int]) /\ Len(b) = ConvKernel - 1
  <2>1. PartType(0, Part(s, 0))
    BY <1>1 DEF StateOk
  <2>2. <<s.conv[0], s.S[0]>> \in LinConv \X LinState
    BY <1>1, <2>1 DEF PartType, LinPart, Part
  <2> QED BY <1>6, <2>2 DEF LinConv
<1>8. m \in [Chans -> Int]
  <2>1. LayerWeights(0)
    BY <1>1, WeightsAssumption
  <2>2. PICK e \in Int : e = Norm(Embd[H[t + 1]], W[0].attn_norm)
    <3>1. Embd[H[t + 1]] \in Int /\ W[0].attn_norm \in Int
      BY <2>1, WeightsAssumption DEF LayerWeights
    <3> QED BY <3>1, LinearType
  <2>3. W[0].attn_qkv \in [Chans -> Int]
    BY <1>1, <2>1 DEF LayerWeights
  <2> QED BY <1>4, <2>2, <2>3, LinearType DEF Mixed
<1>9. PICK V : V = [Chans -> Int]
  OBVIOUS
<1>10. PICK K \in Nat : K = ConvKernel - 1
  BY Dimensions
<1>11. ASSUME NEW j \in 1..K
       PROVE  Tail(Append(b, m))[j] = IF j = K THEN m ELSE b[j + 1]
  <2>1. b \in Seq(V) /\ m \in V /\ Len(b) = K
    BY <1>7, <1>8, <1>9, <1>10
  <2> QED BY <2>1
<1>12. \A j \in 1..K : b[j] = IF (t - K) + j < 1 THEN NoBias ELSE Mixed(H[(t - K) + j])
  BY <1>6, <1>10 DEF WindowAt
<1>13. ASSUME NEW j \in 1..K
       PROVE  Tail(Append(b, m))[j]
                = IF ((t + 1) - K) + j < 1 THEN NoBias ELSE Mixed(H[((t + 1) - K) + j])
  <2>1. CASE j = K
    <3>1. ((t + 1) - K) + j = t + 1 /\ ~(t + 1 < 1)
      BY <2>1
    <3> QED BY <1>4, <1>11, <2>1, <3>1
  <2>2. CASE j # K
    <3>1. ((t + 1) - K) + j = (t - K) + (j + 1) /\ j + 1 \in 1..K
      BY <2>2
    <3> QED BY <1>11, <1>12, <2>2, <3>1
  <2> QED BY <2>1, <2>2
<1> QED BY <1>2, <1>5, <1>6, <1>10, <1>13 DEF WindowAt

\* The window of a fresh session is empty.
LEMMA WindowFresh == ASSUME 0 \in LinLayers, NEW H PROVE WindowAt(Fresh, H, 0)
<1>1. PICK K \in Nat : K = ConvKernel - 1
  BY Dimensions
<1>2. Fresh.conv[0] = [j \in 1..K |-> NoBias]
  BY <1>1 DEF Fresh, ConvInit, NoBias
<1>3. \A j \in 1..K : (0 - K) + j < 1
  OBVIOUS
<1> QED BY <1>1, <1>2, <1>3 DEF WindowAt

\* The convolution of the first layer sees the last tokens of the session, across
\* prompts, chunks and generated tokens, and zeros before the first one.
LEMMA WindowHolds == SessionInv => ConvWindow
<1> SUFFICES ASSUME SessionInv, 0 \in LinLayers PROVE ConvWindow
  BY DEF ConvWindow
<1> DEFINE n == Len(hist)
<1>1. hist \in Seq(Vocab) /\ n <= Cap /\ n \in Nat
  BY DEF SessionInv
<1>2. PICK h : SerialRun(Fresh, hist, h)
  BY <1>1, SerialHasRun
<1>3. \A t \in 0..n : StateOk(h[t].st)
  <2>1. Fresh.pos + n <= Cap /\ StateOk(Fresh)
    BY <1>1, FreshOk
  <2> QED BY <1>1, <1>2, <2>1, SerialOk
<1> DEFINE I == {t \in Nat : t <= n => WindowAt(h[t].st, hist, t)}
<1>4. 0 \in I
  <2>1. h[0].st = Fresh
    BY <1>2 DEF SerialRun
  <2>2. WindowAt(Fresh, hist, 0)
    BY WindowFresh
  <2> QED BY <2>1, <2>2
<1>5. ASSUME NEW t \in Nat, t \in I PROVE t + 1 \in I
  <2> SUFFICES ASSUME t + 1 <= n PROVE WindowAt(h[t + 1].st, hist, t + 1)
    OBVIOUS
  <2>1. t \in 0..n /\ t + 1 \in 1..n /\ (t + 1) - 1 = t
    BY <1>1
  <2>2. WindowAt(h[t].st, hist, t) /\ StateOk(h[t].st) /\ hist[t + 1] \in Vocab
    BY <1>1, <1>3, <1>5, <2>1
  <2>3. h[t + 1] = Token(h[t].st, hist[t + 1])
    BY <1>2, <2>1 DEF SerialRun
  <2> HIDE DEF I, n
  <2> QED BY <2>2, <2>3, WindowMoves
<1>6. WindowAt(h[n].st, hist, n)
  <2>1. \A t \in Nat : t \in I
    <3> HIDE DEF I
    <3> QED BY <1>4, <1>5, Serial!NatInd
  <2> QED BY <1>1, <2>1
<1>7. st = h[n].st
  <2>1. PICK r : r = SerialPrefill(Fresh, hist)
    OBVIOUS
  <2>2. r = [st |-> st, logits |-> logits]
    BY <2>1 DEF SessionInv, SameAsDecoding
  <2>3. r.st = st
    BY <2>2
  <2> QED BY <1>2, <2>1, <2>3 DEF SerialRun
<1> QED BY <1>6, <1>7 DEF WindowAt, ConvWindow, Mixed

\* The window of the first layer holds the last tokens of the session, whatever fed
\* them.
THEOREM WindowIsHistory == Spec => []ConvWindow
<1>1. Spec => []SessionInv
  BY InitInv, NextInv, PTL DEF Spec
<1> QED BY <1>1, WindowHolds, PTL
===============================================================================
