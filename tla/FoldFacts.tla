------------------------------- MODULE FoldFacts -------------------------------
(***************************************************************************)
(* What FoldLeft and FoldFunction do, for every operator: the folds the    *)
(* models are built from, step by step. A module that folds with Op        *)
(* instantiates this one with Op (p, what the operator takes from its      *)
(* context, the value so far, the element) and cites the facts by name.    *)
(***************************************************************************)
EXTENDS Integers, SequencesExt, FiniteSetsExt, FiniteSetTheorems, WellFoundedInduction, TLAPS

CONSTANT Op(_, _, _)

-----------------------------------------------------------------------------
(* Numbers.                                                                  *)

\* A set of numbers that is not empty has a least one.
LEMMA LeastNumber ==
  ASSUME NEW T \in SUBSET Nat, T # {}
  PROVE  \E m \in T : \A k \in T : m <= k
<1> DEFINE R == {ss \in Nat \X Nat : ss[1] < ss[2]}
<1>1. IsWellFoundedOn(R, Nat)
  BY NatLessThanWellFounded DEF OpToRel
<1>2. PICK x \in T : \A y \in T : ~(<<y, x>> \in R)
  BY <1>1, WFMin
<1>3. ASSUME NEW y \in T, y < x PROVE FALSE
  <2>1. <<y, x>> \in Nat \X Nat /\ <<y, x>>[1] < <<y, x>>[2]
    BY <1>3
  <2>2. <<y, x>> \in R
    BY <2>1, Zenon
  <2> HIDE DEF R
  <2> QED BY <1>2, <2>2
<1>4. \A y \in T : x <= y
  <2>1. \A y \in T : y \in Nat /\ x \in Nat
    OBVIOUS
  <2> HIDE DEF R
  <2> QED BY <1>3, <2>1
<1> QED BY <1>4

\* Induction over the numbers, for a set in place of a predicate.
LEMMA NatInd ==
  ASSUME NEW S, 0 \in S, \A n \in Nat : n \in S => n + 1 \in S
  PROVE  \A n \in Nat : n \in S
<1> SUFFICES ASSUME Nat \ S # {} PROVE FALSE
  OBVIOUS
<1>1. PICK m \in Nat \ S : \A k \in Nat \ S : m <= k
  BY LeastNumber
<1>2. m # 0 /\ m - 1 \in Nat /\ ~(m <= m - 1) /\ (m - 1) + 1 = m
  BY <1>1
<1>3. m - 1 \in S
  BY <1>1, <1>2
<1> QED BY <1>1, <1>2, <1>3

\* The greatest of some of the first n numbers is one of them.
LEMMA MaxIn ==
  ASSUME NEW n \in Nat, NEW T \in SUBSET (1..n), T # {}
  PROVE  Max(T) \in T /\ \A x \in T : x <= Max(T)
<1> DEFINE D == {n - x : x \in T}
<1>1. D \in SUBSET Nat /\ D # {}
  <2>1. PICK x \in T : TRUE
    OBVIOUS
  <2>2. n - x \in D
    BY <2>1
  <2>3. ASSUME NEW d \in D PROVE d \in Nat
    BY <2>3
  <2> QED BY <2>2, <2>3
<1>2. PICK m \in D : \A k \in D : m <= k
  BY <1>1, LeastNumber
<1>3. PICK y \in T : m = n - y
  BY <1>2
<1>4. ASSUME NEW x \in T PROVE y >= x
  <2>1. n - x \in D
    OBVIOUS
  <2>2. x \in Int /\ y \in Int
    OBVIOUS
  <2> HIDE DEF D
  <2> QED BY <1>2, <1>3, <2>1, <2>2
<1> QED BY <1>4 DEF Max

-----------------------------------------------------------------------------
(* Recursion over numbers.                                                   *)

\* The function that goes on from its value at the number before.
Rec(p, a, n) == CHOOSE r : r = [i \in a..n |-> Op(p, r[i - 1], i)]

\* It exists if the first value does not ask for one before it.
THEOREM RecAt ==
  ASSUME NEW p, NEW a \in Int, NEW n \in Int, \A x, y : Op(p, x, a) = Op(p, y, a)
  PROVE  /\ DOMAIN Rec(p, a, n) = a..n
         /\ \A i \in a..n : Rec(p, a, n)[i] = Op(p, Rec(p, a, n)[i - 1], i)
<1> DEFINE Is(r, m) == r = [i \in a..(a + m - 1) |-> Op(p, r[i - 1], i)]
           S == {m \in Nat : \E r : Is(r, m)}
<1>1. 0 \in S
  <2> DEFINE r == [i \in a..(a + 0 - 1) |-> 0]
  <2>1. Is(r, 0)
    OBVIOUS
  <2> QED BY <2>1
<1>2. ASSUME NEW m \in Nat, m \in S PROVE m + 1 \in S
  <2>1. PICK r : Is(r, m)
    BY <1>2
  <2> DEFINE q == [i \in a..(a + (m + 1) - 1) |-> Op(p, r[i - 1], i)]
  <2>2. ASSUME NEW i \in a..(a + (m + 1) - 1) PROVE Op(p, r[i - 1], i) = Op(p, q[i - 1], i)
    <3>1. CASE i = a
      BY <1>2, <3>1
    <3>2. CASE i # a
      <4>1. i - 1 \in a..(a + m - 1) /\ i - 1 \in a..(a + (m + 1) - 1)
        BY <3>2
      <4>2. r[i - 1] = Op(p, r[(i - 1) - 1], i - 1)
        BY <2>1, <4>1
      <4>3. q[i - 1] = r[i - 1]
        BY <4>1, <4>2
      <4> QED BY <4>3
    <3> QED BY <3>1, <3>2
  <2>3. Is(q, m + 1)
    <3> HIDE DEF Is
    <3>1. q = [i \in a..(a + (m + 1) - 1) |-> Op(p, q[i - 1], i)]
      BY <2>2
    <3> QED BY <3>1 DEF Is
  <2> HIDE DEF Is, q
  <2> QED BY <2>3
<1>3. \E r : r = [i \in a..n |-> Op(p, r[i - 1], i)]
  <2>1. CASE a <= n
    <3>1. n - a + 1 \in Nat /\ a + (n - a + 1) - 1 = n
      BY <2>1
    <3>2. n - a + 1 \in S
      BY <1>1, <1>2, <3>1, NatInd
    <3> QED BY <3>1, <3>2
  <2>2. CASE n < a
    <3>1. a..n = {}
      BY <2>2
    <3> DEFINE r == [i \in a..n |-> 0]
    <3>2. r = [i \in a..n |-> Op(p, r[i - 1], i)]
      BY <3>1
    <3> QED BY <3>2
  <2> QED BY <2>1, <2>2
<1>4. Rec(p, a, n) = [i \in a..n |-> Op(p, Rec(p, a, n)[i - 1], i)]
  BY <1>3 DEF Rec
<1>5. PICK r : r = Rec(p, a, n)
  OBVIOUS
<1>6. r = [i \in a..n |-> Op(p, r[i - 1], i)]
  BY <1>4, <1>5
<1> QED BY <1>5, <1>6

\* The function whose values ask for later ones only.
Down(p, n) == CHOOSE f : f = [i \in 1..n |-> Op(p, f, i)]

\* It exists.
THEOREM DownAt ==
  ASSUME NEW p, NEW n \in Nat,
         \A f, g : \A i \in 1..n :
            (\A j \in (i + 1)..n : f[j] = g[j]) => Op(p, f, i) = Op(p, g, i)
  PROVE  \A i \in 1..n : Down(p, n)[i] = Op(p, Down(p, n), i)
<1> DEFINE Is(f, m) == \A i \in 1..n : i > n - m => f[i] = Op(p, f, i)
           S == {m \in Nat : \E f : Is(f, m)}
<1>1. 0 \in S
  <2>1. Is(<<>>, 0)
    OBVIOUS
  <2> HIDE DEF Is
  <2> QED BY <2>1
<1>2. ASSUME NEW m \in Nat, m \in S PROVE m + 1 \in S
  <2>1. PICK f : Is(f, m)
    BY <1>2
  <2>2. PICK g : g = [i \in 1..n |-> IF i = n - m THEN Op(p, f, i) ELSE f[i]]
    OBVIOUS
  <2>3. ASSUME NEW i \in 1..n, i > n - (m + 1) PROVE g[i] = Op(p, g, i)
    <3>1. \A j \in (i + 1)..n : g[j] = f[j]
      BY <2>2, <2>3
    <3>2. Op(p, g, i) = Op(p, f, i)
      BY <3>1
    <3>3. CASE i = n - m
      BY <2>2, <3>2, <3>3
    <3>4. CASE i # n - m
      <4>1. i > n - m
        BY <2>3, <3>4
      <4>2. g[i] = f[i] /\ f[i] = Op(p, f, i)
        BY <2>1, <2>2, <3>4, <4>1
      <4> QED BY <3>2, <4>2
    <3> QED BY <3>3, <3>4
  <2>4. Is(g, m + 1)
    BY <2>3
  <2> HIDE DEF Is
  <2> QED BY <2>4
<1>3. n \in S
  <2> HIDE DEF S
  <2> QED BY <1>1, <1>2, NatInd
<1>4. PICK f : \A i \in 1..n : f[i] = Op(p, f, i)
  <2>1. PICK f : Is(f, n)
    BY <1>3
  <2> QED BY <2>1
<1>5. PICK q : q = [i \in 1..n |-> f[i]]
  OBVIOUS
<1>6. \A i \in 1..n : Op(p, q, i) = Op(p, f, i)
  BY <1>5
<1>7. q = [i \in 1..n |-> Op(p, q, i)]
  BY <1>4, <1>5, <1>6
<1>8. Down(p, n) = [i \in 1..n |-> Op(p, Down(p, n), i)]
  BY <1>7 DEF Down
<1>9. PICK r : r = Down(p, n)
  OBVIOUS
<1>10. r = [i \in 1..n |-> Op(p, r, i)]
  BY <1>8, <1>9
<1> QED BY <1>9, <1>10

-----------------------------------------------------------------------------
(* Folds over the elements of a sequence.                                    *)

Fold(p, b, s) == FoldLeft(LAMBDA a, e : Op(p, a, e), b, s)

\* The function by which FoldLeft is defined.
Step(p, b, s, f, t) == IF t = {} THEN b ELSE Op(p, f[t \ {Max(t)}], s[Max(t)])
Iter(p, b, s, n) == CHOOSE f : f = [t \in SUBSET (1..n) |-> Step(p, b, s, f, t)]

\* The recursive function behind FoldLeft exists.
LEMMA IterExists ==
  ASSUME NEW p, NEW b, NEW s, NEW n \in Nat
  PROVE  \A t \in SUBSET (1..n) :
           Iter(p, b, s, n)[t] = Step(p, b, s, Iter(p, b, s, n), t)
<1> DEFINE Is(f, m) == f = [t \in SUBSET (1..m) |-> Step(p, b, s, f, t)]
           S == {m \in Nat : \E f : Is(f, m)}
<1>1. 0 \in S
  <2> DEFINE f == [t \in SUBSET (1..0) |-> b]
  <2>1. Is(f, 0)
    BY DEF Step
  <2> QED BY <2>1
<1>2. ASSUME NEW m \in Nat, m \in S PROVE m + 1 \in S
  <2>1. PICK f : Is(f, m)
    BY <1>2
  <2> DEFINE g == [t \in SUBSET (1..(m + 1)) |-> Step(p, b, s, f, t)]
  <2>2. ASSUME NEW t \in SUBSET (1..(m + 1)) PROVE Step(p, b, s, f, t) = Step(p, b, s, g, t)
    <3>1. CASE t = {}
      BY <3>1 DEF Step
    <3>2. CASE t # {}
      <4>1. t \ {Max(t)} \in SUBSET (1..m)
        <5>0. m + 1 \in Nat
          OBVIOUS
        <5>1. Max(t) \in t /\ \A x \in t : x <= Max(t)
          BY <3>2, <5>0, MaxIn
        <5>2. ASSUME NEW x \in t, x # Max(t) PROVE x \in 1..m
          <6>1. x \in 1..(m + 1) /\ Max(t) \in 1..(m + 1) /\ x <= Max(t)
            BY <5>1
          <6> QED BY <5>2, <6>1
        <5> QED BY <5>2
      <4>2. f[t \ {Max(t)}] = Step(p, b, s, f, t \ {Max(t)})
        BY <2>1, <4>1
      <4>3. t \ {Max(t)} \in SUBSET (1..(m + 1))
        BY <4>1
      <4>4. g[t \ {Max(t)}] = f[t \ {Max(t)}]
        BY <4>2, <4>3
      <4> QED BY <4>4 DEF Step
    <3> QED BY <3>1, <3>2
  <2>3. Is(g, m + 1)
    <3> HIDE DEF Is
    <3>1. g = [t \in SUBSET (1..(m + 1)) |-> Step(p, b, s, g, t)]
      BY <2>2
    <3> QED BY <3>1 DEF Is
  <2> HIDE DEF Is, g
  <2> QED BY <2>3
<1>3. n \in S
  BY <1>1, <1>2, NatInd
<1>4. \E f : f = [t \in SUBSET (1..n) |-> Step(p, b, s, f, t)]
  BY <1>3
<1>5. Iter(p, b, s, n) = [t \in SUBSET (1..n) |-> Step(p, b, s, Iter(p, b, s, n), t)]
  BY <1>4 DEF Iter
<1>6. PICK f : f = Iter(p, b, s, n)
  OBVIOUS
<1>7. f = [t \in SUBSET (1..n) |-> Step(p, b, s, f, t)]
  BY <1>5, <1>6
<1> QED BY <1>6, <1>7

\* What it does at a prefix: one step after the prefix before.
LEMMA IterAt ==
  ASSUME NEW p, NEW b, NEW s, NEW n \in Nat, NEW k \in 0..n
  PROVE  Iter(p, b, s, n)[1..k] =
           IF k = 0 THEN b ELSE Op(p, Iter(p, b, s, n)[1..(k - 1)], s[k])
<1>1. Iter(p, b, s, n)[1..k] = Step(p, b, s, Iter(p, b, s, n), 1..k)
  <2>1. 1..k \in SUBSET (1..n)
    OBVIOUS
  <2> QED BY <2>1, IterExists
<1>2. CASE k = 0
  BY <1>1, <1>2 DEF Step
<1>3. CASE k # 0
  <2>1. 1..k # {} /\ 1..k \in SUBSET (1..n)
    BY <1>3
  <2>2. Max(1..k) \in 1..k /\ \A x \in 1..k : x <= Max(1..k)
    BY <2>1, MaxIn
  <2>3. Max(1..k) = k /\ (1..k) \ {k} = 1..(k - 1)
    BY <2>1, <2>2
  <2> QED BY <1>1, <1>3, <2>1, <2>3 DEF Step
<1> QED BY <1>2, <1>3

\* A fold is the value of that function at the whole sequence.
LEMMA FoldIs ==
  ASSUME NEW p, NEW b, NEW S, NEW s \in Seq(S)
  PROVE  Fold(p, b, s) = Iter(p, b, s, Len(s))[1..Len(s)]
<1>1. DOMAIN s = 1..Len(s)
  OBVIOUS
<1> QED BY <1>1, Zenon DEF Fold, FoldLeft, MapThenFoldSet, Iter, Step

\* A fold over sequences is what goes through the values h.
THEOREM FoldRun ==
  ASSUME NEW p, NEW b, NEW S, NEW s \in Seq(S), NEW h,
         h[0] = b, \A k \in 1..Len(s) : h[k] = Op(p, h[k - 1], s[k])
  PROVE  Fold(p, b, s) = h[Len(s)]
<1> DEFINE n == Len(s)
           f == Iter(p, b, s, n)
           T == {k \in Nat : k <= n => f[1..k] = h[k]}
<1>n. n \in Nat
  OBVIOUS
<1>0. \A k \in 0..n : f[1..k] = IF k = 0 THEN b ELSE Op(p, f[1..(k - 1)], s[k])
  BY <1>n, IterAt
<1> HIDE DEF n, f
<1>1. 0 \in T
  BY <1>n, <1>0
<1>2. ASSUME NEW k \in Nat, k \in T PROVE k + 1 \in T
  <2> SUFFICES ASSUME k + 1 <= n PROVE f[1..(k + 1)] = h[k + 1]
    OBVIOUS
  <2>1. f[1..(k + 1)] = Op(p, f[1..k], s[k + 1])
    <3>1. k + 1 \in 0..n /\ k + 1 # 0 /\ (k + 1) - 1 = k
      BY <1>n
    <3> QED BY <1>0, <3>1
  <2>2. f[1..k] = h[k]
    BY <1>2, <1>n
  <2>3. h[k + 1] = Op(p, h[k], s[k + 1])
    <3>1. k + 1 \in 1..n /\ (k + 1) - 1 = k
      BY <1>n
    <3> QED BY <3>1 DEF n
  <2> QED BY <2>1, <2>2, <2>3
<1>3. n \in T
  BY <1>1, <1>2, <1>n, NatInd
<1>4. f[1..n] = h[n]
  BY <1>3, <1>n
<1> QED BY <1>4, FoldIs DEF n, f

\* The values a fold goes through.
THEOREM FoldHasRun ==
  ASSUME NEW p, NEW b, NEW S, NEW s \in Seq(S)
  PROVE  \E h : /\ h[0] = b /\ \A k \in 1..Len(s) : h[k] = Op(p, h[k - 1], s[k])
               /\ DOMAIN h = 0..Len(s)
               /\ Fold(p, b, s) = h[Len(s)]
<1> DEFINE n == Len(s)
           h == [k \in 0..n |-> Iter(p, b, s, n)[1..k]]
<1>n. n \in Nat
  OBVIOUS
<1>1. h[0] = b
  BY <1>n, IterAt
<1>2. ASSUME NEW k \in 1..n PROVE h[k] = Op(p, h[k - 1], s[k])
  <2>1. k \in 0..n /\ k # 0 /\ k - 1 \in 0..n
    BY <1>n
  <2> QED BY <2>1, <1>n, IterAt
<1>3. DOMAIN h = 0..n
  OBVIOUS
<1> HIDE DEF h
<1>4. Fold(p, b, s) = h[n]
  BY <1>1, <1>2, FoldRun
<1> QED BY <1>1, <1>2, <1>3, <1>4

\* Nothing to fold leaves the base.
THEOREM FoldEmpty ==
  ASSUME NEW p, NEW b
  PROVE  Fold(p, b, <<>>) = b
<1>1. ASSUME NEW s \in Seq({b}), Len(s) = 0 PROVE Fold(p, b, s) = b
  <2>1. PICK h : h[0] = b /\ Fold(p, b, s) = h[Len(s)]
    BY FoldHasRun
  <2> QED BY <1>1, <2>1
<1>2. <<>> \in Seq({b}) /\ Len(<<>>) = 0
  OBVIOUS
<1> QED BY <1>1, <1>2

\* h is what a fold goes through.
Runs(p, b, s, h) ==
  /\ h[0] = b /\ \A k \in 1..Len(s) : h[k] = Op(p, h[k - 1], s[k])
  /\ Fold(p, b, s) = h[Len(s)]

\* Every fold goes through something.
THEOREM FoldRuns ==
  ASSUME NEW p, NEW b, NEW S, NEW s \in Seq(S)
  PROVE  \E h : Runs(p, b, s, h)
BY FoldHasRun DEF Runs

\* One more element is one more step.
THEOREM FoldAppend ==
  ASSUME NEW p, NEW b, NEW S, NEW s \in Seq(S), NEW e
  PROVE  Fold(p, b, Append(s, e)) = Op(p, Fold(p, b, s), e)
<1>1. PICK h : /\ h[0] = b /\ \A k \in 1..Len(s) : h[k] = Op(p, h[k - 1], s[k])
               /\ Fold(p, b, s) = h[Len(s)]
  BY FoldHasRun
<1> DEFINE n == Len(s)
           t == Append(s, e)
           g == [k \in 0..(n + 1) |-> IF k = n + 1 THEN Op(p, h[n], e) ELSE h[k]]
<1>2. /\ n \in Nat /\ t \in Seq(S \cup {e}) /\ Len(t) = n + 1 /\ t[n + 1] = e
      /\ \A k \in 1..n : t[k] = s[k]
  OBVIOUS
<1> HIDE DEF t
<1>3. g[0] = b
  BY <1>1, <1>2
<1>4. ASSUME NEW k \in 1..(n + 1) PROVE g[k] = Op(p, g[k - 1], t[k])
  <2>1. CASE k = n + 1
    <3>1. g[k] = Op(p, h[n], e)
      BY <1>2, <2>1
    <3>2. g[k - 1] = h[n] /\ t[k] = e
      BY <1>2, <2>1
    <3> HIDE DEF g
    <3> QED BY <3>1, <3>2
  <2>2. CASE k \in 1..n
    <3>1. g[k] = h[k] /\ g[k - 1] = h[k - 1] /\ t[k] = s[k]
      BY <1>2, <2>2
    <3>2. h[k] = Op(p, h[k - 1], s[k])
      BY <1>1, <2>2
    <3> HIDE DEF g
    <3> QED BY <3>1, <3>2
  <2> QED BY <1>2, <2>1, <2>2
<1>5. g[n + 1] = Op(p, h[n], e)
  BY <1>2
<1> HIDE DEF g, n
<1>6. Fold(p, b, t) = g[n + 1]
  BY <1>2, <1>3, <1>4, FoldRun
<1> QED BY <1>1, <1>5, <1>6 DEF t, n

\* A fold over two sequences goes on where the first one ended.
THEOREM FoldConcat ==
  ASSUME NEW p, NEW b, NEW S, NEW s \in Seq(S), NEW t \in Seq(S)
  PROVE  Fold(p, b, s \o t) = Fold(p, Fold(p, b, s), t)
<1> DEFINE n == Len(s)
           m == Len(t)
           c == Fold(p, b, s)
           u == s \o t
<1>1. PICK h : h[0] = b /\ (\A k \in 1..n : h[k] = Op(p, h[k - 1], s[k])) /\ c = h[n]
  BY FoldHasRun
<1>2. PICK g : g[0] = c /\ (\A k \in 1..m : g[k] = Op(p, g[k - 1], t[k])) /\ Fold(p, c, t) = g[m]
  BY FoldHasRun
<1>3. /\ n \in Nat /\ m \in Nat /\ u \in Seq(S) /\ Len(u) = n + m
      /\ \A k \in 1..n : u[k] = s[k]
      /\ \A k \in (n + 1)..(n + m) : u[k] = t[k - n]
  OBVIOUS
<1> DEFINE r == [k \in 0..(n + m) |-> IF k <= n THEN h[k] ELSE g[k - n]]
<1> HIDE DEF n, m, u, c
<1>4. r[0] = b
  BY <1>1, <1>3
<1>5. ASSUME NEW k \in 1..(n + m) PROVE r[k] = Op(p, r[k - 1], u[k])
  <2>1. CASE k <= n
    <3>1. k \in 1..n /\ r[k] = h[k] /\ r[k - 1] = h[k - 1]
      BY <1>3, <2>1
    <3> HIDE DEF r
    <3> QED BY <1>1, <1>3, <3>1
  <2>2. CASE k = n + 1
    <3>1. r[k] = g[1] /\ r[k - 1] = h[n] /\ 1 \in 1..m /\ k \in (n + 1)..(n + m) /\ k - n = 1
      BY <1>3, <2>2
    <3> HIDE DEF r
    <3>2. g[1] = Op(p, g[0], t[1]) /\ u[k] = t[1]
      BY <1>2, <1>3, <3>1
    <3> QED BY <1>1, <1>2, <3>1, <3>2
  <2>3. CASE k > n + 1
    <3>1. /\ r[k] = g[k - n] /\ r[k - 1] = g[(k - n) - 1]
          /\ k - n \in 1..m /\ k \in (n + 1)..(n + m)
      BY <1>3, <2>3
    <3> HIDE DEF r
    <3>2. g[k - n] = Op(p, g[(k - n) - 1], t[k - n]) /\ u[k] = t[k - n]
      BY <1>2, <1>3, <3>1
    <3> QED BY <3>1, <3>2
  <2> QED BY <1>3, <2>1, <2>2, <2>3
<1>6. r[n + m] = g[m]
  <2>1. CASE m = 0
    <3>1. r[n + m] = h[n] /\ g[m] = g[0]
      BY <1>3, <2>1
    <3> HIDE DEF r
    <3> QED BY <1>1, <1>2, <3>1
  <2>2. CASE m # 0
    BY <1>3, <2>2
  <2> QED BY <2>1, <2>2
<1> HIDE DEF r
<1>7. Fold(p, b, u) = r[n + m]
  <2>1. 1..Len(u) = 1..(n + m)
    BY <1>3
  <2>2. \A k \in 1..Len(u) : r[k] = Op(p, r[k - 1], u[k])
    BY <1>5, <2>1
  <2> QED BY <1>3, <1>4, <2>2, FoldRun
<1> QED BY <1>2, <1>6, <1>7 DEF u, c

\* Only what the first step makes of its start matters.
THEOREM FoldBase ==
  ASSUME NEW p, NEW b, NEW c, NEW S, NEW s \in Seq(S), Len(s) # 0,
         Op(p, b, s[1]) = Op(p, c, s[1])
  PROVE  Fold(p, b, s) = Fold(p, c, s)
<1> DEFINE n == Len(s)
<1>1. PICK h : /\ h[0] = b /\ \A k \in 1..n : h[k] = Op(p, h[k - 1], s[k])
               /\ Fold(p, b, s) = h[n]
  BY FoldHasRun
<1> DEFINE r == [k \in 0..n |-> IF k = 0 THEN c ELSE h[k]]
<1>2. n \in Nat /\ n # 0
  OBVIOUS
<1>3. r[0] = c /\ r[n] = h[n]
  BY <1>2
<1>4. ASSUME NEW k \in 1..n PROVE r[k] = Op(p, r[k - 1], s[k])
  <2>0. h[k] = Op(p, h[k - 1], s[k])
    BY <1>1
  <2> HIDE DEF n
  <2>1. CASE k = 1
    <3>1. r[k] = h[1] /\ r[k - 1] = c /\ k - 1 = 0
      BY <1>2, <2>1
    <3> HIDE DEF r
    <3> QED BY <1>1, <2>0, <2>1, <3>1
  <2>2. CASE k # 1
    <3>1. r[k] = h[k] /\ r[k - 1] = h[k - 1]
      BY <1>2, <2>2
    <3> HIDE DEF r
    <3> QED BY <2>0, <3>1
  <2> QED BY <2>1, <2>2
<1> HIDE DEF r
<1>5. Fold(p, c, s) = r[n]
  BY <1>3, <1>4, FoldRun
<1> QED BY <1>1, <1>3, <1>5

\* What every step keeps, a fold keeps.
THEOREM FoldKeeps ==
  ASSUME NEW p, NEW b, NEW S, NEW s \in Seq(S), NEW X, b \in X,
         \A x \in X, k \in 1..Len(s) : Op(p, x, s[k]) \in X
  PROVE  Fold(p, b, s) \in X
<1>1. PICK h : /\ h[0] = b /\ \A k \in 1..Len(s) : h[k] = Op(p, h[k - 1], s[k])
               /\ Fold(p, b, s) = h[Len(s)]
  BY FoldHasRun
<1> DEFINE T == {k \in Nat : k <= Len(s) => h[k] \in X}
<1>2. 0 \in T
  BY <1>1
<1>3. ASSUME NEW k \in Nat, k \in T PROVE k + 1 \in T
  <2> SUFFICES ASSUME k + 1 <= Len(s) PROVE h[k + 1] \in X
    OBVIOUS
  <2>1. h[k] \in X /\ k + 1 \in 1..Len(s) /\ (k + 1) - 1 = k
    BY <1>3
  <2>2. h[k + 1] = Op(p, h[k], s[k + 1])
    BY <1>1, <2>1
  <2> QED BY <2>1, <2>2
<1>4. Len(s) \in T
  <2>1. Len(s) \in Nat
    OBVIOUS
  <2> HIDE DEF T
  <2> QED BY <1>2, <1>3, <2>1, NatInd
<1> QED BY <1>1, <1>4

-----------------------------------------------------------------------------
(* Folds over the values of a function with a finite domain.                 *)

FunFold(p, b, g) == FoldFunction(LAMBDA e, a : Op(p, a, e), b, g)

\* The function by which FoldFunction is defined.
Pick(t) == CHOOSE x \in t : TRUE
FunStep(p, b, g, f, t) == IF t = {} THEN b ELSE Op(p, f[t \ {Pick(t)}], g[Pick(t)])
FunIter(p, b, g) == CHOOSE f : f = [t \in SUBSET DOMAIN g |-> FunStep(p, b, g, f, t)]

\* An element is taken from a set that has one.
LEMMA Picked == ASSUME NEW t, t # {} PROVE Pick(t) \in t
BY DEF Pick

\* The recursive function behind FoldFunction exists.
LEMMA FunIterExists ==
  ASSUME NEW p, NEW b, NEW g, IsFiniteSet(DOMAIN g)
  PROVE  \A t \in SUBSET DOMAIN g :
           FunIter(p, b, g)[t] = FunStep(p, b, g, FunIter(p, b, g), t)
<1> DEFINE D == DOMAIN g
           Upto(m) == {u \in SUBSET D : Cardinality(u) <= m}
           Is(f, m) == f = [t \in Upto(m) |-> FunStep(p, b, g, f, t)]
           S == {m \in Nat : \E f : Is(f, m)}
<1>0. \A u \in SUBSET D : IsFiniteSet(u) /\ Cardinality(u) \in Nat /\ Cardinality(u) <= Cardinality(D)
  BY FS_Subset, FS_CardinalityType
<1>d. Cardinality(D) \in Nat
  BY FS_CardinalityType
<1>e. ASSUME NEW t \in SUBSET D, t # {}
      PROVE  Pick(t) \in t /\ Cardinality(t \ {Pick(t)}) = Cardinality(t) - 1
  BY <1>0, <1>e, Picked, FS_RemoveElement
<1>1. 0 \in S
  <2> DEFINE f == [t \in Upto(0) |-> b]
  <2>1. ASSUME NEW t \in Upto(0) PROVE t = {}
    <3>1. Cardinality(t) = 0 /\ IsFiniteSet(t)
      BY <1>0
    <3> QED BY <3>1, FS_EmptySet
  <2>2. Is(f, 0)
    BY <2>1 DEF FunStep
  <2> QED BY <2>2
<1>2. ASSUME NEW m \in Nat, m \in S PROVE m + 1 \in S
  <2>1. PICK f : Is(f, m)
    BY <1>2
  <2> DEFINE h == [t \in Upto(m + 1) |-> FunStep(p, b, g, f, t)]
  <2>2. ASSUME NEW t \in Upto(m + 1) PROVE FunStep(p, b, g, f, t) = FunStep(p, b, g, h, t)
    <3>1. CASE t = {}
      BY <3>1 DEF FunStep
    <3>2. CASE t # {}
      <4> DEFINE r == t \ {Pick(t)}
      <4>1. r \in Upto(m)
        BY <1>0, <1>e, <3>2
      <4>2. r \in Upto(m + 1)
        BY <1>0, <4>1
      <4> HIDE DEF r
      <4>3. f[r] = FunStep(p, b, g, f, r) /\ h[r] = FunStep(p, b, g, f, r)
        BY <2>1, <4>1, <4>2
      <4> QED BY <4>3 DEF FunStep, r
    <3> QED BY <3>1, <3>2
  <2>3. Is(h, m + 1)
    <3> HIDE DEF Is, Upto
    <3>1. h = [t \in Upto(m + 1) |-> FunStep(p, b, g, h, t)]
      BY <2>2
    <3> QED BY <3>1 DEF Is
  <2> HIDE DEF Is, h, Upto
  <2> QED BY <2>3
<1>3. Cardinality(D) \in S
  <2> HIDE DEF S
  <2> QED BY <1>1, <1>2, <1>d, NatInd
<1>4. Upto(Cardinality(D)) = SUBSET D
  BY <1>0
<1>5. \E f : f = [t \in SUBSET D |-> FunStep(p, b, g, f, t)]
  <2> HIDE DEF Upto
  <2> QED BY <1>3, <1>4
<1>6. FunIter(p, b, g) = [t \in SUBSET D |-> FunStep(p, b, g, FunIter(p, b, g), t)]
  BY <1>5 DEF FunIter
<1>7. PICK f : f = FunIter(p, b, g)
  OBVIOUS
<1>8. f = [t \in SUBSET D |-> FunStep(p, b, g, f, t)]
  BY <1>6, <1>7
<1> QED BY <1>7, <1>8

\* What it does at a set of places: one step after the set without one of them.
LEMMA FunIterAt ==
  ASSUME NEW p, NEW b, NEW g, IsFiniteSet(DOMAIN g), NEW t \in SUBSET DOMAIN g, t # {}
  PROVE  FunIter(p, b, g)[t] = Op(p, FunIter(p, b, g)[t \ {Pick(t)}], g[Pick(t)])
<1>1. FunIter(p, b, g)[t] = FunStep(p, b, g, FunIter(p, b, g), t)
  BY FunIterExists
<1> QED BY <1>1 DEF FunStep

\* A fold is the value of that function at the whole domain.
LEMMA FunFoldIs ==
  ASSUME NEW p, NEW b, NEW g
  PROVE  FunFold(p, b, g) = FunIter(p, b, g)[DOMAIN g]
BY Zenon DEF FunFold, FoldFunction, FoldFunctionOnSet, MapThenFoldSet, FunIter, FunStep, Pick

\* Only the values at the places of t matter.
LEMMA FunIterSame ==
  ASSUME NEW p, NEW b, NEW g, NEW h, IsFiniteSet(DOMAIN g), IsFiniteSet(DOMAIN h),
         NEW d \in SUBSET (DOMAIN g \cap DOMAIN h), \A x \in d : g[x] = h[x]
  PROVE  FunIter(p, b, g)[d] = FunIter(p, b, h)[d]
<1> DEFINE S == {m \in Nat : \A t \in SUBSET d :
                    Cardinality(t) = m => FunIter(p, b, g)[t] = FunIter(p, b, h)[t]}
<1>0. \A t \in SUBSET d : IsFiniteSet(t) /\ Cardinality(t) \in Nat
  <2>1. IsFiniteSet(d)
    BY FS_Subset
  <2> QED BY <2>1, FS_Subset, FS_CardinalityType
<1>1. 0 \in S
  <2> SUFFICES ASSUME NEW t \in SUBSET d, Cardinality(t) = 0
               PROVE  FunIter(p, b, g)[t] = FunIter(p, b, h)[t]
    OBVIOUS
  <2>1. t = {}
    BY <1>0, FS_EmptySet
  <2>2. FunIter(p, b, g)[t] = b /\ FunIter(p, b, h)[t] = b
    BY <2>1, FunIterExists DEF FunStep
  <2> QED BY <2>2
<1>2. ASSUME NEW m \in Nat, m \in S PROVE m + 1 \in S
  <2> SUFFICES ASSUME NEW t \in SUBSET d, Cardinality(t) = m + 1
               PROVE  FunIter(p, b, g)[t] = FunIter(p, b, h)[t]
    OBVIOUS
  <2>1. t # {}
    BY FS_EmptySet, <1>0
  <2>2. Pick(t) \in t /\ Cardinality(t \ {Pick(t)}) = m
    <3>1. Pick(t) \in t /\ IsFiniteSet(t)
      BY <1>0, <2>1, Picked
    <3>2. Cardinality(t \ {Pick(t)}) = Cardinality(t) - 1
      BY <3>1, FS_RemoveElement
    <3> QED BY <3>1, <3>2
  <2>3. FunIter(p, b, g)[t \ {Pick(t)}] = FunIter(p, b, h)[t \ {Pick(t)}]
    BY <1>2, <2>2
  <2>4. /\ FunIter(p, b, g)[t] = Op(p, FunIter(p, b, g)[t \ {Pick(t)}], g[Pick(t)])
        /\ FunIter(p, b, h)[t] = Op(p, FunIter(p, b, h)[t \ {Pick(t)}], h[Pick(t)])
    <3>1. t \in SUBSET DOMAIN g /\ t \in SUBSET DOMAIN h
      OBVIOUS
    <3> QED BY <2>1, <3>1, FunIterAt
  <2> QED BY <2>2, <2>3, <2>4
<1>3. \A m \in Nat : m \in S
  <2> HIDE DEF S
  <2> QED BY <1>1, <1>2, NatInd
<1> QED BY <1>0, <1>3

\* A function without a place leaves the base.
THEOREM FunFoldEmpty ==
  ASSUME NEW p, NEW b, NEW g, DOMAIN g = {}
  PROVE  FunFold(p, b, g) = b
<1>1. IsFiniteSet(DOMAIN g)
  BY FS_EmptySet
<1>2. FunIter(p, b, g)[DOMAIN g] = FunStep(p, b, g, FunIter(p, b, g), DOMAIN g)
  BY <1>1, FunIterExists
<1> QED BY <1>2, FunFoldIs DEF FunStep

\* What every step keeps, a fold keeps.
LEMMA FunIterKeeps ==
  ASSUME NEW p, NEW b, NEW g, IsFiniteSet(DOMAIN g), NEW X, b \in X,
         \A a \in X, x \in DOMAIN g : Op(p, a, g[x]) \in X
  PROVE  \A t \in SUBSET DOMAIN g : FunIter(p, b, g)[t] \in X
<1> DEFINE S == {m \in Nat : \A t \in SUBSET DOMAIN g :
                    Cardinality(t) = m => FunIter(p, b, g)[t] \in X}
<1>0. \A t \in SUBSET DOMAIN g : IsFiniteSet(t) /\ Cardinality(t) \in Nat
  BY FS_Subset, FS_CardinalityType
<1>1. 0 \in S
  <2> SUFFICES ASSUME NEW t \in SUBSET DOMAIN g, Cardinality(t) = 0
               PROVE  FunIter(p, b, g)[t] \in X
    OBVIOUS
  <2>1. t = {}
    BY <1>0, FS_EmptySet
  <2>2. FunIter(p, b, g)[t] = b
    BY <2>1, FunIterExists DEF FunStep
  <2> QED BY <2>2
<1>2. ASSUME NEW m \in Nat, m \in S PROVE m + 1 \in S
  <2> SUFFICES ASSUME NEW t \in SUBSET DOMAIN g, Cardinality(t) = m + 1
               PROVE  FunIter(p, b, g)[t] \in X
    OBVIOUS
  <2>1. t # {}
    BY FS_EmptySet, <1>0
  <2>2. Pick(t) \in t /\ Cardinality(t \ {Pick(t)}) = m
    <3>1. Pick(t) \in t /\ IsFiniteSet(t)
      BY <1>0, <2>1, Picked
    <3>2. Cardinality(t \ {Pick(t)}) = Cardinality(t) - 1
      BY <3>1, FS_RemoveElement
    <3> QED BY <3>1, <3>2
  <2>3. FunIter(p, b, g)[t \ {Pick(t)}] \in X
    BY <1>2, <2>2
  <2>4. FunIter(p, b, g)[t] = Op(p, FunIter(p, b, g)[t \ {Pick(t)}], g[Pick(t)])
    BY <2>1, FunIterAt
  <2> QED BY <2>2, <2>3, <2>4
<1>3. \A m \in Nat : m \in S
  <2> HIDE DEF S
  <2> QED BY <1>1, <1>2, NatInd
<1> QED BY <1>0, <1>3

\* A fold stays in a set that every step keeps.
THEOREM FunFoldKeeps ==
  ASSUME NEW p, NEW b, NEW g, IsFiniteSet(DOMAIN g), NEW X, b \in X,
         \A a \in X, x \in DOMAIN g : Op(p, a, g[x]) \in X
  PROVE  FunFold(p, b, g) \in X
BY FunIterKeeps, FunFoldIs

\* The fold stays in X and the order of the values does not matter to it.
Commutes(p, b, g, X) ==
  /\ b \in X /\ \A a \in X, x \in DOMAIN g : Op(p, a, g[x]) \in X
  /\ \A a \in X, x, y \in DOMAIN g : Op(p, Op(p, a, g[x]), g[y]) = Op(p, Op(p, a, g[y]), g[x])

\* h is g without its value at y.
Without(h, g, y) == DOMAIN h = DOMAIN g \ {y} /\ \A x \in DOMAIN h : h[x] = g[x]

\* When the order does not matter, any value may be taken last.
LEMMA FunIterRemove ==
  ASSUME NEW p, NEW b, NEW g, IsFiniteSet(DOMAIN g), NEW X, b \in X,
         \A a \in X, x \in DOMAIN g : Op(p, a, g[x]) \in X,
         \A a \in X, x, y \in DOMAIN g :
           Op(p, Op(p, a, g[x]), g[y]) = Op(p, Op(p, a, g[y]), g[x])
  PROVE  \A t \in SUBSET DOMAIN g, y \in DOMAIN g :
           y \in t => FunIter(p, b, g)[t] = Op(p, FunIter(p, b, g)[t \ {y}], g[y])
<1> DEFINE F == FunIter(p, b, g)
           S == {m \in Nat : \A t \in SUBSET DOMAIN g : Cardinality(t) = m =>
                    \A y \in DOMAIN g : y \in t => F[t] = Op(p, F[t \ {y}], g[y])}
<1>0. \A t \in SUBSET DOMAIN g : IsFiniteSet(t) /\ Cardinality(t) \in Nat
  BY FS_Subset, FS_CardinalityType
<1>f. \A t \in SUBSET DOMAIN g : t # {} => F[t] = Op(p, F[t \ {Pick(t)}], g[Pick(t)])
  BY FunIterAt
<1>x. \A t \in SUBSET DOMAIN g : F[t] \in X
  BY FunIterKeeps
<1> HIDE DEF F
<1>1. 0 \in S
  <2> SUFFICES ASSUME NEW t \in SUBSET DOMAIN g, Cardinality(t) = 0 PROVE t = {}
    OBVIOUS
  <2> QED BY <1>0, FS_EmptySet
<1>2. ASSUME NEW m \in Nat, m \in S PROVE m + 1 \in S
  <2> SUFFICES ASSUME NEW t \in SUBSET DOMAIN g, Cardinality(t) = m + 1,
                      NEW y \in DOMAIN g, y \in t
               PROVE  F[t] = Op(p, F[t \ {y}], g[y])
    OBVIOUS
  <2> DEFINE x == Pick(t)
  <2>1. x \in t /\ Cardinality(t \ {x}) = m /\ Cardinality(t \ {y}) = m
    <3>1. x \in t /\ IsFiniteSet(t)
      BY <1>0, Picked
    <3> HIDE DEF x
    <3>2. Cardinality(t \ {x}) = Cardinality(t) - 1
      BY <3>1, FS_RemoveElement
    <3>3. Cardinality(t \ {y}) = Cardinality(t) - 1
      BY <3>1, FS_RemoveElement
    <3> QED BY <3>1, <3>2, <3>3
  <2>2. F[t] = Op(p, F[t \ {x}], g[x])
    BY <1>f
  <2> HIDE DEF x
  <2>3. CASE x = y
    BY <2>2, <2>3
  <2>4. CASE x # y
    <3>1. F[t \ {x}] = Op(p, F[(t \ {x}) \ {y}], g[y])
      BY <1>2, <2>1, <2>4
    <3>2. F[t \ {y}] = Op(p, F[(t \ {y}) \ {x}], g[x])
      BY <1>2, <2>1, <2>4
    <3>3. (t \ {x}) \ {y} = (t \ {y}) \ {x} /\ (t \ {y}) \ {x} \in SUBSET DOMAIN g
      OBVIOUS
    <3>4. F[(t \ {y}) \ {x}] \in X
      BY <1>x, <3>3
    <3> DEFINE a == F[(t \ {y}) \ {x}]
    <3>5. Op(p, Op(p, a, g[x]), g[y]) = Op(p, Op(p, a, g[y]), g[x])
      BY <2>1, <3>4
    <3>6. F[t \ {x}] = Op(p, a, g[y]) /\ F[t \ {y}] = Op(p, a, g[x])
      BY <3>1, <3>2, <3>3
    <3> HIDE DEF a
    <3> QED BY <2>2, <3>5, <3>6
  <2> QED BY <2>3, <2>4
<1>3. \A m \in Nat : m \in S
  <2> HIDE DEF S
  <2> QED BY <1>1, <1>2, NatInd
<1> QED BY <1>0, <1>3 DEF F

\* Whatever the place, a fold is one step after the fold without it.
THEOREM FunFoldRemove ==
  ASSUME NEW p, NEW b, NEW g, IsFiniteSet(DOMAIN g), NEW X, Commutes(p, b, g, X),
         NEW y \in DOMAIN g, NEW h, Without(h, g, y)
  PROVE  FunFold(p, b, g) = Op(p, FunFold(p, b, h), g[y])
<1> USE DEF Commutes, Without
<1>1. IsFiniteSet(DOMAIN h)
  BY FS_Subset
<1>2. FunIter(p, b, g)[DOMAIN g] = Op(p, FunIter(p, b, g)[DOMAIN g \ {y}], g[y])
  <2>1. \A t \in SUBSET DOMAIN g, z \in DOMAIN g :
           z \in t => FunIter(p, b, g)[t] = Op(p, FunIter(p, b, g)[t \ {z}], g[z])
    BY FunIterRemove
  <2> QED BY <2>1
<1>3. FunIter(p, b, g)[DOMAIN h] = FunIter(p, b, h)[DOMAIN h]
  <2>1. DOMAIN h \in SUBSET (DOMAIN g \cap DOMAIN h)
    OBVIOUS
  <2> QED BY <1>1, <2>1, FunIterSame
<1> QED BY <1>2, <1>3, FunFoldIs
===============================================================================
