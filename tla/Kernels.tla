------------------------------- MODULE Kernels --------------------------------
(***************************************************************************)
(* src/ornith_tensor.c. A float is a residue modulo the prime P, so that a *)
(* sum does not depend on its order, and the transcendental functions are  *)
(* fixed polynomials: what is kept of the arithmetic is which factor of    *)
(* which token, head and position enters which result.                     *)
(***************************************************************************)
EXTENDS Integers, Sequences, SequencesExt

CONSTANT P        \* bound: the residues that stand for floats

ASSUME PrimeAssumption == P \in Nat \ {0, 1} /\ \A d \in 2..(P - 1) : P % d # 0

\* Of the values of a function, whose domain is finite.
Sum(f) == SumFunction(f) % P
Product(f) == FoldFunction(LAMBDA x, y : (x * y) % P, 1, f)

Exp(x) == (1 + x + x * x * x) % P
Log1p(x) == (x + 4 * x * x) % P
InvSqrt(x) == (3 + x * x) % P
Cos(x) == (1 + 2 * x) % P
Sin(x) == (x * x * x) % P
Reciprocal(x) == IF \E y \in 0..(P - 1) : (x * y) % P = 1
                 THEN CHOOSE y \in 0..(P - 1) : (x * y) % P = 1 ELSE 0

\* Vectors are functions.
Dot(x, y) == Sum([i \in DOMAIN x |-> x[i] * y[i]])
Scale(x, s) == [i \in DOMAIN x |-> (s * x[i]) % P]
AddScaled(acc, x, s) == [i \in DOMAIN acc |-> (acc[i] + s * x[i]) % P]

\* The rows of a matrix that maps a hidden state, one residue here, to a vector.
Linear(w, x) == [o \in DOMAIN w |-> (w[o] * x) % P]

RmsNorm(x, w) == [i \in DOMAIN x |-> (x[i] * InvSqrt(Dot(x, x)) * w[i]) % P]
L2Norm(x) == Scale(x, InvSqrt(Dot(x, x)))
Softmax(x) == [i \in DOMAIN x |->
                 (Exp(x[i]) * Reciprocal(Sum([j \in DOMAIN x |-> Exp(x[j])]))) % P]
Sigmoid(x) == Reciprocal(1 + Exp(-x))
Silu(x) == (x * Sigmoid(x)) % P
Softplus(x) == Log1p(Exp(x))

\* RoPE: component i is turned together with component i + half, by an angle
\* that grows with the position; what lies past rotary stays as it is.
Rope(v, rotary, pos) ==
  LET half == rotary \div 2
      angle(i) == pos * (i + 1)
  IN [i \in DOMAIN v |->
        IF i < half
        THEN (v[i] * Cos(angle(i)) - v[i + half] * Sin(angle(i))) % P
        ELSE IF i < 2 * half
        THEN (v[i - half] * Sin(angle(i - half)) + v[i] * Cos(angle(i - half))) % P
        ELSE v[i]]
===============================================================================
