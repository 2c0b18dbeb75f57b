------------------------------ MODULE Attention ------------------------------
(***************************************************************************)
(* src/ornith_attn.c: the KV cache and grouped-query attention, the gated  *)
(* delta rule step by step and in chunks, the causal convolution.          *)
(***************************************************************************)
EXTENDS Kernels

CONSTANTS Heads,    \* number of query heads
          KvHeads,  \* number of key and value heads
          Garbage   \* what malloc left in an output buffer nobody wrote

ASSUME AttentionAssumption ==
  /\ Garbage \in 0..(P - 1)
  /\ KvHeads \in Nat \ {0} /\ Heads \in {KvHeads * g : g \in 1..Heads}

-----------------------------------------------------------------------------
(* Causal convolution: the last K - 1 inputs, oldest first, per channel.     *)

ConvInit(kernel, chans) == [j \in 1..(kernel - 1) |-> [c \in chans |-> 0]]

\* Mutant: the new input is not kept for the next token.
ConvStepKeepsOldest(buf, x, w, b) ==
  LET window == Append(buf, x)
  IN [buf |-> buf,
      out |-> [c \in DOMAIN x |->
                 (b[c] + Sum([j \in DOMAIN window |-> w[c][j] * window[j][c]])) % P]]

ConvStep(buf, x, w, b) ==
  LET window == Append(buf, x)
  IN [buf |-> Tail(window),
      out |-> [c \in DOMAIN x |->
                 (b[c] + Sum([j \in DOMAIN window |-> w[c][j] * window[j][c]])) % P]]

ConvPrefill(buf, xs, w, b) ==
  FoldLeft(LAMBDA a, x : LET s == ConvStep(a.buf, x, w, b)
                         IN [buf |-> s.buf, out |-> Append(a.out, s.out)],
           [buf |-> buf, out |-> << >>], xs)

-----------------------------------------------------------------------------
(* Gated delta rule. The rows of S never mix: S is one of them. An input x   *)
(* holds the token's q, k (vectors), v, alpha and beta.                      *)

DeltaInit(dims) == [c \in dims |-> 0]

DeltaStep(S, x) ==
  LET decayed == Scale(S, x.alpha)
      written == AddScaled(decayed, x.k, x.beta * (x.v - Dot(decayed, x.k)))
  IN [S |-> written, out |-> Dot(written, x.q)]

\* Mutant: the decay that precedes a token's write is applied to it as well.
RatioFromStart(xs, i, j) == Product([l \in j..i |-> xs[l].alpha])

\* p_i / p_j, as the product of the decays in between.
Ratio(xs, i, j) == Product([l \in (j + 1)..i |-> xs[l].alpha])

\* One chunk against the state it came in with: forward substitution gives the
\* writes u[i], the outputs and the state follow from them.
DeltaChunk(S, xs) ==
  LET C == Len(xs)
      p(i) == Product([l \in 1..i |-> xs[l].alpha])
      u[i \in 1..C] ==
        (xs[i].beta * (xs[i].v - p(i) * Dot(S, xs[i].k)
           - Sum([j \in 1..(i - 1) |->
                    Ratio(xs, i, j) * Dot(xs[j].k, xs[i].k) * u[j]]))) % P
  IN [S |-> [c \in DOMAIN S |->
               (p(C) * S[c] + Sum([j \in 1..C |-> Ratio(xs, C, j) * u[j] * xs[j].k[c]])) % P],
      out |-> [i \in 1..C |->
                 (p(i) * Dot(S, xs[i].q)
                    + Sum([j \in 1..i |->
                             Ratio(xs, i, j) * Dot(xs[j].k, xs[i].q) * u[j]])) % P]]

\* Chunk sizes below 1 and above the prompt are clamped.
ClampChunk(chunk, T) == IF chunk < 1 THEN 1 ELSE IF chunk > T THEN T ELSE chunk

\* The prompt in pieces of ch, the last one as long as what is left.
Pieces(xs, ch) ==
  [n \in 1..((Len(xs) + ch - 1) \div ch) |->
     SubSeq(xs, (n - 1) * ch + 1, IF n * ch <= Len(xs) THEN n * ch ELSE Len(xs))]

DeltaPrefill(S, xs, chunk) ==
  FoldLeft(LAMBDA a, piece : LET r == DeltaChunk(a.S, piece)
                             IN [S |-> r.S, out |-> a.out \o r.out],
           [S |-> S, out |-> << >>], Pieces(xs, ClampChunk(chunk, Len(xs))))

-----------------------------------------------------------------------------
(* KV cache and grouped-query attention.                                     *)

KvInit(capacity) == [cap |-> capacity, kv |-> << >>]
KvLen(c) == Len(c.kv)

KvHead(h) == h \div (Heads \div KvHeads)

\* Query head h against the positions in kv, a sequence of [k, v]: softmax of
\* the scores, then the weighted sum of the values.
Attend(q, kv) ==
  [h \in 0..(Heads - 1) |->
     LET w == Softmax([t \in DOMAIN kv |-> Dot(q[h], kv[t].k[KvHead(h)])])
     IN [i \in DOMAIN q[h] |-> Sum([t \in DOMAIN kv |-> w[t] * kv[t].v[KvHead(h)][i]])]]

\* Decode: append the token, attend over all there is. A full cache returns
\* without writing the output.
GqaStep(c, q, k, v) ==
  IF KvLen(c) >= c.cap
  THEN [c |-> c, out |-> [h \in 0..(Heads - 1) |-> [i \in DOMAIN q[h] |-> Garbage]]]
  ELSE LET kv == Append(c.kv, [k |-> k, v |-> v])
       IN [c |-> [c EXCEPT !.kv = kv], out |-> Attend(q, kv)]

\* Whole sequence: position i attends to positions 1 .. i.
GqaReference(Q, K, V) ==
  [i \in DOMAIN Q |-> Attend(Q[i], [j \in 1..i |-> [k |-> K[j], v |-> V[j]]])]

-----------------------------------------------------------------------------
(* The int8 cache. x is a vector of integers; its scale is amax / 127.       *)

\* lrintf: to the nearest, a tie to the even one; a, b integers, b > 0.
Round(a, b) == LET q == a \div b
                   r == a % b
               IN IF 2 * r < b \/ (2 * r = b /\ q % 2 = 0) THEN q ELSE q + 1

Clamp(v, m) == IF v > m THEN m ELSE IF v < -m THEN -m ELSE v
AMax(x) == CHOOSE a \in {IF x[i] < 0 THEN -x[i] ELSE x[i] : i \in DOMAIN x} :
             \A i \in DOMAIN x : x[i] <= a /\ -x[i] <= a

KvQuant(x, codes) ==
  IF AMax(x) = 0 THEN [amax |-> 0, code |-> [i \in DOMAIN x |-> 0]]
  ELSE [amax |-> AMax(x),
        code |-> [i \in DOMAIN x |-> Clamp(Round(x[i] * codes, AMax(x)), codes)]]
===============================================================================
