------------------------------- MODULE Sampling -------------------------------
(***************************************************************************)
(* src/ornith_sample.c. A logit is an integer, a probability the weight it *)
(* has before the division by the sum, a fraction a pair <<num, den>>. The *)
(* parameters p hold inv_t (1 / temperature, 0 when greedy), top_k, top_p, *)
(* min_p, penalty, last_n; u / Draws is the number drawn from [0, 1).      *)
(***************************************************************************)
EXTENDS Integers, Sequences, SequencesExt

CONSTANT Draws    \* bound: the draws of the generator told apart
ASSUME DrawsAssumption == Draws \in Nat \ {0}

\* The first of the largest logits.
Argmax(logits) ==
  CHOOSE t \in DOMAIN logits :
    \A o \in DOMAIN logits : logits[o] < logits[t] \/ (logits[o] = logits[t] /\ t <= o)

\* The last last_n tokens, or all of them.
Window(recent, lastN) ==
  IF lastN > 0 /\ lastN < Len(recent)
  THEN SubSeq(recent, Len(recent) - lastN + 1, Len(recent)) ELSE recent

\* apply_repeat_penalty, once for every occurrence in the window: a positive
\* logit is divided, another multiplied.
Penalize(logits, p, recent) ==
  IF p.penalty <= 1 THEN logits
  ELSE FoldLeft(LAMBDA l, t : IF t \notin DOMAIN l THEN l
                              ELSE [l EXCEPT ![t] = IF l[t] > 0 THEN @ \div p.penalty
                                                    ELSE @ * p.penalty],
                logits, Window(recent, p.last_n))

\* cand_cmp: by logit, the largest first, ties by id.
Ahead(logits, t) ==
  {o \in DOMAIN logits : logits[o] > logits[t] \/ (logits[o] = logits[t] /\ o < t)}

\* The i-th token has i - 1 ahead of it.
Ranked(logits) == [i \in 1..Cardinality(DOMAIN logits) |->
                     CHOOSE t \in DOMAIN logits : Cardinality(Ahead(logits, t)) = i - 1]

\* A stand-in for expf(logit - max): positive, and smaller for a smaller logit.
Weight(logits, t) == 64 \div (1 + logits[Argmax(logits)] - logits[t])

WeightOf(logits, c) == FoldLeft(LAMBDA a, t : a + Weight(logits, t), 0, c)

TopK(c, k) == IF k > 0 /\ k < Len(c) THEN SubSeq(c, 1, k) ELSE c

\* Mutant: the nucleus stops before the token that reaches top_p.
TopPShort(logits, c, f) ==
  LET reaches == {i \in DOMAIN c : WeightOf(logits, SubSeq(c, 1, i)) * f[2]
                                     >= f[1] * WeightOf(logits, c)}
  IN IF f[1] >= f[2] \/ f[1] <= 0 THEN c
     ELSE SubSeq(c, 1, IF Min(reaches) = 1 THEN 1 ELSE Min(reaches) - 1)

\* The smallest prefix whose probability reaches top_p.
TopP(logits, c, f) ==
  LET reaches == {i \in DOMAIN c : WeightOf(logits, SubSeq(c, 1, i)) * f[2]
                                     >= f[1] * WeightOf(logits, c)}
  IN IF f[1] >= f[2] \/ f[1] <= 0 THEN c ELSE SubSeq(c, 1, Min(reaches))

\* The tokens at least min_p times as probable as the best, up to the first
\* that is not.
MinP(logits, c, f) ==
  LET under == {i \in DOMAIN c : i > 1 /\ Weight(logits, c[i]) * f[2]
                                            < f[1] * Weight(logits, c[1])}
  IN IF f[1] <= 0 \/ under = {} THEN c
     ELSE SubSeq(c, 1, Min(under) - 1)

\* Inverse of the distribution function over the survivors; the last of them
\* when rounding leaves the draw above the sum.
Draw(logits, c, u) ==
  LET above == {i \in DOMAIN c : u * WeightOf(logits, c)
                                   < Draws * WeightOf(logits, SubSeq(c, 1, i))}
  IN IF above = {} THEN Last(c) ELSE c[Min(above)]

Survivors(logits, p) ==
  MinP(logits, TopP(logits, TopK(Ranked(logits), p.top_k), p.top_p), p.min_p)

\* osample: the draw u is used only when the temperature is positive.
Sample(logits, p, recent, u) ==
  LET l == Penalize(logits, p, recent)
      scaled == [t \in DOMAIN l |-> l[t] * p.inv_t]
  IN IF p.inv_t = 0 THEN Argmax(l) ELSE Draw(scaled, Survivors(scaled, p), u)

-----------------------------------------------------------------------------

(***************************************************************************)
(* Whatever is drawn, the token sampled is one the filters let through:    *)
(* ranked among the top_k, with less than top_p of the mass before it, and *)
(* at least min_p times as probable as the best, which always passes; each *)
(* token's share of the draws is its share of the mass. A penalty never    *)
(* makes a recent token likelier, nor touches another (sample.c:40-55,     *)
(* :77-133).                                                               *)
(***************************************************************************)
SamplerKeepsItsWord(logits, p, recent) ==
  LET l == Penalize(logits, p, recent)
      s == [t \in DOMAIN l |-> l[t] * p.inv_t]
      mass(T) == MapThenSumSet(LAMBDA t : Weight(s, t), T)
      inK == {t \in DOMAIN s : p.top_k <= 0 \/ Cardinality(Ahead(s, t)) < p.top_k}
      ok == {t \in inK : /\ Weight(s, t) * p.min_p[2] >= p.min_p[1] * Weight(s, Argmax(s))
                         /\ p.top_p[1] <= 0 \/ p.top_p[1] >= p.top_p[2]
                            \/ mass(Ahead(s, t)) * p.top_p[2] < p.top_p[1] * mass(inK)}
      drawn(t) == {u \in 0..(Draws - 1) : Sample(logits, p, recent, u) = t}
  IN /\ \A t \in DOMAIN l : IF t \in Range(Window(recent, p.last_n)) THEN l[t] <= logits[t]
                                                                    ELSE l[t] = logits[t]
     /\ IF p.inv_t = 0 THEN drawn(Argmax(l)) = 0..(Draws - 1)
        ELSE /\ Argmax(s) \in ok
             /\ \A t \in DOMAIN l :
                  IF t \in ok THEN Cardinality(drawn(t)) * mass(ok)
                                    \in (Weight(s, t) * Draws - mass(ok))
                                         ..(Weight(s, t) * Draws + mass(ok))
                             ELSE drawn(t) = {}
===============================================================================
