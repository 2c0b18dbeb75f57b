------------------------------- MODULE Experts --------------------------------
(***************************************************************************)
(* src/ornith_moe.c: the router's choice of experts and the sum of what    *)
(* they compute. Logits are integers to compare, values residues modulo P. *)
(***************************************************************************)
EXTENDS Kernels

\* The scan keeps the first of the largest logits not taken yet.
Best(logits, free) ==
  CHOOSE e \in free : \A f \in free : logits[f] < logits[e]
                                      \/ (logits[f] = logits[e] /\ e <= f)

\* ornith_moe_route: topK experts by selection, best first. It takes for granted
\* that topK is at most the number of experts and that no logit is a NaN.
Route(logits, topK) ==
  FoldLeft(LAMBDA idx, s :
             Append(idx, Best(logits, DOMAIN logits \ {idx[i] : i \in DOMAIN idx})),
           << >>, [s \in 1..topK |-> s])

\* Softmax over the selected logits only.
RouteWeights(logits, idx) == Softmax([s \in DOMAIN idx |-> logits[idx[s]]])

\* SiLU(g x) * (u x), projected down; w holds the three weights.
SwiGlu(w, x) == (w.down * Silu((w.gate * x) % P) * w.up * x) % P

\* The routed experts weighted, and the shared one, when there is any.
MoeForward(router, experts, topK, shared, x) ==
  LET logits == [e \in DOMAIN router |-> (router[e] * x) % P]
      idx == Route(logits, topK)
      w == RouteWeights(logits, idx)
  IN (Sum([s \in DOMAIN idx |-> w[s] * SwiGlu(experts[idx[s]], x)])
        + Sum([e \in shared |-> SwiGlu(e, x)])) % P

\* The router picks topK different experts, none of them worse than one it leaves,
\* the earlier of two equals (moe.c:10, "Ties -> lower index"), whatever the ties.
RoutesBest(logits, topK) ==
  LET idx == Route(logits, topK)
      in == {idx[i] : i \in DOMAIN idx}
  IN /\ Cardinality(in) = topK
     /\ \A e \in in, f \in DOMAIN logits \ in :
          logits[e] > logits[f] \/ (logits[e] = logits[f] /\ e < f)
===============================================================================
