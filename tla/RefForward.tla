------------------------------ MODULE RefForward ------------------------------
(***************************************************************************)
(* src/ornith_forward.c: the reference decoder over synthetic weights, one *)
(* token at a time (Decode) or a whole prompt on a fresh state (Prefill).  *)
(* It differs from RForward in the pairing of the heads, the bias of the   *)
(* convolution, the form of the decay, the missing 1/sqrt(dk), and in a    *)
(* prefill that attends through GqaReference and copies the cache.         *)
(***************************************************************************)
EXTENDS Attention, Experts

CONSTANTS NLayers, Interval, HeadDim, Rotary, OutputGate,
          NK, NV, KeyDim, ConvKernel, ExpertsPerTok, Vocab,
          W, Embd, FinalNorm, LmHead

Layers == 0..(NLayers - 1)
IsFull(L) == (L + 1) % Interval = 0
FullLayers == {L \in Layers : IsFull(L)}
LinLayers == Layers \ FullLayers
Chans == 0..(2 * NK * KeyDim + NV - 1)
VHeads == 0..(NV - 1)

\* of_state_new.
NewState(capacity) ==
  [pos |-> 0, cap |-> capacity,
   kv |-> [L \in FullLayers |-> KvInit(capacity)],
   conv |-> [L \in LinLayers |-> ConvInit(ConvKernel, Chans)],
   S |-> [L \in LinLayers |-> [hv \in VHeads |-> DeltaInit(0..(KeyDim - 1))]]]

Norm(x, w) == RmsNorm(<<x>>, <<w>>)[1]

\* split_q_gate and qk_norm_rope.
FullInput(L, xn, pos) ==
  LET width == (IF OutputGate THEN 2 ELSE 1) * HeadDim
      qp == Linear(W[L].wq, xn)
      kp == Linear(W[L].wk, xn)
      vp == Linear(W[L].wv, xn)
      part(v, from) == [i \in 0..(HeadDim - 1) |-> v[from + i]]
      turned(v, w) == Rope(RmsNorm(v, w), Rotary, pos)
  IN [q |-> [h \in 0..(Heads - 1) |-> turned(part(qp, h * width), W[L].q_norm)],
      gate |-> [h \in 0..(Heads - 1) |->
                  IF OutputGate THEN part(qp, h * width + HeadDim) ELSE << >>],
      k |-> [h \in 0..(KvHeads - 1) |-> turned(part(kp, h * HeadDim), W[L].k_norm)],
      v |-> [h \in 0..(KvHeads - 1) |-> part(vp, h * HeadDim)]]

\* apply_out_gate and the output projection.
FullFinish(L, in, o) ==
  Sum([h \in 0..(Heads - 1) |->
         Sum([i \in 0..(HeadDim - 1) |->
                W[L].wo[h * HeadDim + i] * o[h][i]
                  * (IF OutputGate THEN Sigmoid(in.gate[h][i]) ELSE 1)])])

\* delta_decay: the tensor holds A_log.
DeltaDecay(aIn, aLog, dt) == Exp(-Exp(aLog) * Softplus(aIn + dt))

DeltaInput(L, hv, xn, conv) ==
  LET kh == hv \div (NV \div NK)
      key(from) == [c \in 0..(KeyDim - 1) |-> Silu(conv[from + kh * KeyDim + c])]
  IN [q |-> L2Norm(key(0)), k |-> L2Norm(key(NK * KeyDim)),
      v |-> Silu(conv[2 * NK * KeyDim + hv]),
      alpha |-> DeltaDecay(W[L].la[hv] * xn, W[L].ssm_a[hv], W[L].ssm_dt[hv]),
      beta |-> Sigmoid(W[L].lb[hv] * xn)]

DeltaFinish(L, xn, o) ==
  Sum([hv \in VHeads |-> W[L].lo[hv] * Norm(o[hv], W[L].lnorm) * Silu(W[L].lgate[hv] * xn)])

\* moe_residual adds to x what the experts make of its norm.
MoeResidual(L, x) ==
  (x + MoeForward(W[L].router, W[L].experts, ExpertsPerTok, W[L].shared,
                  Norm(x, W[L].ffn_norm))) % P

Logits(x) == [t \in Vocab |-> (LmHead[t] * Norm(x, FinalNorm)) % P]

-----------------------------------------------------------------------------
(* of_forward_decode.                                                        *)

Refused(s) == [ok |-> FALSE, s |-> s, logits |-> << >>]

\* One layer of one token: a.s the state, a.x the residual stream.
FullLayer(a, L, in, g) ==
  [s |-> [a.s EXCEPT !.kv[L] = g.c], x |-> MoeResidual(L, a.x + FullFinish(L, in, g.out))]

LinearLayer(a, L, xn, conv, d) ==
  [s |-> [a.s EXCEPT !.conv[L] = conv, !.S[L] = [hv \in VHeads |-> d[hv].S]],
   x |-> MoeResidual(L, a.x + DeltaFinish(L, xn, [hv \in VHeads |-> d[hv].out]))]

DecodeFull(a, L, in) == FullLayer(a, L, in, GqaStep(a.s.kv[L], in.q, in.k, in.v))

DecodeConvolved(a, L, xn, conv) ==
  LinearLayer(a, L, xn, conv.buf,
              [hv \in VHeads |-> DeltaStep(a.s.S[L][hv], DeltaInput(L, hv, xn, conv.out))])

DecodeLayer(a, L, xn) ==
  IF IsFull(L) THEN DecodeFull(a, L, FullInput(L, xn, a.s.pos))
  ELSE DecodeConvolved(a, L, xn, ConvStep(a.s.conv[L], Linear(W[L].lqkv, xn),
                                          W[L].conv_w, W[L].conv_b))

DecodeEnd(a) == [ok |-> TRUE, s |-> [a.s EXCEPT !.pos = @ + 1], logits |-> Logits(a.x)]

Decode(s, tok) ==
  IF tok \notin Vocab \/ s.pos >= s.cap THEN Refused(s)
  ELSE DecodeEnd(FoldLeft(LAMBDA a, i : DecodeLayer(a, i - 1, Norm(a.x, W[i - 1].attn_norm)),
                          [s |-> s, x |-> Embd[tok]], [i \in 1..NLayers |-> i]))

-----------------------------------------------------------------------------
(* of_forward_prefill.                                                       *)

\* The whole causal pass over the inputs of all tokens.
Attended(in) ==
  GqaReference([t \in DOMAIN in |-> in[t].q], [t \in DOMAIN in |-> in[t].k],
               [t \in DOMAIN in |-> in[t].v])
FullOut(L, in, O) == [t \in DOMAIN in |-> FullFinish(L, in[t], O[t])]

\* Mutant: the cache holds the keys, but not how many.
PrefillFullNoLen(s, L, in) == [s |-> s, out |-> FullOut(L, in, Attended(in))]

\* Keys and values are copied to the cache's front after the pass.
PrefillFull(s, L, in) ==
  [s |-> [s EXCEPT !.kv[L].kv = [t \in DOMAIN in |-> [k |-> in[t].k, v |-> in[t].v]]],
   out |-> FullOut(L, in, Attended(in))]

PrefillHeads(s, L, xns, buf, d) ==
  [s |-> [s EXCEPT !.conv[L] = buf, !.S[L] = [hv \in VHeads |-> d[hv].S]],
   out |-> [t \in DOMAIN xns |-> DeltaFinish(L, xns[t], [hv \in VHeads |-> d[hv].out[t]])]]

PrefillConvolved(s, L, xns, conv, chunk) ==
  PrefillHeads(s, L, xns, conv.buf,
    [hv \in VHeads |->
       DeltaPrefill(s.S[L][hv],
                    [t \in DOMAIN xns |-> DeltaInput(L, hv, xns[t], conv.out[t])], chunk)])

PrefillLinear(s, L, xns, chunk) ==
  PrefillConvolved(s, L, xns,
                   ConvPrefill(s.conv[L], [t \in DOMAIN xns |-> Linear(W[L].lqkv, xns[t])],
                               W[L].conv_w, W[L].conv_b),
                   chunk)

\* A chunk of 0 or less means 16.
PrefillAttention(s, L, xns, chunk) ==
  IF IsFull(L) THEN PrefillFull(s, L, [t \in DOMAIN xns |-> FullInput(L, xns[t], s.pos + t - 1)])
  ELSE PrefillLinear(s, L, xns, IF chunk <= 0 THEN 16 ELSE chunk)

Residuals(L, xs, r) ==
  [s |-> r.s, x |-> [t \in DOMAIN xs |-> MoeResidual(L, xs[t] + r.out[t])]]

PrefillLayer(a, L, chunk) ==
  Residuals(L, a.x, PrefillAttention(a.s, L, [t \in DOMAIN a.x |-> Norm(a.x[t], W[L].attn_norm)],
                                     chunk))

\* logits holds those of every position.
PrefillEnd(a) ==
  [ok |-> TRUE, s |-> [a.s EXCEPT !.pos = Len(a.x)],
   logits |-> [t \in DOMAIN a.x |-> Logits(a.x[t])]]

PrefillAll(s, toks, chunk) ==
  IF s.pos # 0 \/ Len(toks) > s.cap \/ \E t \in DOMAIN toks : toks[t] \notin Vocab
  THEN Refused(s)
  ELSE PrefillEnd(FoldLeft(LAMBDA a, i : PrefillLayer(a, i - 1, chunk),
                           [s |-> s, x |-> [t \in DOMAIN toks |-> Embd[toks[t]]]],
                           [i \in 1..NLayers |-> i]))
===============================================================================
