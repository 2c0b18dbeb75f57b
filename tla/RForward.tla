------------------------------- MODULE RForward -------------------------------
(***************************************************************************)
(* src/ornith_rforward.c: a session's recurrent state under the two ways   *)
(* the program feeds it, rforward_prefill (the whole prompt layer by       *)
(* layer, the delta rule in chunks) and rforward_token (one token through  *)
(* the stack), and the generation loop that picks the next token.          *)
(*                                                                         *)
(* The hidden state and a value head are one residue wide; heads, key      *)
(* components, layers, channels and positions are all there.               *)
(***************************************************************************)
EXTENDS Attention, Experts, Sampling

CONSTANTS NLayers, Interval,  \* every Interval-th layer is full attention
          HeadDim, Rotary,    \* of a full-attention head
          NK, NV, KeyDim,     \* linear key heads, value heads, key components
          ConvKernel,
          NExperts, ExpertsPerTok,
          Chunk,              \* RFWD_PREFILL_CHUNK
          Vocab, Eos,
          W,                  \* W[L]: the weights of layer L
          Embd, OutNorm, OutHead,
          Params,             \* sampler parameters; a greedy one among them
          Prompts,            \* bound: the token sequences evaluated
          MaxPredict, Cap     \* bounds: tokens asked for, session capacity

ASSUME ShapeAssumption ==
  /\ {NLayers, Interval, HeadDim, NK, NV, KeyDim, ConvKernel, Chunk, Cap} \subseteq Nat \ {0}
  /\ NV % NK = 0 /\ Rotary \in 0..HeadDim
  /\ NExperts \in Nat /\ ExpertsPerTok \in 0..NExperts
  /\ Vocab \subseteq Nat /\ IsFiniteSet(Vocab) /\ Vocab # {}
  /\ Prompts \subseteq Seq(Vocab)
  /\ Params \subseteq [inv_t : Int, top_k : Int, top_p : Int \X Int, min_p : Int \X Int,
                       penalty : Int, last_n : Int]

VARIABLES serial,  \* ORNITH_PREFILL_SERIAL of this process
          st,      \* rstate: pos, and per layer kv, conv and S
          logits,  \* next-token logits; << >> before the first evaluation
          hist,    \* the tokens fed so far
          next,    \* the token picked, in a generation; -1 outside
          left,    \* tokens the generation may still feed
          sp       \* its sampler parameters

vars == <<serial, st, logits, hist, next, left, sp>>

Layers == 0..(NLayers - 1)
IsFull(L) == (L + 1) % Interval = 0
FullLayers == {L \in Layers : IsFull(L)}
LinLayers == Layers \ FullLayers
Chans == 0..(2 * NK * KeyDim + NV - 1)
NoBias == [c \in Chans |-> 0]

\* rmodel_load takes the dimensions from the shapes of the tensors; the rotary
\* size and the number of experts used come from metadata it does not check.
Vec(n) == [0..(n - 1) -> Int]
LayerWeights(L) ==
  /\ {W[L].attn_norm, W[L].post_norm} \subseteq Int
  /\ IF IsFull(L)
     THEN /\ W[L].attn_q \in Vec(2 * Heads * HeadDim)
          /\ W[L].attn_k \in Vec(KvHeads * HeadDim) /\ W[L].attn_v \in Vec(KvHeads * HeadDim)
          /\ W[L].attn_q_norm \in Vec(HeadDim) /\ W[L].attn_k_norm \in Vec(HeadDim)
          /\ W[L].attn_output \in Vec(Heads * HeadDim)
     ELSE /\ W[L].attn_qkv \in [Chans -> Int]
          /\ W[L].ssm_conv1d \in [Chans -> [1..ConvKernel -> Int]]
          /\ \A w \in {W[L].ssm_alpha, W[L].ssm_beta, W[L].ssm_a, W[L].ssm_dt,
                       W[L].attn_gate, W[L].ssm_out} : w \in Vec(NV)
          /\ W[L].ssm_norm \in Int
  /\ W[L].shared \in [gate : Int, up : Int, down : Int]
  /\ NExperts > 0 => /\ W[L].router \in Vec(NExperts) /\ W[L].shared_gate \in Int
                     /\ W[L].experts \in [0..(NExperts - 1) -> [gate : Int, up : Int, down : Int]]

ASSUME WeightsAssumption ==
  /\ Embd \in [Vocab -> Int] /\ OutHead \in [Vocab -> Int] /\ OutNorm \in Int
  /\ \A L \in Layers : LayerWeights(L)

\* rstate_new.
Fresh == [pos |-> 0,
          kv |-> [L \in FullLayers |-> KvInit(Cap)],
          conv |-> [L \in LinLayers |-> ConvInit(ConvKernel, Chans)],
          S |-> [L \in LinLayers |-> [hv \in 0..(NV - 1) |-> DeltaInit(0..(KeyDim - 1))]]]

\* The hidden state as the one component of a vector.
Norm(x, w) == RmsNorm(<<x>>, <<w>>)[1]

-----------------------------------------------------------------------------
(* One layer's arithmetic for one token, shared by both ways.                *)

\* attn_q packs [query | gate] per head.
FullInput(L, xn, pos) ==
  LET qp == Linear(W[L].attn_q, xn)
      kp == Linear(W[L].attn_k, xn)
      vp == Linear(W[L].attn_v, xn)
      part(v, from) == [i \in 0..(HeadDim - 1) |-> v[from + i]]
      turned(v, w) == Rope(RmsNorm(v, w), Rotary, pos)
  IN [q |-> [h \in 0..(Heads - 1) |-> turned(part(qp, h * 2 * HeadDim), W[L].attn_q_norm)],
      gate |-> [h \in 0..(Heads - 1) |-> part(qp, h * 2 * HeadDim + HeadDim)],
      k |-> [h \in 0..(KvHeads - 1) |-> turned(part(kp, h * HeadDim), W[L].attn_k_norm)],
      v |-> [h \in 0..(KvHeads - 1) |-> part(vp, h * HeadDim)]]

FullFinish(L, in, o) ==
  Sum([h \in 0..(Heads - 1) |->
         Sum([i \in 0..(HeadDim - 1) |->
                W[L].attn_output[h * HeadDim + i] * o[h][i] * Sigmoid(in.gate[h][i])])])

\* ssm_a holds the negative coefficient already.
DecayAlpha(aIn, aCoef, dt) == Exp(aCoef * Softplus(aIn + dt))

KeyHead(hv) == hv % NK

\* What the delta rule gets for value head hv, from the convolved channels.
DeltaInput(L, hv, xn, conv) ==
  LET act == [c \in Chans |-> Silu(conv[c])]
      key(from) == [c \in 0..(KeyDim - 1) |-> act[from + KeyHead(hv) * KeyDim + c]]
  IN [q |-> L2Norm(key(0)), k |-> L2Norm(key(NK * KeyDim)),
      v |-> act[2 * NK * KeyDim + hv],
      alpha |-> DecayAlpha(W[L].ssm_alpha[hv] * xn, W[L].ssm_a[hv], W[L].ssm_dt[hv]),
      beta |-> Sigmoid(W[L].ssm_beta[hv] * xn)]

\* linear_finish: scale by 1/sqrt(dk), norm, gate, project.
LinearFinish(L, xn, o) ==
  Sum([hv \in 0..(NV - 1) |-> W[L].ssm_out[hv] * Norm(o[hv] * InvSqrt(KeyDim), W[L].ssm_norm)
                                * Silu(W[L].attn_gate[hv] * xn)])

\* ffn_layer: routed experts and the gated shared one, or a dense network.
Ffn(L, xn) ==
  IF NExperts = 0 THEN SwiGlu(W[L].shared, xn)
  ELSE (MoeForward(W[L].router, W[L].experts, ExpertsPerTok, {}, xn)
          + Sigmoid(W[L].shared_gate * xn) * SwiGlu(W[L].shared, xn)) % P

FfnLayer(L, x) == (x + Ffn(L, Norm(x, W[L].post_norm))) % P

Logits(x) == [t \in Vocab |-> (OutHead[t] * Norm(x, OutNorm)) % P]

-----------------------------------------------------------------------------
(* rforward_token.                                                           *)

FullAttn(s, L, xn) ==
  LET finish(in, r) == [s |-> [s EXCEPT !.kv[L] = r.c], out |-> FullFinish(L, in, r.out)]
      attend(in) == finish(in, GqaStep(s.kv[L], in.q, in.k, in.v))
  IN attend(FullInput(L, xn, s.pos))

LinearAttn(s, L, xn) ==
  LET finish(buf, heads) ==
        [s |-> [s EXCEPT !.conv[L] = buf, !.S[L] = [hv \in DOMAIN heads |-> heads[hv].S]],
         out |-> LinearFinish(L, xn, [hv \in DOMAIN heads |-> heads[hv].out])]
      scan(conv) ==
        finish(conv.buf,
               [hv \in 0..(NV - 1) |->
                  DeltaStep(s.S[L][hv], DeltaInput(L, hv, xn, conv.out))])
  IN scan(ConvStep(s.conv[L], Linear(W[L].attn_qkv, xn), W[L].ssm_conv1d, NoBias))

\* One layer: attention of either kind and the feed-forward, each added to x.
TokenLayer(a, L) ==
  LET add(r) == [s |-> r.s, x |-> FfnLayer(L, (a.x + r.out) % P)]
      mix(xn) == IF IsFull(L) THEN add(FullAttn(a.s, L, xn)) ELSE add(LinearAttn(a.s, L, xn))
  IN mix(Norm(a.x, W[L].attn_norm))

\* A state with the logits after it; x goes through the layers.
Token(s, tok) ==
  LET finish(end) == [st |-> [end.s EXCEPT !.pos = @ + 1], logits |-> Logits(end.x)]
  IN finish(FoldLeft(TokenLayer, [s |-> s, x |-> Embd[tok]], [i \in 1..NLayers |-> i - 1]))

\* The prompt token by token; every position's logits are computed here, the
\* last one's are what the caller gets.
SerialPrefill(s, toks) ==
  FoldLeft(LAMBDA a, tok : Token(a.st, tok), [st |-> s, logits |-> << >>], toks)

-----------------------------------------------------------------------------
(* rforward_prefill: every layer sees the whole prompt before the next one.  *)

FullAttnPrefill(s, L, xns, base) ==
  LET finish(a, in, r) == [s |-> [a.s EXCEPT !.kv[L] = r.c],
                           out |-> Append(a.out, FullFinish(L, in, r.out))]
      attend(a, in) == finish(a, in, GqaStep(a.s.kv[L], in.q, in.k, in.v))
  IN FoldLeft(LAMBDA a, t : attend(a, FullInput(L, xns[t], base + t - 1)),
              [s |-> s, out |-> << >>], [t \in DOMAIN xns |-> t])

LinearAttnPrefill(s, L, xns) ==
  LET finish(buf, heads) ==
        [s |-> [s EXCEPT !.conv[L] = buf, !.S[L] = [hv \in DOMAIN heads |-> heads[hv].S]],
         out |-> [t \in DOMAIN xns |->
                    LinearFinish(L, xns[t], [hv \in DOMAIN heads |-> heads[hv].out[t]])]]
      scan(conv) ==
        finish(conv.buf,
               [hv \in 0..(NV - 1) |->
                  DeltaPrefill(s.S[L][hv],
                               [t \in DOMAIN xns |-> DeltaInput(L, hv, xns[t], conv.out[t])],
                               Chunk)])
  IN scan(ConvPrefill(s.conv[L], [t \in DOMAIN xns |-> Linear(W[L].attn_qkv, xns[t])],
                      W[L].ssm_conv1d, NoBias))

PrefillLayer(a, L) ==
  LET add(r) == [s |-> r.s, X |-> [t \in DOMAIN a.X |-> FfnLayer(L, (a.X[t] + r.out[t]) % P)]]
      mix(xns) == IF IsFull(L) THEN add(FullAttnPrefill(a.s, L, xns, a.s.pos))
                               ELSE add(LinearAttnPrefill(a.s, L, xns))
  IN mix([t \in DOMAIN a.X |-> Norm(a.X[t], W[L].attn_norm)])

Prefill(s, toks) ==
  LET finish(end) == [st |-> [end.s EXCEPT !.pos = s.pos + Len(toks)],
                      logits |-> Logits(end.X[Len(toks)])]
  IN finish(FoldLeft(PrefillLayer, [s |-> s, X |-> [t \in DOMAIN toks |-> Embd[toks[t]]]],
                     [i \in 1..NLayers |-> i - 1]))

RPrefill(s, toks) == IF serial THEN SerialPrefill(s, toks) ELSE Prefill(s, toks)

-----------------------------------------------------------------------------
(* The session.                                                              *)

Init == /\ serial \in BOOLEAN
        /\ st = Fresh /\ logits = << >> /\ hist = << >>
        /\ next = -1 /\ left = 0 /\ sp \in Params

\* The history never outgrows its array of Cap tokens.
Remember(toks) == SubSeq(hist \o toks, 1, IF Len(hist) + Len(toks) < Cap
                                          THEN Len(hist) + Len(toks) ELSE Cap)

\* Mutant: a prompt longer than the room left is evaluated.
EvalUnguarded(toks) ==
  /\ next = -1 /\ Len(toks) > 0
  /\ \E r \in {RPrefill(st, toks)} : st' = r.st /\ logits' = r.logits
  /\ hist' = Remember(toks)
  /\ UNCHANGED <<serial, next, left, sp>>

\* rmodel_session_eval. A refused or empty prompt changes nothing.
Eval(toks) ==
  /\ next = -1 /\ Len(toks) > 0
  /\ st.pos + Len(toks) <= Cap
  /\ \E r \in {RPrefill(st, toks)} : st' = r.st /\ logits' = r.logits
  /\ hist' = Remember(toks)
  /\ UNCHANGED <<serial, next, left, sp>>

\* rpick: p.inv_t = 0 with no penalty is the argmax of a call without sampler.
Picks(l, p, h) == {Sample(l, p, h, u) : u \in 0..(Draws - 1)}

\* rmodel_session_generate, up to its first pick.
Begin == /\ next = -1 /\ logits # << >>
         /\ left' \in 1..MaxPredict
         /\ sp' \in Params
         /\ next' \in Picks(logits, sp', hist)
         /\ UNCHANGED <<serial, st, logits, hist>>

Stops == next = Eos \/ st.pos >= Cap

\* The picked token is fed and the next one picked.
Step == /\ next # -1 /\ left > 0 /\ ~Stops
        /\ hist' = Remember(<<next>>)
        /\ \E r \in {Token(st, next)} : st' = r.st /\ logits' = r.logits
        /\ next' \in Picks(logits', sp, hist')
        /\ left' = left - 1
        /\ UNCHANGED <<serial, sp>>

\* The last pick is dropped: it was not fed.
End == /\ next # -1 /\ (left = 0 \/ Stops)
       /\ next' = -1 /\ left' = 0
       /\ UNCHANGED <<serial, st, logits, hist, sp>>

Next == (\E toks \in Prompts : Eval(toks)) \/ Begin \/ Step \/ End

Spec == Init /\ [][Next]_vars

-----------------------------------------------------------------------------
(* Properties.                                                               *)

\* Whatever the mix of prompts and generations, the state and the logits are
\* those of the tokens fed one at a time to a fresh session: what the comments of
\* rforward_prefill and linear_attn_prefill promise of the chunked scan.
SameAsDecoding == [st |-> st, logits |-> logits] = SerialPrefill(Fresh, hist)

\* All parts of the state count the same tokens, and the history counts them too:
\* a session never has a position without its token, nor a full cache that
\* swallows one.
StateInStep == /\ st.pos = Len(hist) /\ st.pos <= Cap
               /\ \A L \in FullLayers : KvLen(st.kv[L]) = st.pos
               /\ \A L \in LinLayers : Len(st.conv[L]) = ConvKernel - 1

\* The convolution of the first layer remembers its last inputs, and zeros before
\* the first token, across prompts, chunks and generated tokens.
ConvWindow ==
  \A j \in 1..(ConvKernel - 1) :
    LET at == Len(hist) - (ConvKernel - 1) + j
    IN 0 \in LinLayers =>
       st.conv[0][j] = IF at < 1 THEN NoBias
                       ELSE Linear(W[0].attn_qkv, Norm(Embd[hist[at]], W[0].attn_norm))
===============================================================================
