------------------------------- MODULE MCForward ------------------------------
(***************************************************************************)
(* Instance of RForward for TLC: three layers (linear, full, linear), the  *)
(* weights spread over the residues so that no two of them play the same   *)
(* part.                                                                   *)
(***************************************************************************)
EXTENDS RForward

Row(seed, n) == [i \in 0..(n - 1) |-> (seed * 7 + i * i * 3 + i * 5 + 1) % P]

MCExpert(seed) == [gate |-> (seed * 3 + 2) % P, up |-> (seed * 5 + 1) % P,
                   down |-> (seed + 4) % P]

MCW == [L \in 0..2 |->
  [attn_norm |-> 2 + L, post_norm |-> 3 + L,
   attn_q |-> Row(L + 1, 8), attn_k |-> Row(L + 2, 2), attn_v |-> Row(L + 3, 2),
   attn_q_norm |-> Row(L, 2), attn_k_norm |-> Row(L + 5, 2),
   attn_output |-> Row(L + 4, 4),
   attn_qkv |-> Row(L + 2, 12),
   ssm_conv1d |-> [c \in 0..11 |-> [j \in 1..3 |-> (L + c * 2 + j * j + 1) % P]],
   ssm_alpha |-> Row(L + 6, 4), ssm_beta |-> Row(L + 7, 4),
   ssm_a |-> Row(L + 3, 4), ssm_dt |-> Row(L + 9, 4),
   ssm_norm |-> 4 + L, attn_gate |-> Row(L + 8, 4), ssm_out |-> Row(L + 1, 4),
   router |-> Row(L + 2, 3), experts |-> [e \in 0..2 |-> MCExpert(L + e)],
   shared |-> MCExpert(L + 5), shared_gate |-> 5 + L]]

MCVocab == 0..1
MCEmbd == [t \in MCVocab |-> (3 * t + 2) % P]
MCOutHead == [t \in MCVocab |-> (5 * t + 3) % P]

\* A single token, one full chunk, one and a half, two and a half.
MCPrompts == {<<0>>, <<1, 1>>, <<1, 0, 0>>, <<0, 1, 1, 0, 1>>}

\* Greedy, and sampling with a penalty on the last two tokens.
MCParams ==
  {[inv_t |-> 0, top_k |-> 0, top_p |-> <<1, 1>>, min_p |-> <<0, 1>>,
    penalty |-> 1, last_n |-> 0],
   [inv_t |-> 1, top_k |-> 2, top_p |-> <<9, 10>>, min_p |-> <<1, 20>>,
    penalty |-> 2, last_n |-> 2]}
===============================================================================
