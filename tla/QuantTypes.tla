------------------------------ MODULE QuantTypes ------------------------------
(***************************************************************************)
(* src/ornith_quant.c: the geometry of the tensor types and the policy     *)
(* that chooses one for a tensor. A tensor's name is kept as the set of    *)
(* the policy's substrings that occur in it.                               *)
(***************************************************************************)
EXTENDS Integers, Sequences, SequencesExt

\* The numbers of the types in a file (ornith_gguf.h).
F32 == 0
F16 == 1
Q4_0 == 2
Q8_0 == 8
Q2_K == 10
Q4_K == 12
Q5_K == 13
Q6_K == 14
IQ2_XXS == 16
BF16 == 30

KQuants == {Q2_K, Q4_K, Q5_K, Q6_K}

BlockElems(type) ==
  CASE type \in {F32, F16, BF16} -> 1
    [] type \in {Q8_0, Q4_0} -> 32
    [] type \in KQuants \union {IQ2_XXS} -> 256
    [] OTHER -> 0

BlockBytes(type) ==
  CASE type = F32 -> 4
    [] type \in {F16, BF16} -> 2
    [] type = Q8_0 -> 34
    [] type = Q4_0 -> 18
    [] type = Q2_K -> 84
    [] type = Q4_K -> 144
    [] type = Q5_K -> 176
    [] type = Q6_K -> 210
    [] type = IQ2_XXS -> 66
    [] OTHER -> 0

\* 0 too for a count that is not whole blocks.
RowBytes(type, n) ==
  IF BlockElems(type) = 0 \/ n % BlockElems(type) # 0
  THEN 0
  ELSE (n \div BlockElems(type)) * BlockBytes(type)

IsImplemented(type) == BlockElems(type) # 0

CanDecode(type) == type = IQ2_XXS \/ IsImplemented(type)

\* The rules in their order: the substrings, and the type they ask for.
PolicyRules ==
  << <<{"ssm_a", "ssm_dt", "ssm_conv1d"}, F32>>,
     <<{"_norm", "norm.", "scale"}, F32>>,
     <<{"ffn_gate_inp"}, F16>>,
     <<{"ffn_gate_exps", "ffn_up_exps"}, IQ2_XXS>>,
     <<{"ffn_down_exps"}, Q2_K>>,
     <<{"shexp"}, Q5_K>>,
     <<{"ssm_alpha", "ssm_beta", "ssm_out", "attn_qkv", "attn_gate"}, Q8_0>>,
     <<{"attn_q", "attn_k", "attn_v", "attn_output"}, Q6_K>>,
     <<{"token_embd"}, Q5_K>>,
     <<{"output"}, Q6_K>>,
     <<{"ffn_down"}, Q6_K>> >>

PolicyTarget(has, base) ==
  LET hit == SelectInSeq(PolicyRules, LAMBDA r : r[1] \intersect has # {})
  IN IF hit = 0 THEN base ELSE PolicyRules[hit][2]

\* Mutant: the count is not looked at.
TargetTypeAnyCount(has, base, n) ==
  LET want == PolicyTarget(has, base)
  IN IF IsImplemented(want) THEN want ELSE F16

\* What the quantizer writes a tensor of n elements as.
TargetType(has, base, n) ==
  LET want == PolicyTarget(has, base)
  IN IF IsImplemented(want) /\ RowBytes(want, n) # 0 THEN want ELSE F16
===============================================================================
