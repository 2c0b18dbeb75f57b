-------------------------------- MODULE MCUnits -------------------------------
(***************************************************************************)
(* The operators without a state of their own, each against what it        *)
(* promises: a step picks one input of one kind, the invariants evaluate   *)
(* the operators on it. tok is the tokenizer, built once. A reply grows    *)
(* token by token instead, for the scanners.                               *)
(***************************************************************************)
EXTENDS ReplyText

CONSTANTS Hash(_),                                       \* Tokenizer
          Draws,                                         \* Sampling
          ImStart, ImEnd,                                \* ChatHistory
          P, Heads, KvHeads, Garbage, NLayers, Interval, \* RefForward
          HeadDim, Rotary, OutputGate, NK, NV, KeyDim, ConvKernel,
          ExpertsPerTok, Vocab, W, Embd, FinalNorm, LmHead

VARIABLES tok, job
vars == <<tok, job, reply>>

Json == INSTANCE JsonText
Tok == INSTANCE Tokenizer
Picks == INSTANCE Sampling
Chat == INSTANCE ChatHistory
Ref == INSTANCE RefForward
Q == INSTANCE QuantBlocks

Upto(n, S) == UNION {[1..k -> S] : k \in 0..n}

-----------------------------------------------------------------------------
(* Texts: a vocabulary with every byte used, in which merges overlap.        *)

Space == <<196, 160>>      \* the alphabet's form of byte 32
MCBytes == <<32, 10, 97, 98, 115, 55, 46, 39, 200>>
MCMerges == <<<<<<97>>, <<98>>>>, <<<<98>>, <<97>>>>, <<Space, <<97>>>>,
              <<<<97, 98>>, <<97, 98>>>>, <<Space \o <<97>>, <<98>>>>, <<<<46>>, <<46>>>>>>
MCTokens == [i \in DOMAIN MCBytes |-> Tok!Utf8Encode(Tok!CodePoint(MCBytes[i]))]
              \o [i \in DOMAIN MCMerges |-> MCMerges[i][1] \o MCMerges[i][2]]
              \o <<<<60, 124, 62>>>>
\* Collisions everywhere: the key's first length is its slot.
MCHash(key) == Len(key)

Text == \E s \in Upto(3, Range(MCBytes)) \cup [1..5 -> {32, 97, 98, 46}] :
          job' = [kind |-> "text", text |-> s]

Str(s) == [type |-> "string", str |-> s]
Num(n) == [type |-> "number", num |-> n]
Bool(b) == [type |-> "bool", boolean |-> b]
Arr(s) == [type |-> "array", items |-> s]
Obj(k, s) == [type |-> "object", keys |-> k, items |-> s]

JsonValues ==
  {[type |-> "null"], Bool(TRUE), Bool(FALSE), Num(0), Num(-10), Num(907)}
    \cup {Str(s) : s \in Upto(2, {34, 92, 10, 1, 31, 117, 47, 98, 200})}
    \cup {Arr(s) : s \in Upto(2, {Num(7), Str(<<92>>), [type |-> "null"]})}
    \cup {Obj(<<a, b>>, <<y, z>>) :
            a \in {<<>>, <<34>>}, b \in {<<97>>, <<92>>},
            y \in {Arr(<<>>), Obj(<<>>, <<>>), Num(-3)},
            z \in {Arr(<<Obj(<<<<9>>>>, <<Num(1)>>)>>), Bool(FALSE)}}

JsonValue == \E v \in JsonValues : job' = [kind |-> "json", value |-> v]

\* What is written as JSON or cut into tokens is what is read back.
TextsSurvive ==
  /\ job.kind = "text" => Tok!TextSurvives(tok, MCMerges, job.text)
  /\ job.kind = "json" => Json!JsonSurvives(job.value)

-----------------------------------------------------------------------------
(* Sampling and routing over five logits, ties included.                     *)

MCParams ==
  [inv_t : {0, 2}, top_k : {0, 2}, top_p : {<<1, 2>>, <<9, 10>>},
   min_p : {<<0, 1>>, <<1, 3>>}, penalty : {1, 2}, last_n : {1}]

Sampled == \E l \in [0..3 -> {-1, 0, 3}], p \in MCParams :
             job' = [kind |-> "sample", logits |-> l, params |-> p, recent |-> <<0, 2>>]

Routed == \E l \in [0..4 -> 0..2], k \in 1..5 :
            job' = [kind |-> "route", logits |-> l, top_k |-> k]

\* The sampler and the router pick what their parameters promise.
PicksSound ==
  /\ job.kind = "sample" => Picks!SamplerKeepsItsWord(job.logits, job.params, job.recent)
  /\ job.kind = "route" => Ref!RoutesBest(job.logits, job.top_k)

-----------------------------------------------------------------------------
(* Tool calls and conversations.                                             *)

MCCalls == {"call1", "call2"}

\* A question, a reply of the model, and the results with the next question.
Conversed ==
  \E text \in Upto(3, Tokens)
               \cup {<<"word", "open", "call1", "close", "open", "call2">>,
                     <<"open", "call2", "close", "word", "open", "call2", "close">>},
     system \in {<<>>, <<"rules">>}, tools \in {<<"tool1">>, <<"tool1", "tool2">>},
     wish \in {"auto", "none", "required", "named"} :
    job' = [kind |-> "chat", reply |-> text, system |-> system, tools |-> tools,
            wish |-> wish]

\* The client's wish as each protocol writes it.
ChoiceOfChat ==
  Chat!ToolChoiceOpenAI(IF job.wish = "named" THEN [form |-> "nested", word |-> "tool2"]
                        ELSE [form |-> "word", word |-> job.wish])
ChoiceOfResponses ==
  Chat!ToolChoiceOpenAI(IF job.wish = "named" THEN [form |-> "flat", word |-> "tool2"]
                        ELSE [form |-> "word", word |-> job.wish])
ChoiceOfAnthropic ==
  Chat!ToolChoiceAnthropic(
    [form |-> "typed", name |-> IF job.wish = "named" THEN "tool2" ELSE "",
     word |-> CASE job.wish = "required" -> "any" [] job.wish = "named" -> "tool"
                [] OTHER -> job.wish])

\* What each client sends back, and the history the server makes of it.
Emits == Chat!EmitsTools(job.reply, job.tools, ChoiceOfChat)
Results == [i \in 1..(IF Emits THEN Len(Chat!ParseToolCalls(job.reply)) ELSE 0) |->
              <<Chat!TextBlock(<<<<"result1", "result2", "result3">>[i]>>)>>]
Ask(q) == [role |-> "user", content |-> <<Chat!TextBlock(<<q>>)>>, tool_calls |-> <<>>]
AskTyped(q) == [type |-> "message", role |-> "user", content |-> <<Chat!TextBlock(<<q>>)>>]
OfChat ==
  Chat!ParseChat(
    (IF job.system = <<>> THEN <<>>
     ELSE <<[role |-> "system", content |-> <<Chat!TextBlock(job.system)>>, tool_calls |-> <<>>]>>)
    \o <<Ask("q1")>> \o Chat!ChatReply(job.reply, Emits)
    \o [i \in DOMAIN Results |->
          [role |-> "tool", content |-> Results[i], tool_calls |-> <<>>]] \o <<Ask("q2")>>)
OfResponses ==
  Chat!ParseResponses(job.system,
    <<AskTyped("q1")>> \o Chat!ResponsesReply(job.reply, Emits)
    \o [i \in DOMAIN Results |-> [type |-> "function_call_output", output |-> Results[i]]]
    \o <<AskTyped("q2")>>)
OfAnthropic ==
  Chat!ParseAnthropic(job.system,
    <<Ask("q1")>> \o Chat!AnthropicReply(job.reply, Emits)
    \o <<[role |-> "user",
          content |-> [i \in DOMAIN Results |-> [type |-> "tool_result", content |-> Results[i]]]
                        \o <<Chat!TextBlock(<<"q2">>)>>]>>)

\* The three protocols lead to the same conversation, and the prompt frames it.
ConversationKept ==
  LET kept(chat, responses, anthropic) ==
        /\ Chat!SameConversation(job.reply, chat, responses, anthropic)
        /\ \A h \in {chat, responses, anthropic} :
             Chat!PromptFramed(Chat!PromptIds(Chat!RenderChatml(h, job.tools, ChoiceOfChat)),
                               h, job.tools)
  IN job.kind = "chat" =>
       /\ ChoiceOfChat = ChoiceOfResponses /\ ChoiceOfChat = ChoiceOfAnthropic
       /\ kept(OfChat, OfResponses, OfAnthropic)

-----------------------------------------------------------------------------
(* The reference decoder: two layers, the second of them full attention.     *)

Row(seed, n) == [i \in 0..(n - 1) |-> (seed * 7 + i * i * 3 + i * 5 + 1) % P]
Expert(seed) == [gate |-> (seed * 3 + 2) % P, up |-> (seed * 5 + 1) % P, down |-> (seed + 4) % P]
MCW == [L \in 0..1 |->
  [attn_norm |-> 2 + L, ffn_norm |-> 3 + L,
   wq |-> Row(L + 1, 8), wk |-> Row(L + 2, 2), wv |-> Row(L + 3, 2), wo |-> Row(L + 4, 4),
   q_norm |-> Row(L, 2), k_norm |-> Row(L + 5, 2),
   lqkv |-> Row(L + 2, 12),
   conv_w |-> [c \in 0..11 |-> [j \in 1..3 |-> (L + c * 2 + j * j + 1) % P]],
   conv_b |-> Row(L + 4, 12),
   la |-> Row(L + 6, 4), lb |-> Row(L + 7, 4), ssm_a |-> Row(L + 3, 4), ssm_dt |-> Row(L + 9, 4),
   lnorm |-> 4 + L, lgate |-> Row(L + 8, 4), lo |-> Row(L + 1, 4),
   router |-> Row(L + 2, 3), experts |-> [e \in 0..2 |-> Expert(L + e)], shared |-> {Expert(L + 5)}]]
MCVocab == 0..1
MCEmbd == [t \in MCVocab |-> (3 * t + 2) % P]
MCLmHead == [t \in MCVocab |-> (5 * t + 3) % P]
Capacity == 6

\* A prompt, the size of a chunk, and the tokens decoded after it.
Decoded == \E n \in 1..5, bits \in {<<0, 1, 1, 0, 1>>, <<1, 1, 0, 0, 1>>}, chunk \in {0, 1, 2, 3} :
             job' = [kind |-> "forward", toks |-> SubSeq(bits, 1, n), chunk |-> chunk]

Fresh == Ref!NewState(Capacity)
DecodeOnly(acc, t) == Ref!Decode(acc.s, t)
Decoding(toks) == FoldLeft(DecodeOnly, [ok |-> TRUE, s |-> Fresh, logits |-> <<>>], toks)

SameOutcome(pre, last, toks) ==
  /\ pre.ok /\ pre.s = last.s
  /\ \A n \in DOMAIN toks : pre.logits[n] = Decoding(SubSeq(toks, 1, n)).logits
  /\ Ref!Decode(pre.s, 1) = Ref!Decode(last.s, 1)

\* of_forward_prefill gives, at every position, the logits that decoding token by
\* token gives there, leaves the same state, and the next token decodes alike
\* (tests/test_forward.c:50, "prefill == decode (system-level parity)").
ReferenceAgrees ==
  job.kind = "forward" =>
    SameOutcome(Ref!PrefillAll(Fresh, job.toks, job.chunk), Decoding(job.toks), job.toks)

-----------------------------------------------------------------------------
(* Stored numbers: every half, and blocks whose extremes are whole multiples *)
(* of their type's largest level.                                            *)

Halves == \E h \in 0..31743 : (h % 7 = 0 \/ h % 1024 \in {0, 1, 1022, 1023})
                               /\ job' = [kind |-> "half", half |-> h]

\* n numbers from lo to hi, both reached in every stretch of 32; highs and lows shrink from
\* the first stretch on, each in its own way.
Wave(n, a, lo, hi) ==
  [i \in 0..(n - 1) |->
     LET v == IF i % 32 = 17 THEN hi ELSE IF i % 32 = 20 THEN lo
              ELSE (((a * i * i + 7 * i) % (hi - lo + 1)) + lo)
     IN IF v > 0 THEN v \div (1 + ((i \div 32) % 3)) ELSE -((-v) \div (1 + ((i \div 32) % 5)))]

Packed == \E a \in 1..4,
             b \in {<<"Q8_0", 32, -127 * 5, 400>>, <<"Q4_0", 32, -127, 8 * 40>>,
                    <<"Q4_0", 32, -160, 20>>, <<"Q2_K", 256, -30, 150>>, <<"Q2_K", 256, 0, 0>>,
                    <<"Q4_K", 256, -63, 945 * 2 - 63>>, <<"Q5_K", 256, -63, 1953 * 2 - 63>>,
                    <<"Q6_K", 256, -4000, 4064>>, <<"Q6_K", 256, -4064 * 3, 3000>>} :
            job' = [kind |-> "block", type |-> b[1], x |-> Wave(b[2], a, b[3], b[4])]

Signs == \E a \in 1..6 :
           job' = [kind |-> "signs", signed |-> Wave(32, a, -5, 6)]

Heads8 == \E x \in [0..2 -> {-100, -3, 0, 1, 2, 50, 77}] : job' = [kind |-> "kv", head |-> x]

\* What is stored in fewer bits comes back within the rounding of its format.
StoredWithinRounding ==
  /\ job.kind = "half" => Q!HalfIsNearest(job.half) /\ Q!Bf16IsNearest(job.half)
  /\ job.kind = "block" => Q!Reconstructed(job.type, job.x)
  /\ job.kind = "signs" => Q!SignsRecovered(job.signed, [k \in 0..3 |-> 255 - 40 * k], 15)
  /\ job.kind = "kv" =>
       LET q == Ref!KvQuant(job.head, 127)
       IN \A i \in DOMAIN job.head :
            /\ q.code[i] \in -127..127
            /\ 2 * Q!AbsOf(job.head[i] * 127 - q.code[i] * q.amax) <= q.amax

Dotted == \E a \in 1..4, b \in 1..2 :
            job' = [kind |-> "dot", y |-> Wave(256, a, -630, 4064), acts |-> Wave(256, b, -100, 127)]

\* The dot product on the packed block is that of the decoded one.
DotsAgree == job.kind = "dot" => Q!DotsAgree(job.y, job.acts)

-----------------------------------------------------------------------------

Init == tok = Tok!NewTokenizer(MCTokens, MCMerges) /\ job = [kind |-> "none"] /\ NoReply
OneJob ==
  /\ reply = << >>
  /\ \/ Text \/ JsonValue \/ Sampled \/ Routed \/ Conversed \/ Decoded
     \/ Halves \/ Packed \/ Signs \/ Heads8 \/ Dotted
  /\ UNCHANGED reply
OneToken == NextToken /\ UNCHANGED job
Next == job.kind = "none" /\ (OneJob \/ OneToken) /\ UNCHANGED tok
Spec == Init /\ [][Next]_vars
===============================================================================
