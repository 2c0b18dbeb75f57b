------------------------------ MODULE ChatHistory -----------------------------
(***************************************************************************)
(* src/ornith_server.c: how a request of each of the three protocols       *)
(* becomes the one chat history and the prompt, and how a reply becomes a  *)
(* response. JSON is taken as parsed: a request is a record, a content a   *)
(* sequence of blocks (a bare string is one block).                        *)
(***************************************************************************)
EXTENDS ToolText

CONSTANTS ImStart, ImEnd  \* the tokenizer's ids of the chat markers, or -1

Msg(role, content) == [role |-> role, content |-> content]

\* append_tool_call_block.
WithCall(text, call) ==
  (IF text = << >> THEN text ELSE Append(text, "ws")) \o <<"open", call, "close">>

WithCalls(text, calls) == FoldLeft(WithCall, text, calls)

-----------------------------------------------------------------------------
(* Options.                                                                  *)

Choice(kind) == [kind |-> kind, name |-> ""]
Named(name) == [kind |-> "named", name |-> name]

\* parse_tool_choice_openai: a word, or an object naming a function directly
\* (Responses) or under "function" (Chat); an object without a name changes nothing.
ToolChoiceOpenAI(tc) ==
  IF tc.form = "word"
  THEN Choice(IF tc.word \in {"none", "required"} THEN tc.word ELSE "auto")
  ELSE IF tc.form \in {"nested", "flat"} THEN Named(tc.word) ELSE Choice("auto")

\* parse_tool_choice_anthropic: an object with a type, "any" for required.
ToolChoiceAnthropic(tc) ==
  IF tc.form # "typed" THEN Choice("auto")
  ELSE IF tc.word = "none" THEN Choice("none")
  ELSE IF tc.word = "any" THEN Choice("required")
  ELSE IF tc.word = "tool"
       THEN IF tc.name = "" THEN Choice("required") ELSE Named(tc.name)
  ELSE Choice("auto")

-----------------------------------------------------------------------------
(* Requests. A history is a sequence of messages, an error a message.        *)

\* collapse_content: the texts of the blocks, those of other types included.
Collapse(blocks) == FlattenSeq([i \in DOMAIN blocks |-> blocks[i].text])

\* One message of srv_parse_openai_chat.
ChatMessage(m) ==
  IF m.role = "tool" THEN Msg("tool", Collapse(m.content))
  ELSE IF m.role = "assistant" /\ m.tool_calls # << >>
       THEN Msg("assistant", WithCalls(Collapse(m.content), m.tool_calls))
  ELSE Msg(m.role, Collapse(m.content))

ParseChat(messages) == [i \in DOMAIN messages |-> ChatMessage(messages[i])]

\* One item of srv_parse_responses.
ResponsesItem(it) ==
  IF it.type = "function_call" THEN Msg("assistant", WithCall(<< >>, it.call))
  ELSE IF it.type = "function_call_output" THEN Msg("tool", Collapse(it.output))
  ELSE Msg(it.role, Collapse(it.content))

\* The instructions, when given, are the system message.
ParseResponses(instructions, items) ==
  (IF instructions = << >> THEN << >> ELSE <<Msg("system", instructions)>>)
    \o [i \in DOMAIN items |-> ResponsesItem(items[i])]

\* Mutant: results are added after the message's own text.
AnthropicMessageLate(m) ==
  LET of(type) == SelectSeq(m.content, LAMBDA b : b.type = type)
      text == Collapse(of("text"))
      calls == WithCalls(<< >>, [i \in DOMAIN of("tool_use") |-> of("tool_use")[i].call])
      own == IF calls = << >> THEN text
             ELSE IF text = << >> THEN calls ELSE Append(text, "ws") \o calls
  IN (IF own = << >> THEN << >> ELSE <<Msg(m.role, own)>>)
       \o [i \in DOMAIN of("tool_result") |->
            Msg("tool", Collapse(of("tool_result")[i].content))]

\* anthropic_add_message: the results of tools first, each a message of its own,
\* then the message's texts and calls, if it has any.
AnthropicMessage(m) ==
  LET of(type) == SelectSeq(m.content, LAMBDA b : b.type = type)
      text == Collapse(of("text"))
      calls == WithCalls(<< >>, [i \in DOMAIN of("tool_use") |-> of("tool_use")[i].call])
      own == IF calls = << >> THEN text
             ELSE IF text = << >> THEN calls ELSE Append(text, "ws") \o calls
  IN [i \in DOMAIN of("tool_result") |-> Msg("tool", Collapse(of("tool_result")[i].content))]
       \o (IF own = << >> THEN << >> ELSE <<Msg(m.role, own)>>)

\* An empty system prompt is dropped.
ParseAnthropic(system, messages) ==
  (IF system = << >> THEN << >> ELSE <<Msg("system", system)>>)
    \o FlattenSeq([i \in DOMAIN messages |-> AnthropicMessage(messages[i])])

-----------------------------------------------------------------------------
(* The prompt.                                                               *)

Section(tools, choice) ==
  <<"tools">> \o tools \o
  (IF choice.kind = "required" THEN <<"must call">>
   ELSE IF choice.kind = "named" THEN <<"must call", choice.name>> ELSE << >>)

Framed(m) == <<"im_start", m.role, "nl">> \o m.content \o <<"im_end", "nl">>

\* srv_render_chatml_tools: with tools the first system message carries them too.
RenderChatml(history, tools, choice) ==
  LET own == history # << >> /\ history[1].role = "system"
      system == Msg("system", (IF own THEN Append(history[1].content, "ws") ELSE << >>)
                                \o Section(tools, choice))
      shown == IF tools = << >> THEN history
               ELSE <<system>> \o (IF own THEN Tail(history) ELSE history)
  IN FlattenSeq([i \in DOMAIN shown |-> Framed(shown[i])]) \o <<"im_start", "assistant", "nl">>

\* build_prompt_ids: a marker becomes its one id when the vocabulary has it;
\* everything else is encoded as text.
PromptIds(chatml) ==
  [i \in DOMAIN chatml |->
     IF chatml[i] = "im_start" /\ ImStart >= 0 THEN <<ImStart>>
     ELSE IF chatml[i] = "im_end" /\ ImEnd >= 0 THEN <<ImEnd>>
     ELSE <<"text", chatml[i]>>]

-----------------------------------------------------------------------------
(* Responses, as the messages a client gives back with its next request.     *)

TextBlock(text) == [type |-> "text", text |-> text]

\* run_request: calls are surfaced when tools were offered and not forbidden.
EmitsTools(reply, tools, choice) ==
  ParseToolCalls(reply) # << >> /\ tools # << >> /\ choice.kind # "none"

\* srv_build_chat_response(_tools): the content is null beside calls.
ChatReply(reply, emits) ==
  <<[role |-> "assistant",
     content |-> IF emits THEN << >> ELSE <<TextBlock(reply)>>,
     tool_calls |-> IF emits THEN ParseToolCalls(reply) ELSE << >>]>>

\* srv_build_responses_response(_tools): an item per call, and no text beside.
ResponsesReply(reply, emits) ==
  LET items(calls) == [i \in DOMAIN calls |-> [type |-> "function_call", call |-> calls[i]]]
  IN IF emits THEN items(ParseToolCalls(reply))
  ELSE <<[type |-> "message", role |-> "assistant", content |-> <<TextBlock(reply)>>]>>

\* srv_build_anthropic_response(_tools): the prose, then the calls.
AnthropicReply(reply, emits) ==
  LET said(prose) == IF prose = << >> THEN << >> ELSE <<TextBlock(prose)>>
      uses(calls) == [i \in DOMAIN calls |-> [type |-> "tool_use", call |-> calls[i]]]
  IN <<[role |-> "assistant",
        content |-> IF ~emits THEN <<TextBlock(reply)>>
                    ELSE said(StripToolCalls(reply)) \o uses(ParseToolCalls(reply))]>>

-----------------------------------------------------------------------------
(* Properties, stated over the conversation: a question, the model's reply,  *)
(* and, when it called tools, their results with the next question.          *)

CallsIn(history) ==
  FlattenSeq([i \in DOMAIN history |->
                IF history[i].role = "assistant" THEN ParseToolCalls(history[i].content)
                ELSE << >>])
Said(history, role) == SelectSeq(history, LAMBDA m : m.role = role)

\* In every protocol the next prompt shows the model the calls it made, once each
\* and in order, every result and every question; Anthropic also its own prose.
\* The order of results and questions is the same in the three.
SameConversation(reply, chat, responses, anthropic) ==
  /\ \A h \in {chat, responses, anthropic} : CallsIn(h) = ParseToolCalls(reply)
  /\ \A role \in {"user", "tool", "system"} :
       /\ Said(chat, role) = Said(anthropic, role)
       /\ Said(chat, role) = Said(responses, role)
  /\ LET others(h) == SelectSeq(h, LAMBDA m : m.role # "assistant")
     IN others(chat) = others(anthropic) /\ others(chat) = others(responses)
  /\ StripToolCalls(FlattenSeq([i \in DOMAIN anthropic |->
       IF anthropic[i].role = "assistant" THEN anthropic[i].content ELSE << >>]))
       = StripToolCalls(reply)

\* Cutting the prompt at the markers gives the history back: no message is lost,
\* merged or shown under another role, and the prompt ends where the model speaks.
PromptFramed(ids, history, tools) ==
  LET starts == SelectSeq([i \in DOMAIN ids |-> i], LAMBDA i : ids[i] = <<ImStart>>)
      frame(s) == LET e == Min({i \in s..(Len(ids) + 1) :
                                  i > Len(ids) \/ ids[i] = <<ImEnd>>})
                  IN SubSeq(ids, s + 1, e - 1)
      frames == [n \in DOMAIN starts |-> frame(starts[n])]
      text(m) == [i \in 1..Len(m.content) |-> <<"text", m.content[i]>>]
      shown(m) == <<<<"text", m.role>>, <<"text", "nl">>>> \o text(m)
      skip == IF tools # << >> /\ (history = << >> \/ history[1].role # "system")
              THEN 1 ELSE 0
  IN /\ Len(frames) = Len(history) + skip + 1
     /\ Last(frames) = <<<<"text", "assistant">>, <<"text", "nl">>>>
     /\ \A n \in DOMAIN history :
          IF n = 1 /\ history[1].role = "system"
          THEN IsPrefix(shown(history[1]), frames[1])
          ELSE frames[n + skip] = shown(history[n])
===============================================================================
