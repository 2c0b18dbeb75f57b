------------------------------- MODULE ReplyText ------------------------------
(***************************************************************************)
(* The text of a reply as generate_collect of src/ornith_server.c gathers  *)
(* it, one piece after the other (on_token_collect), ended anywhere: by    *)
(* the model or by the cap. Whatever it says, the two scanners run on it.  *)
(***************************************************************************)
EXTENDS ToolText

CONSTANTS Tokens,      \* what a token may be: tags, white space, calls, anything else
          MaxReply     \* bound: tokens of a reply

VARIABLE reply

NoReply == reply = << >>
Generate(t) == Len(reply) < MaxReply /\ reply' = Append(reply, t)
NextToken == \E t \in Tokens : Generate(t)
ReplySpec == NoReply /\ [][NextToken]_reply

\* srv_parse_tool_calls_from_text and strip_tool_calls see the same blocks in the
\* reply, wherever it ends.
SameBlocks == ScannersAgree(reply, ParseToolCalls(reply), StripToolCalls(reply))
===============================================================================
