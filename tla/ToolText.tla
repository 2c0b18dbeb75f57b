------------------------------- MODULE ToolText -------------------------------
(***************************************************************************)
(* Tool calls in the text of a reply (src/ornith_server.c): the scanner    *)
(* that reads them and the one that strips them. A text is a sequence of   *)
(* tokens: the tags "open" and "close", white space "ws", a call of Calls  *)
(* standing for its JSON object, and anything else, which is no JSON.      *)
(***************************************************************************)
EXTENDS Integers, Sequences, SequencesExt

CONSTANT Calls    \* the tool calls: JSON objects with a name

\* strstr(text + from, tok): the first place at or after from, 0 when there is none.
Find(text, tok, from) ==
  LET at == {i \in from..Len(text) : text[i] = tok}
  IN IF at = {} THEN 0 ELSE Min(at)

\* White space before and after is cut off.
Trim(text) ==
  LET solid == {i \in DOMAIN text : text[i] # "ws"}
  IN IF solid = {} THEN << >> ELSE SubSeq(text, Min(solid), Max(solid))

\* ojson_parse of a block's inside: one object, whatever follows it.
CallOf(inner) ==
  LET t == Trim(inner)
  IN IF t # << >> /\ Head(t) \in Calls THEN <<Head(t)>> ELSE << >>

\* srv_parse_tool_calls_from_text. A block left open reaches to the end.
ParseToolCalls(text) ==
  LET from[p \in 1..(Len(text) + 1)] ==
        LET o == Find(text, "open", p)
            c == Find(text, "close", o + 1)
        IN IF o = 0 THEN << >>
           ELSE IF c = 0 THEN CallOf(SubSeq(text, o + 1, Len(text)))
           ELSE CallOf(SubSeq(text, o + 1, c - 1)) \o from[c + 1]
  IN from[1]

\* Mutant: a block left open is kept as text.
StripKeepsOpen(text) ==
  LET from[p \in 1..(Len(text) + 1)] ==
        LET o == Find(text, "open", p)
            c == Find(text, "close", o)
        IN IF o = 0 \/ c = 0 THEN SubSeq(text, p, Len(text))
           ELSE SubSeq(text, p, o - 1) \o from[c + 1]
  IN Trim(from[1])

\* strip_tool_calls: a block left open is dropped to the end.
StripToolCalls(text) ==
  LET from[p \in 1..(Len(text) + 1)] ==
        LET o == Find(text, "open", p)
            c == Find(text, "close", o)
        IN IF o = 0 THEN SubSeq(text, p, Len(text))
           ELSE IF c = 0 THEN SubSeq(text, p, o - 1)
           ELSE SubSeq(text, p, o - 1) \o from[c + 1]
  IN Trim(from[1])

-----------------------------------------------------------------------------
(* Properties, stated over one reply.                                        *)

\* Whether token i lies in a block: a tag opens one outside, closes one inside.
InBlock(text) ==
  LET in[i \in 0..Len(text)] ==
        IF i = 0 THEN FALSE
        ELSE IF in[i - 1] THEN text[i] # "close" ELSE text[i] = "open"
  IN [i \in DOMAIN text |-> in[i] \/ in[i - 1]]

Part(text, S) == FoldLeft(LAMBDA a, i : IF i \in S THEN Append(a, text[i]) ELSE a,
                          << >>, [i \in DOMAIN text |-> i])

\* The blocks, from their tag to the closing one.
Blocks(text) ==
  LET in == InBlock(text)
      opens(i) == text[i] = "open" /\ (i = 1 \/ ~in[i - 1] \/ text[i - 1] = "close")
      starts == Part([i \in DOMAIN text |-> i], {i \in DOMAIN text : opens(i)})
      end(s) == LET c == Find(text, "close", s) IN IF c = 0 THEN Len(text) + 1 ELSE c
  IN [n \in DOMAIN starts |-> SubSeq(text, starts[n] + 1, end(starts[n]) - 1)]

\* The two scanners agree on what a block is: what one strips is what the other
\* reads, a call is never both surfaced and left in the prose, and every block
\* that begins with a named object is surfaced, once and in order.
ScannersAgree(text, calls, prose) ==
  /\ prose = Trim(Part(text, {i \in DOMAIN text : ~InBlock(text)[i]}))
  /\ calls = FlattenSeq([n \in DOMAIN Blocks(text) |-> CallOf(Blocks(text)[n])])
  /\ ParseToolCalls(prose) = << >>
===============================================================================
