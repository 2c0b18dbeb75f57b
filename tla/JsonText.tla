------------------------------ MODULE JsonText ------------------------------
(***************************************************************************)
(* The JSON reader (ornith_json.c) and the server's writer                 *)
(* (srv_json_escape, ojson_stringify).  A text is a sequence of bytes      *)
(* 1..255, its NUL being its end; a number is an integer.                  *)
(***************************************************************************)
EXTENDS Integers, SequencesExt

LOCAL Quote == 34
LOCAL Backslash == 92
LOCAL Digit == 48 .. 57
LOCAL Lit == [true |-> <<116, 114, 117, 101>>, false |-> <<102, 97, 108, 115, 101>>,
              null |-> <<110, 117, 108, 108>>]

\* The short escapes: the letter after the backslash and the byte it stands for.
Short == {<<110, 10>>, <<114, 13>>, <<116, 9>>, <<98, 8>>, <<102, 12>>,
          <<Quote, Quote>>, <<Backslash, Backslash>>}

\* The lower-case hexadecimal digit of a nibble, and the reader's inverse.
Hex(n) == IF n < 10 THEN 48 + n ELSE 87 + n
HexValue(c) == IF c <= 57 THEN c - 48 ELSE IF c >= 97 THEN c - 87 ELSE c - 55
IsHex(c) == c \in Digit \cup (65 .. 70) \cup (97 .. 102)

(*------------------------------- the writer ------------------------------*)

EscapeByte(c) ==
  IF \E e \in Short : e[2] = c
  THEN <<Backslash, (CHOOSE e \in Short : e[2] = c)[1]>>
  ELSE IF c < 32 THEN <<Backslash, 117, 48, 48, Hex(c \div 16), Hex(c % 16)>>
  ELSE <<c>>

Escape(s) == FlattenSeq([i \in DOMAIN s |-> EscapeByte(s[i])])

Quoted(s) == <<Quote>> \o Escape(s) \o <<Quote>>

Decimal(n) ==
  LET digits[k \in Nat] == IF k < 10 THEN <<48 + k>>
                           ELSE Append(digits[k \div 10], 48 + (k % 10))
  IN  IF n < 0 THEN <<45>> \o digits[-n] ELSE digits[n]

Comma(parts) ==
  FlattenSeq([i \in DOMAIN parts |-> (IF i = 1 THEN <<>> ELSE <<44>>) \o parts[i]])

RECURSIVE Stringify(_)
Stringify(v) ==
  CASE v.type = "null"   -> Lit.null
    [] v.type = "bool"   -> IF v.boolean THEN Lit.true ELSE Lit.false
    [] v.type = "number" -> Decimal(v.num)
    [] v.type = "string" -> Quoted(v.str)
    [] v.type = "array"  ->
         <<91>> \o Comma([i \in DOMAIN v.items |-> Stringify(v.items[i])]) \o <<93>>
    [] v.type = "object" ->
         <<123>> \o Comma([i \in DOMAIN v.items |->
                             Quoted(v.keys[i]) \o <<58>> \o Stringify(v.items[i])]) \o <<125>>

(*------------------------------- the reader ------------------------------*)
\* A parse returns the node, or Null, and where it stopped.

Null == [type |-> "none"]
Err(p) == [v |-> Null, p |-> p]
At(t, p) == IF p \in DOMAIN t THEN t[p] ELSE 0

RECURSIVE SkipWs(_, _)
SkipWs(t, p) == IF At(t, p) \in {32, 9, 10, 13} THEN SkipWs(t, p + 1) ELSE p

\* The value of at most four hexadecimal digits, and where they end.
HexRun(t, p) ==
  LET n == CHOOSE k \in 0 .. 4 : (\A i \in 0 .. k - 1 : IsHex(At(t, p + i)))
                                 /\ (k = 4 \/ ~IsHex(At(t, p + k)))
  IN  [code |-> FoldLeft(LAMBDA c, h : c * 16 + HexValue(h), 0, SubSeq(t, p, p + n - 1)),
       p |-> p + n]

\* parse_string_raw from after the opening quote; "\b" and the like, \u, or the byte itself.
RECURSIVE StringTail(_, _, _)
StringTail(t, p, out) ==
  LET e == At(t, p + 1)
      u == HexRun(t, p + 2)
  IN  CASE At(t, p) = 0 -> [ok |-> FALSE, str |-> out, p |-> p]
        [] At(t, p) = Quote -> [ok |-> TRUE, str |-> out, p |-> p + 1]
        [] At(t, p) = Backslash /\ e = 117 ->
             StringTail(t, u.p, Append(out, IF u.code < 128 THEN u.code ELSE 63))
        [] At(t, p) = Backslash /\ e # 117 ->
             StringTail(t, p + 2, Append(out, IF \E s \in Short : s[1] = e
                                              THEN (CHOOSE s \in Short : s[1] = e)[2] ELSE e))
        [] OTHER -> StringTail(t, p + 1, Append(out, t[p]))

ParseString(t, p) ==
  IF At(t, p) # Quote THEN [ok |-> FALSE, str |-> <<>>, p |-> p] ELSE StringTail(t, p + 1, <<>>)

\* A literal: the whole word or nothing.
Literal(t, p, word, v) ==
  IF \A i \in DOMAIN word : At(t, p + i - 1) = word[i] THEN [v |-> v, p |-> p + Len(word)] ELSE Err(p)

\* strtod on an integer.
Number(t, p) ==
  LET length(first) ==
        CHOOSE k \in 0 .. Len(t) : (\A i \in 0 .. k - 1 : At(t, first + i) \in Digit)
                                   /\ At(t, first + k) \notin Digit
      read(sign, first, end) ==
        IF first = end THEN Err(p)
        ELSE [v |-> [type |-> "number",
                     num |-> sign * FoldLeft(LAMBDA a, c : (a * 10) + (c - 48), 0,
                                             SubSeq(t, first, end - 1))],
              p |-> end]
  IN  IF At(t, p) = 45 THEN read(-1, p + 1, p + 1 + length(p + 1)) ELSE read(1, p, p + length(p))

\* The items of an array or the members of an object, after what has been read so far.
RECURSIVE ParseValue(_, _), Items(_, _, _), Members(_, _, _, _)
Items(t, p, items) ==
  LET e == ParseValue(t, p)
      q == SkipWs(t, e.p)
      all == Append(items, e.v)
  IN  CASE e.v = Null -> e
        [] e.v # Null /\ At(t, q) = 44 -> Items(t, q + 1, all)
        [] e.v # Null /\ At(t, q) = 93 -> [v |-> [type |-> "array", items |-> all], p |-> q + 1]
        [] OTHER -> Err(q)

Members(t, p, keys, items) ==
  LET k == ParseString(t, SkipWs(t, p))
      c == SkipWs(t, k.p)
      e == ParseValue(t, c + 1)
      q == SkipWs(t, e.p)
  IN  CASE ~k.ok -> Err(k.p)
        [] k.ok /\ At(t, c) # 58 -> Err(c)
        [] k.ok /\ At(t, c) = 58 /\ e.v = Null -> e
        [] k.ok /\ At(t, c) = 58 /\ e.v # Null /\ At(t, q) = 44 ->
             Members(t, q + 1, Append(keys, k.str), Append(items, e.v))
        [] k.ok /\ At(t, c) = 58 /\ e.v # Null /\ At(t, q) = 125 ->
             [v |-> [type |-> "object", keys |-> Append(keys, k.str), items |-> Append(items, e.v)],
              p |-> q + 1]
        [] OTHER -> Err(q)

ParseValue(t, p0) ==
  LET p == SkipWs(t, p0)
      c == At(t, p)
      s == ParseString(t, p)
      open == SkipWs(t, p + 1)
  IN  CASE c = 123 -> IF At(t, open) = 125
                      THEN [v |-> [type |-> "object", keys |-> <<>>, items |-> <<>>], p |-> open + 1]
                      ELSE Members(t, open, <<>>, <<>>)
        [] c = 91 -> IF At(t, open) = 93
                     THEN [v |-> [type |-> "array", items |-> <<>>], p |-> open + 1]
                     ELSE Items(t, open, <<>>)
        [] c = Quote -> IF s.ok THEN [v |-> [type |-> "string", str |-> s.str], p |-> s.p] ELSE Err(s.p)
        [] c = 116 -> Literal(t, p, Lit.true, [type |-> "bool", boolean |-> TRUE])
        [] c = 102 -> Literal(t, p, Lit.false, [type |-> "bool", boolean |-> FALSE])
        [] c = 110 -> Literal(t, p, Lit.null, [type |-> "null"])
        [] c = 45 \/ c \in Digit -> Number(t, p)
        [] OTHER -> Err(p)

\* What follows the value is not looked at.
Parse(t) == ParseValue(t, 1).v

-----------------------------------------------------------------------------

(***************************************************************************)
(* What the writer prints reads back as the value it was given, spaced or  *)
(* not, and a text cut off before its end is refused (a number alone has   *)
(* no end of its own): tool schemas and arguments pass through both on     *)
(* every request and every reply.                                          *)
(***************************************************************************)
JsonSurvives(v) ==
  LET survives(text) ==
        /\ Parse(text) = v
        /\ Parse(<<10>> \o text \o <<32, 10>>) = v
        /\ v.type # "number" => \A n \in 0 .. Len(text) - 1 : Parse(SubSeq(text, 1, n)) = Null
  IN  survives(Stringify(v))
=============================================================================
