------------------------------ MODULE Tokenizer ------------------------------
(***************************************************************************)
(* The byte-level BPE tokenizer (ornith_tokenizer.c).  Texts and pieces    *)
(* are sequences of bytes; t is the otokenizer that Init builds.           *)
(***************************************************************************)
EXTENDS Integers, SequencesExt

CONSTANT Hash(_)    \* fnv1a

\* A merge key longer than this buffer is never looked up.
KeyBuffer == 256

(*--------------------- the hash map of pieces (smap) ---------------------*)

\* The capacity that smap_init picks: a power of two, at least twice the entries.
RECURSIVE Capacity(_, _)
Capacity(cap, want) == IF cap < want * 2 THEN Capacity(cap * 2, want) ELSE cap

NewMap(want) == [i \in 0 .. Capacity(16, want) - 1 |-> <<>>]

\* The slot of a key, or the free one where the probe stops.
RECURSIVE Probe(_, _, _)
Probe(map, key, i) ==
  IF map[i] = <<>> \/ map[i][1] = key THEN i
  ELSE Probe(map, key, (i + 1) % Cardinality(DOMAIN map))

Slot(map, key) == Probe(map, key, Hash(key) % Cardinality(DOMAIN map))

Put(map, key, val) == [map EXCEPT ![Slot(map, key)] = <<key, val>>]

\* The value of a key, -1 if it has none.
Get(map, key) == LET e == map[Slot(map, key)] IN IF e = <<>> THEN -1 ELSE e[2]

Filled(keys) == FoldLeft(LAMBDA m, i : Put(m, keys[i], i - 1), NewMap(Len(keys)),
                         [i \in 1 .. Len(keys) |-> i])
(*--------------------------- the byte alphabet ---------------------------*)

Utf8Encode(cp) ==
  IF cp < 128 THEN <<cp>>
  ELSE IF cp < 2048 THEN <<192 + cp \div 64, 128 + (cp % 64)>>
  ELSE <<224 + cp \div 4096, 128 + ((cp \div 64) % 64), 128 + (cp % 64)>>

\* The code point at p, and the bytes it takes: none at the end of the piece.
Utf8Decode(s, p) ==
  LET byte(k) == IF k \in DOMAIN s THEN s[k] ELSE 0
      c == byte(p)
      low(k) == byte(k) % 64
  IN  CASE c = 0 -> [cp |-> 0, adv |-> 0]
        [] c \in 192 .. 223 -> [cp |-> (c % 32) * 64 + low(p + 1), adv |-> 2]
        [] c \in 224 .. 239 ->
             [cp |-> (c % 16) * 4096 + low(p + 1) * 64 + low(p + 2), adv |-> 3]
        [] OTHER -> [cp |-> c, adv |-> 1]

Printable(b) == b \in (33 .. 126) \cup (161 .. 172) \cup (174 .. 255)

\* build_byte_alphabet: a byte that prints is its own code point, the others take those from
\* 256 on in order; -1 where a code point stands for no byte.
CodePoint(b) ==
  IF Printable(b) THEN b ELSE 256 + Cardinality({a \in 0 .. b - 1 : ~Printable(a)})
ByteOf(hidden, cp) == IF cp < 256 /\ Printable(cp) THEN cp
                      ELSE IF cp - 255 \in DOMAIN hidden THEN hidden[cp - 255] ELSE -1

\* otok_init: token id i is at position i + 1 of tokens; a merge is a pair of pieces and its
\* rank its position.
NewTokenizer(tokens, merges) ==
  LET hidden == SelectSeq([i \in 1 .. 256 |-> i - 1], LAMBDA b : ~Printable(b))
  IN  [tokens |-> tokens, vocab |-> Filled(tokens), merges |-> Filled(merges),
       byte2uni |-> [b \in 0 .. 255 |-> Utf8Encode(CodePoint(b))],
       uni2byte |-> [cp \in 0 .. 1023 |-> ByteOf(hidden, cp)]]

IdOf(t, piece) == Get(t.vocab, piece)

(*------------------------------- decoding --------------------------------*)

\* Characters that stand for no byte, those of a special token, are skipped.
RECURSIVE DetokFrom(_, _, _)
DetokFrom(t, piece, p) ==
  LET d == Utf8Decode(piece, p)
      b == IF d.cp < 1024 THEN t.uni2byte[d.cp] ELSE -1
  IN  IF d.adv = 0 THEN <<>>
      ELSE (IF b < 0 THEN <<>> ELSE <<b>>) \o DetokFrom(t, piece, p + d.adv)

Detok(t, id) == IF id \in 0 .. Len(t.tokens) - 1 THEN DetokFrom(t, t.tokens[id + 1], 1) ELSE <<>>

Decode(t, ids) == FlattenSeq([i \in DOMAIN ids |-> Detok(t, ids[i])])

(*------------------------------- encoding --------------------------------*)

Rank(t, a, b) == IF Len(a) + Len(b) + 2 > KeyBuffer THEN -1 ELSE Get(t.merges, <<a, b>>)

RECURSIVE Merge(_, _)

\* Mutant: the leftmost pair that has a rank.
MergeFirst(t, sym) ==
  LET ranked == {i \in 1 .. Len(sym) - 1 : Rank(t, sym[i], sym[i + 1]) >= 0}
      best == CHOOSE i \in ranked : \A j \in ranked : i <= j
  IN  IF ranked = {} THEN sym
      ELSE Merge(t, SubSeq(sym, 1, best - 1) \o <<sym[best] \o sym[best + 1]>>
                 \o SubSeq(sym, best + 2, Len(sym)))

\* Merge the leftmost pair of the lowest rank until no pair has one.
Merge(t, sym) ==
  LET ranked == {i \in 1 .. Len(sym) - 1 : Rank(t, sym[i], sym[i + 1]) >= 0}
      rank(i) == Rank(t, sym[i], sym[i + 1])
      best == CHOOSE i \in ranked :
                \A j \in ranked : rank(i) < rank(j) \/ (rank(i) = rank(j) /\ i <= j)
  IN  IF ranked = {} THEN sym
      ELSE Merge(t, SubSeq(sym, 1, best - 1) \o <<sym[best] \o sym[best + 1]>>
                 \o SubSeq(sym, best + 2, Len(sym)))

\* A piece that is not in the vocabulary is dropped.
BpeChunk(t, bytes) ==
  LET pieces == Merge(t, [i \in DOMAIN bytes |-> t.byte2uni[bytes[i]]])
  IN  SelectSeq([i \in DOMAIN pieces |-> IdOf(t, pieces[i])], LAMBDA id : id >= 0)

\* Byte classes.
IsSpace(c) == c \in 9 .. 13 \cup {32}
IsLetter(c) == c \in (65 .. 90) \cup (97 .. 122) \/ c >= 128
IsDigit(c) == c \in 48 .. 57
IsPunct(c) == ~IsSpace(c) /\ ~IsLetter(c) /\ ~IsDigit(c)
Lower(c) == IF c \in 65 .. 90 THEN c + 32 ELSE c

\* Where the run of bytes of a class from p on ends.
RunEnd(s, p, Is(_)) ==
  CHOOSE j \in p .. Len(s) + 1 : (\A k \in p .. j - 1 : Is(s[k]))
                                 /\ (j = Len(s) + 1 \/ ~Is(s[j]))

\* The length of a contraction ('re, 've, 'll, 's, 't, 'm, 'd) at i, 0 if there is none.
Contraction(s, i) ==
  LET next == IF i < Len(s) THEN Lower(s[i + 1]) ELSE 0
      after == IF i + 1 < Len(s) THEN Lower(s[i + 2]) ELSE 0
  IN  IF s[i] # 39 THEN 0
      ELSE IF <<next, after>> \in {<<114, 101>>, <<118, 101>>, <<108, 108>>} THEN 3
      ELSE IF next \in {115, 116, 109, 100} THEN 2 ELSE 0

\* next_chunk: where the chunk that starts at i ends.
NextChunk(s, i) ==
  LET c == s[i]
      has(Is(_)) == i < Len(s) /\ Is(s[i + 1])
      word == IF ~IsLetter(c) /\ ~IsDigit(c) /\ c \notin {10, 13} /\ has(IsLetter) THEN i + 1 ELSE i
      punct == IF c = 32 /\ has(IsPunct) THEN i + 1 ELSE i
      blank == RunEnd(s, i, IsSpace)
  IN  IF Contraction(s, i) > 0 THEN i + Contraction(s, i)
      ELSE IF IsLetter(s[word]) THEN RunEnd(s, word, IsLetter)
      ELSE IF IsDigit(c) THEN i + 1
      ELSE IF IsPunct(s[punct]) THEN RunEnd(s, punct, IsPunct)
      ELSE IF blank <= Len(s) /\ blank - i > 1 THEN blank - 1 ELSE blank

\* The chunks of a text from i on.
RECURSIVE Chunks(_, _)
Chunks(s, i) ==
  IF i > Len(s) THEN <<>>
  ELSE LET next == NextChunk(s, i)
           j == IF next <= i THEN i + 1 ELSE next
       IN  <<SubSeq(s, i, j - 1)>> \o Chunks(s, j)

Encode(t, text) == LET cs == Chunks(text, 1) IN FlattenSeq([k \in DOMAIN cs |-> BpeChunk(t, cs[k])])

-----------------------------------------------------------------------------

\* The pieces of a chunk by the training order of the merges: each in turn, at every
\* place where it applies, from the left.
RECURSIVE Apply(_, _), ByRank(_, _, _)
Apply(sym, pair) ==
  IF Len(sym) < 2 THEN sym
  ELSE IF <<sym[1], sym[2]>> = pair
       THEN <<sym[1] \o sym[2]>> \o Apply(SubSeq(sym, 3, Len(sym)), pair)
       ELSE <<sym[1]>> \o Apply(Tail(sym), pair)
ByRank(merges, sym, r) == IF r > Len(merges) THEN sym ELSE ByRank(merges, Apply(sym, merges[r]), r + 1)

(***************************************************************************)
(* Encoding loses no byte and splits as the merges were learnt: the ids    *)
(* decode to the very text, and the tokens of every chunk are those the    *)
(* merges give when they are applied in order.  The vocabulary must hold   *)
(* every byte and every product of a merge, as a trained one does.         *)
(***************************************************************************)
TextSurvives(t, merges, text) ==
  LET byRank(chunk) == ByRank(merges, [i \in DOMAIN chunk |-> t.byte2uni[chunk[i]]], 1)
      cs == Chunks(text, 1)
  IN  /\ Decode(t, Encode(t, text)) = text
      /\ \A k \in DOMAIN cs :
           [i \in DOMAIN BpeChunk(t, cs[k]) |-> t.tokens[BpeChunk(t, cs[k])[i] + 1]] = byRank(cs[k])
=============================================================================
