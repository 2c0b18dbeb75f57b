------------------------------ MODULE GgufFormat ------------------------------
(***************************************************************************)
(* A GGUF file as its bytes, and the two readers of it: the whole-file     *)
(* loader of src/ornith_gguf_write.c and the inspector of                  *)
(* src/ornith_gguf.c. Numbers fit in three bytes (bound). A reader that    *)
(* fails is at Bad.                                                        *)
(***************************************************************************)
EXTENDS QuantTypes, GgufAlign, FiniteSets

CONSTANTS
  Magic,           \* "GGUF", four bytes
  AlignmentKey,    \* "general.alignment"
  ArchKey,         \* "general.architecture"
  NameHas(_)       \* the policy's substrings that occur in a tensor name

MaxDims == 4
Version == 3

\* The value type tags that are told apart.
UInt32 == 4
StringTag == 8
ArrayTag == 9

ScalarSize(tag) ==
  CASE tag \in {0, 1, 7} -> 1 [] tag \in {2, 3} -> 2 [] tag \in {4, 5, 6} -> 4
    [] tag \in {10, 11, 12} -> 8 [] OTHER -> 0

(******************************** writing **********************************)
Le(v, width) == [k \in 1..width |-> CASE k = 1 -> v % 256 [] k = 2 -> (v \div 256) % 256
                                       [] k = 3 -> (v \div 65536) % 256 [] OTHER -> 0]
U32(v) == Le(v, 4)
U64(v) == Le(v, 8)
Str(s) == U64(Len(s)) \o s

KvBytes(kv) == Str(kv.key) \o U32(kv.tag) \o kv.payload
IndexBytes(t, off) ==
  Str(t.name) \o U32(Len(t.dims)) \o FlattenSeq([d \in DOMAIN t.dims |-> U64(t.dims[d])])
    \o U32(t.type) \o U64(off)

HeaderBytes(kvs, nTensors) ==
  Magic \o U32(Version) \o U64(nTensors) \o U64(Len(kvs))
    \o FlattenSeq([k \in DOMAIN kvs |-> KvBytes(kvs[k])])

PadTo(f, align) == f \o [k \in 1..(AlignUp(Len(f), align) - Len(f)) |-> 0]

(******************************** reading **********************************)
Bad == -1

\* The number of that width at byte at, if the file has it.
Holds(f, at, width) == at # Bad /\ at + width <= Len(f)
Num(f, at) == f[at + 1] + 256 * f[at + 2] + 65536 * f[at + 3]
\* The place after n more bytes.
Take(f, at, n) == IF Holds(f, at, n) THEN at + n ELSE Bad

StringAt(f, at) == SubSeq(f, at + 9, at + 8 + Num(f, at))
StringEnd(f, at) == IF Holds(f, at, 8) THEN Take(f, at + 8, Num(f, at)) ELSE Bad

\* load_value: the place after one value; an array's elements are values, and they
\* nest no deeper than the file is long.
LoadEnd(f, tag, at) ==
  LET end[deep \in 0..Len(f)] ==
        [t \in Nat |-> [p \in Nat \cup {Bad} |->
           IF p = Bad THEN Bad
           ELSE IF t = StringTag THEN StringEnd(f, p)
           ELSE IF t = ArrayTag
                THEN IF deep = 0 \/ ~Holds(f, p, 12) THEN Bad
                     ELSE FoldLeft(LAMBDA q, k : end[deep - 1][Num(f, p)][q], p + 12,
                                   [k \in 1..Num(f, p + 4) |-> k])
           ELSE IF ScalarSize(t) = 0 THEN Bad ELSE Take(f, p, ScalarSize(t))]]
  IN end[Len(f)][tag][at]

LoadKv(f, at) ==
  LET tagAt == StringEnd(f, at)
      end == IF Holds(f, tagAt, 4) THEN LoadEnd(f, Num(f, tagAt), tagAt + 4) ELSE Bad
  IN IF end = Bad
     THEN [at |-> Bad]
     ELSE [at |-> end,
           item |-> [key |-> StringAt(f, at), tag |-> Num(f, tagAt),
                     payload |-> SubSeq(f, tagAt + 5, end)]]

ProductOf(dims) == FoldLeft(LAMBDA a, b : a * b, 1, dims)

\* One record of the tensor index; both readers read it in the same way.
IndexRecord(f, at) ==
  LET record(dims, typeAt) ==
        IF ~Holds(f, typeAt, 12)
        THEN [at |-> Bad]
        ELSE [at |-> typeAt + 12,
              item |-> [name |-> StringAt(f, at), dims |-> dims, elements |-> ProductOf(dims),
                        type |-> Num(f, typeAt), offset |-> Num(f, typeAt + 4)]]
      from(dimsAt, nd) == record([d \in 1..nd |-> Num(f, dimsAt + 8 * (d - 1))],
                                 IF nd > MaxDims THEN Bad ELSE Take(f, dimsAt, 8 * nd))
      counted(dimsAt) ==
        IF dimsAt = Bad THEN [at |-> Bad] ELSE from(dimsAt, Num(f, dimsAt - 4))
  IN counted(Take(f, StringEnd(f, at), 4))

\* n records of a table, read one after the other.
Table(read(_, _), f, at, n) ==
  FoldLeft(LAMBDA acc, k :
             IF acc.at = Bad THEN acc
             ELSE LET r == read(f, acc.at)
                  IN IF r.at = Bad THEN [at |-> Bad, items |-> <<>>]
                     ELSE [at |-> r.at, items |-> Append(acc.items, r.item)],
           [at |-> at, items |-> <<>>], [k \in 1..n |-> k])

HeaderOK(f) == Holds(f, 0, 24) /\ SubSeq(f, 1, 4) = Magic /\ Num(f, 4) \in 2..3

Refused == [ok |-> FALSE]

\* The alignment the file asks for; the last such key wins, 0 is not taken.
AlignmentOf(kvs) ==
  LET asked == {k \in DOMAIN kvs : /\ kvs[k].key = AlignmentKey /\ kvs[k].tag = UInt32
                                   /\ Num(kvs[k].payload, 0) # 0}
  IN IF asked = {} THEN Alignment
     ELSE Num(kvs[CHOOSE k \in asked : \A j \in asked : j <= k].payload, 0)

\* Mutant: a tensor has to start in the file, not to end there.
TensorFitsStart(f, start, t) ==
  /\ t.elements # 0 => RowBytes(t.type, t.elements) # 0
  /\ t.offset <= Len(f) - start

TensorFits(f, start, t) ==
  /\ t.elements # 0 => RowBytes(t.type, t.elements) # 0
  /\ t.offset <= Len(f) - start
  /\ RowBytes(t.type, t.elements) <= Len(f) - start - t.offset

\* ogguf_load.
Load(f) ==
  IF ~HeaderOK(f) THEN Refused
  ELSE LET byte(k) == IF k <= Len(f) THEN f[k] ELSE 0   \* the rest of a mapped page
           tensor(t, start) ==
             [name |-> t.name, dims |-> t.dims, type |-> t.type,
              data |-> [b \in 1..RowBytes(t.type, t.elements) |-> byte(start + t.offset + b)]]
           sliced(kvs, index, start) ==
             IF start > Len(f) \/ \E k \in DOMAIN index : ~TensorFits(f, start, index[k])
             THEN Refused
             ELSE [ok |-> TRUE, kvs |-> kvs,
                   tensors |-> [k \in DOMAIN index |-> tensor(index[k], start)]]
           indexed(kvs, index) ==
             IF index.at = Bad THEN Refused
             ELSE sliced(kvs, index.items, AlignUp(index.at, AlignmentOf(kvs)))
           described(kvs) ==
             IF kvs.at = Bad THEN Refused
             ELSE indexed(kvs.items, Table(IndexRecord, f, kvs.at, Num(f, 8)))
       IN described(Table(LoadKv, f, 24, Num(f, 16)))

\* skip_value: only seeks, so it may run past the end; no nested arrays.
SkipEnd(f, tag, at) ==
  LET skipString(p) == IF Holds(f, p, 8) THEN p + 8 + Num(f, p) ELSE Bad
      elem == Num(f, at)
  IN CASE tag = StringTag -> skipString(at)
       [] tag = ArrayTag ->
            IF ~Holds(f, at, 12) THEN Bad
            ELSE IF elem = StringTag
                 THEN FoldLeft(LAMBDA p, k : skipString(p), at + 12,
                               [k \in 1..Num(f, at + 4) |-> k])
            ELSE IF ScalarSize(elem) = 0 THEN Bad
            ELSE at + 12 + ScalarSize(elem) * Num(f, at + 4)
       [] OTHER -> IF ScalarSize(tag) = 0 THEN Bad ELSE at + ScalarSize(tag)

\* Of the two keys that are captured only the architecture's is told apart; a
\* value that is no string is captured as an empty one.
OpenKv(f, at) ==
  LET tagAt == StringEnd(f, at)
      isArch == StringAt(f, at) = ArchKey
      captured == isArch /\ Num(f, tagAt) = StringTag
      end == IF ~Holds(f, tagAt, 4) THEN Bad
             ELSE IF captured THEN StringEnd(f, tagAt + 4)
             ELSE SkipEnd(f, Num(f, tagAt), tagAt + 4)
  IN IF end = Bad
     THEN [at |-> Bad]
     ELSE [at |-> end,
           item |-> IF ~isArch THEN <<>>
                    ELSE IF captured THEN <<StringAt(f, tagAt + 4)>> ELSE <<<<>>>>]

\* Mutant: counts tensors, not their elements.
ElementsOfTensors(index, type) == Cardinality({k \in DOMAIN index : index[k].type = type})

ElementsOf(index, type) ==
  FoldLeft(LAMBDA sum, t : sum + IF t.type = type THEN t.elements ELSE 0, 0, index)

\* ogguf_open: the architecture, the index and its summary, no data.
Open(f) ==
  IF ~HeaderOK(f) THEN Refused
  ELSE LET archOf(values) ==   \* the last such key wins
             LET k == SelectLastInSeq(values, LAMBDA v : v # <<>>)
             IN IF k = 0 THEN <<>> ELSE values[k][1]
           summary(values, index) ==
             [ok |-> TRUE, arch |-> archOf(values), index |-> index,
              share |-> [type \in {t.type : t \in ToSet(index)} |-> ElementsOf(index, type)],
              experts |-> Cardinality({k \in DOMAIN index :
                            NameHas(index[k].name)
                              \intersect {"ffn_gate_exps", "ffn_up_exps", "ffn_down_exps"} # {}})]
           indexed(values, index) ==
             IF index.at = Bad THEN Refused ELSE summary(values, index.items)
           described(kvs) ==
             IF kvs.at = Bad THEN Refused
             ELSE indexed(kvs.items, Table(IndexRecord, f, kvs.at, Num(f, 8)))
       IN described(Table(OpenKv, f, 24, Num(f, 16)))
===============================================================================
