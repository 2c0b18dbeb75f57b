-------------------------------- MODULE MCGguf --------------------------------
(***************************************************************************)
(* Instance of GgufWrite for TLC. The inputs are files another program     *)
(* wrote, laid out with the alignment their metadata names.                *)
(***************************************************************************)
EXTENDS GgufWrite

MCMagic == <<71, 71, 85, 70>>
MCAlignmentKey == <<97>>
MCArchKey == <<98>>

MCNameHas(name) ==
  CASE name = <<1>> -> {"attn_norm", "_norm"}
    [] name = <<2, 2>> -> {"attn_qkv", "attn_q"}
    [] name = <<3>> -> {"ffn_down_exps", "ffn_down"}
    [] OTHER -> {}

Tensor(name, dims, type) == [name |-> name, dims |-> dims, type |-> type]

\* Bytes that tell their tensor and their place in it.
DataOf(t, k) == [b \in 1..RowBytes(t.type, ProductOf(t.dims)) |-> 10 * k + b]

\* A complete file with its data at multiples of align.
FileOf(kvs, tensors, align) ==
  LET size(k) == Len(DataOf(tensors[k], k))
      place[k \in 1..(Len(tensors) + 1)] ==
        IF k = 1 THEN 0 ELSE AlignUp(place[k - 1] + size(k - 1), align)
      index == FlattenSeq([k \in DOMAIN tensors |-> IndexBytes(tensors[k], place[k])])
  IN FoldLeft(LAMBDA f, k : PadTo(f \o DataOf(tensors[k], k), align),
              PadTo(HeaderBytes(kvs, Len(tensors)) \o index, align),
              [k \in DOMAIN tensors |-> k])

Arch == [key |-> MCArchKey, tag |-> StringTag, payload |-> Str(<<113, 51>>)]
Names == [key |-> <<99, 99>>, tag |-> ArrayTag,
          payload |-> U32(StringTag) \o U64(2) \o Str(<<5>>) \o Str(<<>>)]
Ids == [key |-> <<100>>, tag |-> ArrayTag, payload |-> U32(UInt32) \o U64(1) \o U32(300)]
Aligned(a) == [key |-> MCAlignmentKey, tag |-> UInt32, payload |-> U32(a)]

Norm == Tensor(<<1>>, <<3>>, F16)
Qkv == Tensor(<<2, 2>>, <<16, 2>>, F16)
Down == Tensor(<<3>>, <<2>>, F32)
Plain == Tensor(<<4>>, <<1>>, F32)
Unknown == Tensor(<<4>>, <<0>>, 22)

\* Several tensors with sizes off the alignment, with the alignment named and
\* not; no tensor at all; an empty tensor of a type that cannot be decoded; a
\* file cut short.
MCInputs ==
  {FileOf(<<Arch, Names>>, <<Norm, Qkv, Down>>, 32),
   FileOf(<<Aligned(32), Ids, Arch>>, <<Qkv, Plain>>, 32),
   FileOf(<<Ids>>, <<>>, 32),
   FileOf(<<>>, <<Plain, Unknown>>, 32),
   SubSeq(FileOf(<<Arch>>, <<Plain>>, 32), 1, 60)}

\* Files that ask for another alignment.
MCInputsAligned == {FileOf(<<Arch, Aligned(64)>>, <<Norm, Plain>>, 64)}
===============================================================================
