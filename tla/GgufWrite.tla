------------------------------ MODULE GgufWrite -------------------------------
(***************************************************************************)
(* ornith_quantize_file and the writer it drives (src/ornith_gguf_write.c):*)
(* load a file, recode every tensor to the type the policy asks for, write *)
(* the result. A write may fail part of the way, and the process may end   *)
(* at any time with any part of what stdio holds on the disk. How a tensor *)
(* is recoded is QuantBlocks' matter: here its bytes are stretched to the  *)
(* new size, so that every one of them still tells where it came from.     *)
(***************************************************************************)
EXTENDS GgufFormat

CONSTANTS
  Inputs,          \* the input files, as bytes
  Base             \* the type for tensors no rule names

\* Files are bytes; the magic is four of them.
ASSUME BytesAssumption ==
  Inputs \subseteq Seq(0..255) /\ Magic \in Seq(0..255) /\ Len(Magic) = 4

VARIABLES
  input,           \* the input file
  loaded,          \* what ogguf_load made of it
  recoded,         \* the tensors added to the writer
  header,          \* the header under construction
  offs, off,       \* offsets given so far, and the next one
  disk,            \* the output file
  written,         \* tensors whose data is out
  phase

vars == <<input, loaded, recoded, header, offs, off, disk, written, phase>>

NoFile == <<>>

Init ==
  /\ input \in Inputs
  /\ loaded = Refused /\ recoded = <<>>
  /\ header = <<>> /\ offs = <<>> /\ off = 0
  /\ disk = NoFile /\ written = 0
  /\ phase = "load"

LoadInput ==
  /\ phase = "load"
  /\ loaded' = Load(input)
  /\ phase' = IF loaded'.ok THEN "recode" ELSE "failed"
  /\ UNCHANGED <<input, recoded, header, offs, off, disk, written>>

Stretch(data, size) ==
  [k \in 1..size |-> data[((k - 1) * Len(data)) \div size + 1]]

Recoded(t) ==
  LET n == ProductOf(t.dims)
      target == TargetType(NameHas(t.name), Base, n)
  IN [name |-> t.name, dims |-> t.dims, type |-> target,
      data |-> Stretch(t.data, RowBytes(target, n))]

\* Dequantize, choose, encode, add to the writer.
Recode ==
  /\ phase = "recode" /\ Len(recoded) < Len(loaded.tensors)
  /\ LET t == loaded.tensors[Len(recoded) + 1]
     IN IF CanDecode(t.type)
        THEN recoded' = Append(recoded, Recoded(t)) /\ phase' = phase
        ELSE recoded' = recoded /\ phase' = "failed"
  /\ UNCHANGED <<input, loaded, header, offs, off, disk, written>>

\* fopen(path, "wb"): what was there is gone; the metadata passes through.
OpenOutput ==
  /\ phase = "recode" /\ Len(recoded) = Len(loaded.tensors)
  /\ \/ /\ header' = HeaderBytes(loaded.kvs, Len(recoded))
        /\ phase' = "index"
     \/ phase' = "failed" /\ header' = header
  /\ UNCHANGED <<input, loaded, recoded, offs, off, disk, written>>

\* Mutant: the offset moves by the size alone.
IndexTensorUnpadded ==
  /\ phase = "index" /\ Len(offs) < Len(recoded)
  /\ LET t == recoded[Len(offs) + 1]
     IN /\ header' = header \o IndexBytes(t, off)
        /\ off' = off + Len(t.data)
  /\ offs' = Append(offs, off)
  /\ UNCHANGED <<input, loaded, recoded, disk, written, phase>>

IndexTensor ==
  /\ phase = "index" /\ Len(offs) < Len(recoded)
  /\ LET t == recoded[Len(offs) + 1]
     IN /\ header' = header \o IndexBytes(t, off)
        /\ off' = AlignUp(off + Len(t.data), Alignment)
  /\ offs' = Append(offs, off)
  /\ UNCHANGED <<input, loaded, recoded, disk, written, phase>>

WriteHeader ==
  /\ phase = "index" /\ Len(offs) = Len(recoded)
  /\ disk' = PadTo(header, Alignment)
  /\ phase' = "data"
  /\ UNCHANGED <<input, loaded, recoded, header, offs, off, written>>

WriteTensor ==
  /\ phase = "data" /\ written < Len(recoded)
  /\ disk' = PadTo(disk \o recoded[written + 1].data, Alignment)
  /\ written' = written + 1
  /\ UNCHANGED <<input, loaded, recoded, header, offs, off, phase>>

CloseOutput ==
  /\ phase = "data" /\ written = Len(recoded)
  /\ phase' = "closed"
  /\ UNCHANGED <<input, loaded, recoded, header, offs, off, disk, written>>

\* A short write, a close that fails, or the end of the process, which may
\* find any part of the stream flushed.
Cut ==
  /\ phase = "data"
  /\ \E k \in 0..Len(disk) : disk' = SubSeq(disk, 1, k)
  /\ phase' = "failed"
  /\ UNCHANGED <<input, loaded, recoded, header, offs, off, written>>

Done == phase \in {"closed", "failed"} /\ UNCHANGED vars

Next ==
  \/ LoadInput \/ Recode \/ OpenOutput \/ IndexTensor \/ WriteHeader \/ WriteTensor
  \/ CloseOutput \/ Cut \/ Done

Spec == Init /\ [][Next]_vars

(******************************* properties ********************************)

\* What the output has to say: the same metadata, tensors of the same names
\* and shapes, recoded.
Expected ==
  [ok |-> TRUE, kvs |-> loaded.kvs,
   tensors |-> [k \in DOMAIN loaded.tensors |-> Recoded(loaded.tensors[k])]]

(***************************************************************************)
(* A closed output loads, and says what the input said: ogguf_load is the  *)
(* inverse of ogguf_writer_write (ornith_gguf_write.c:2, "mirrors the      *)
(* reader exactly"; ornith_gguf_write.h:100, metadata "copied through       *)
(* unchanged").                                                            *)
(***************************************************************************)
LoadInvertsWrite == phase = "closed" => Load(disk) = Expected

(***************************************************************************)
(* A file that a failure or a crash cut short is refused by the loader,    *)
(* unless only padding is missing: no reader computes with part of a       *)
(* tensor (the bounds check at ornith_gguf_write.c:464).                   *)
(***************************************************************************)
CutFileRefused ==
  phase = "failed" => \/ ~Load(disk).ok
                      \/ Load(disk) = Expected

(***************************************************************************)
(* What `ornith inspect` prints of an output is what the loader finds in   *)
(* it, although the two parse the file with separate code                  *)
(* (ornith_gguf.c:105, ornith_gguf_write.c:333).                           *)
(***************************************************************************)
InspectorAgrees ==
  LET seen == Open(disk)
      got == Load(disk)
      elements(type) ==
        FoldLeft(LAMBDA sum, t : sum + IF t.type = type THEN ProductOf(t.dims) ELSE 0,
                 0, got.tensors)
      archAt ==
        SelectLastInSeq(got.kvs, LAMBDA kv : kv.key = ArchKey /\ kv.tag = StringTag)
  IN got.ok =>
       /\ seen.ok
       /\ [k \in DOMAIN seen.index |-> <<seen.index[k].name, seen.index[k].dims>>]
            = [k \in DOMAIN got.tensors |-> <<got.tensors[k].name, got.tensors[k].dims>>]
       /\ DOMAIN seen.share = {t.type : t \in ToSet(got.tensors)}
       /\ \A type \in DOMAIN seen.share : seen.share[type] = elements(type)
       /\ archAt # 0 => seen.arch = StringAt(got.kvs[archAt].payload, 0)

(***************************************************************************)
(* The writer implements GgufLayout: the places the index promises are the *)
(* places the data loop writes to.                                         *)
(***************************************************************************)
Layout == INSTANCE GgufLayout
  WITH sizes <- [k \in DOMAIN recoded |-> Len(recoded[k].data)],
       offs <- offs, off <- off, n <- written,
       start <- IF phase \in {"load", "recode", "index"} THEN 0
                ELSE AlignUp(Len(header), Alignment),
       pos <- Len(disk),
       phase <- CASE phase \in {"load", "recode"} -> "collect"
                  [] phase = "failed" -> "stopped"
                  [] OTHER -> phase

LayoutSpec == Layout!Spec
===============================================================================
