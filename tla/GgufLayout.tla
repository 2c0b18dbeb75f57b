------------------------------ MODULE GgufLayout ------------------------------
(***************************************************************************)
(* What the GGUF writer promises about places: the index is written before *)
(* any data, with an offset per tensor counted from the start of the data  *)
(* section, and each tensor's bytes end up at exactly that place, although *)
(* the two sides pad differently (the index pads its running offset, the   *)
(* data loop pads the position in the file). Only sizes are kept here;     *)
(* GgufWrite writes the bytes and implements this module.                  *)
(***************************************************************************)
EXTENDS GgufAlign, Sequences

VARIABLES
  sizes,    \* bytes of each tensor
  offs,     \* offsets given to the tensors so far
  off,      \* the offset of the next one
  start,    \* where the data section starts, once the header is out
  pos,      \* bytes in the file
  n,        \* tensors written
  phase     \* "collect", "index", "data", "closed", or "stopped" by an error
            \* or a crash

vars == <<sizes, offs, off, start, pos, n, phase>>

Init ==
  /\ sizes = <<>>
  /\ offs = <<>> /\ off = 0
  /\ start = 0 /\ pos = 0 /\ n = 0
  /\ phase = "collect"

\* One more tensor is given to the writer.
Add ==
  /\ phase = "collect"
  /\ sizes' \in Seq(Nat)
  /\ Len(sizes') = Len(sizes) + 1 /\ SubSeq(sizes', 1, Len(sizes)) = sizes
  /\ UNCHANGED <<offs, off, start, pos, n, phase>>

Open ==
  /\ phase = "collect"
  /\ phase' = "index"
  /\ UNCHANGED <<sizes, offs, off, start, pos, n>>

Index ==
  /\ phase = "index" /\ Len(offs) < Len(sizes)
  /\ offs' = Append(offs, off)
  /\ off' = AlignUp(off + sizes[Len(offs) + 1], Alignment)
  /\ UNCHANGED <<sizes, start, pos, n, phase>>

\* The header goes out, padded to any aligned length.
Header ==
  /\ phase = "index" /\ Len(offs) = Len(sizes)
  /\ start' \in Nat /\ start' = AlignUp(start', Alignment)
  /\ pos' = start'
  /\ phase' = "data"
  /\ UNCHANGED <<sizes, offs, off, n>>

Write ==
  /\ phase = "data" /\ n < Len(sizes)
  /\ pos' = AlignUp(pos + sizes[n + 1], Alignment)
  /\ n' = n + 1
  /\ UNCHANGED <<sizes, offs, off, start, phase>>

Close ==
  /\ phase = "data" /\ n = Len(sizes)
  /\ phase' = "closed"
  /\ UNCHANGED <<sizes, offs, off, start, pos, n>>

\* A write that fails, or the end of the process: some of the bytes are there.
Stop ==
  /\ phase \in {"collect", "index", "data"}
  /\ phase' = "stopped"
  /\ pos' \in Nat
  /\ UNCHANGED <<sizes, offs, off, start, n>>

Next == Add \/ Open \/ Index \/ Header \/ Write \/ Close \/ Stop

Spec == Init /\ [][Next]_vars

TypeOK ==
  /\ sizes \in Seq(Nat) /\ offs \in Seq(Nat) /\ Len(offs) <= Len(sizes)
  /\ off \in Nat /\ start \in Nat /\ pos \in Nat
  /\ n \in 0..Len(sizes)
  /\ phase \in {"collect", "index", "data", "closed", "stopped"}

(***************************************************************************)
(* While data is written, the file ends exactly where the index says the   *)
(* next tensor begins (ornith_gguf_write.c:244 against :260), and a closed *)
(* file ends where the offset after the last one points.                   *)
(***************************************************************************)
DataWherePromised ==
  /\ (phase = "data" /\ n < Len(sizes)) => pos = start + offs[n + 1]
  /\ (phase = "closed") => pos = start + off

(***************************************************************************)
(* No tensor reaches into the next one's place, and every place is         *)
(* aligned, in the section and in the file.                                *)
(***************************************************************************)
Disjoint ==
  /\ \A k \in 1..(Len(offs) - 1) : offs[k] + sizes[k] <= offs[k + 1]
  /\ \A k \in 1..Len(offs) : offs[k] % Alignment = 0
  /\ start % Alignment = 0
===============================================================================
