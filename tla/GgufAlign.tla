------------------------------- MODULE GgufAlign ------------------------------
(***************************************************************************)
(* Places in a GGUF file are multiples of an alignment.                    *)
(***************************************************************************)
EXTENDS Integers

CONSTANT Alignment     \* DEFAULT_ALIGNMENT, 32 in the code

ASSUME AlignmentAssumption == Alignment \in Nat \ {0}

AlignUp(x, a) == ((x + a - 1) \div a) * a
===============================================================================
