------------------------------ MODULE MCSession -------------------------------
(* Instances of Session for TLC.                                             *)
EXTENDS Session, FiniteSets, SequencesExt

MCModels == {"m1", "m2"}
MCTokens == 0..2
MCPrompts == {<<>>, <<1>>, <<2, 1>>}
MCNPredicts == {-3, 0, 2}

\* Two models of different dimensions, and two that sess_fp cannot tell apart.
DistinctArch == [m \in MCModels |-> m]
SameArch == [m \in MCModels |-> "dims"]

\* A choice that depends on every token read, its position and the model.
MCPick(m, c) ==
  FoldLeft(LAMBDA acc, x : (2 * acc + x[2] + 1) % 5, IF m = "m1" THEN 1 ELSE 3, c) % 3
===============================================================================
