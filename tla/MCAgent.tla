------------------------------- MODULE MCAgent --------------------------------
(***************************************************************************)
(* Instances of AgentLoop for TLC.                                         *)
(***************************************************************************)
EXTENDS AgentLoop

CONSTANT f1

MCFiles == {f1}

\* Two calls that need a confirmation, one that reads the file they change, and
\* one that always succeeds.
MCCalls == {[tool |-> "write_file", path |-> f1, content |-> "new"],
            [tool |-> "run_command", path |-> NoArg, content |-> "empty"],
            [tool |-> "read_file", path |-> f1, content |-> "empty"],
            [tool |-> "list_dir", path |-> NoArg, content |-> "empty"]}

\* Answers that fit the buffer of confirm_stdin.
ShortLines == {<<TRUE>>, <<FALSE>>}

\* A longer one: a refusal whose 64th character is a y.
LongLines == ShortLines \cup {<<FALSE, TRUE>>}
===============================================================================
