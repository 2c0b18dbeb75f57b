------------------------------ MODULE SessionLog ------------------------------
(***************************************************************************)
(* What `run --session FILE` promises: one conversation, kept in a file,   *)
(* that each run continues.  A run takes over the conversation as saved,   *)
(* adds its prompt and then the model's choice after the conversation so   *)
(* far, token by token, and saves the longer conversation; a run that dies *)
(* while saving loses it, but never leaves a different one behind.         *)
(***************************************************************************)
EXTENDS Naturals, Sequences

CONSTANTS Models,    \* model files
          Prompts,   \* what a run may be asked to add
          Pick(_, _), \* Pick(m, c): the token model m chooses after conversation c
          Eos        \* the token that ends a turn

VARIABLES saved,  \* the conversation in the file, if it is intact
          file,   \* "none", "intact" or "lost"
          live,   \* the running process's conversation
          by      \* the model of the running process, or "nobody"

lvars == <<saved, file, live, by>>

Init == /\ saved = <<>> /\ file = "none"
        /\ live = <<>> /\ by = "nobody"

\* A run starts from the saved conversation, or from nothing.
Begin(m) == /\ by = "nobody" /\ by' = m
            /\ \/ file = "none" /\ live' = <<>>
               \/ file = "intact" /\ live' = saved
            /\ UNCHANGED <<saved, file>>

\* Each token stands with the model that read it.
Read(m, p) == [i \in 1..Len(p) |-> <<m, p[i]>>]

Feed(p) == /\ by \in Models
           /\ live' = live \o Read(by, p)
           /\ UNCHANGED <<saved, file, by>>

Emit == /\ by \in Models
        /\ Pick(by, live) # Eos
        /\ live' = Append(live, <<by, Pick(by, live)>>)
        /\ UNCHANGED <<saved, file, by>>

\* Saving starts by giving up what was saved.
Tear == /\ by \in Models
        /\ file' = "lost" /\ saved' = <<>>
        /\ UNCHANGED <<live, by>>

Commit == /\ by \in Models /\ file = "lost"
          /\ file' = "intact" /\ saved' = live
          /\ UNCHANGED <<live, by>>

Quit == /\ by \in Models
        /\ by' = "nobody" /\ live' = <<>>
        /\ UNCHANGED <<saved, file>>

\* The user removes the file.
Delete == /\ by = "nobody"
          /\ file' = "none" /\ saved' = <<>>
          /\ UNCHANGED <<live, by>>

Next == \/ Emit \/ Tear \/ Commit \/ Quit \/ Delete
        \/ \E m \in Models : Begin(m)
        \/ \E p \in Prompts : Feed(p)

Spec == Init /\ [][Next]_lvars
===============================================================================
