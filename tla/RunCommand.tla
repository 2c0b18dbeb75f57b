------------------------------ MODULE RunCommand ------------------------------
(***************************************************************************)
(* tool_run_command of src/ornith_agent.c: the agent at one end of a pipe, *)
(* a shell command at the other. Bytes are counted, not represented.       *)
(***************************************************************************)
EXTENDS Integers

CONSTANTS Cap,       \* AGENT_OUTPUT_CAP
          Chunk,     \* sizeof chunk
          PipeSize,  \* the kernel's pipe buffer
          Statuses,  \* ways in which a shell ends, exit codes and signals
          SigPipe,   \* the end of a shell that writes to a closed pipe
          MaxOut     \* bound: bytes that a command writes

ASSUME SizesAssumption ==
  /\ Cap \in Nat /\ MaxOut \in Nat
  /\ Chunk \in Nat \ {0} /\ PipeSize \in Nat \ {0}

ASSUME StatusAssumption ==
  SigPipe \notin Statuses /\ "running" \notin Statuses \cup {SigPipe}

VARIABLES
  open,      \* a process of the command still holds the writing end
  shell,     \* "running", or how the shell ended
  written,   \* bytes the command wrote
  pipe,      \* bytes in the pipe
  at,        \* "read", "drain", "pclose", "wait" or "done"
  got,       \* bytes the current fread has gathered
  kept,      \* length of b; total is the same until it is truncated
  truncated,
  code       \* the status the model is told

commandVars == <<open, shell, written, pipe, at, got, kept, truncated, code>>
reader == <<at, got, kept, truncated, code>>
writer == <<open, shell, written>>

\* The command line has been started; nothing has been read.
CommandInit ==
  /\ open = TRUE /\ shell = "running" /\ written = 0 /\ pipe = 0
  /\ at = "read" /\ got = 0 /\ kept = 0 /\ truncated = FALSE
  /\ code = "running"

-----------------------------------------------------------------------------
(* The command.                                                              *)

\* A write waits for room. Once the agent has closed its end it is answered
\* with SIGPIPE.
Write(j) == /\ open /\ written + j <= MaxOut
            /\ IF at \in {"wait", "done"}
               THEN /\ open' = FALSE
                    /\ shell' = IF shell = "running" THEN SigPipe ELSE shell
                    /\ UNCHANGED <<written, pipe>>
               ELSE /\ pipe + j <= PipeSize
                    /\ written' = written + j /\ pipe' = pipe + j
                    /\ UNCHANGED <<open, shell>>
            /\ UNCHANGED reader

\* The last process that can write ends, or closes its output.
CloseOutput == /\ open
               /\ open' = FALSE
               /\ UNCHANGED <<shell, written, pipe>> /\ UNCHANGED reader

\* The shell ends; a process it left in the background may go on writing.
ShellEnds(s) == /\ shell = "running"
                /\ shell' = s
                /\ UNCHANGED <<open, written, pipe>> /\ UNCHANGED reader

-----------------------------------------------------------------------------
(* The agent.                                                                *)

\* fread takes what is in the pipe, until the chunk is full.
Gather == /\ at \in {"read", "drain"}
          /\ got < Chunk /\ pipe > 0
          /\ LET now == IF pipe < Chunk - got THEN pipe ELSE Chunk - got
             IN  got' = got + now /\ pipe' = pipe - now
          /\ UNCHANGED <<at, kept, truncated, code>> /\ UNCHANGED writer

\* Mutant: only a full chunk ends an fread.
FreadEndsFull == got = Chunk

\* fread returns a full chunk, or what there is at the end of the output.
FreadEnds == got = Chunk \/ (pipe = 0 /\ ~open)

\* A chunk is kept while it fits;
Keep == /\ at = "read" /\ FreadEnds /\ got > 0
        /\ kept + got <= Cap
        /\ kept' = kept + got /\ got' = 0
        /\ UNCHANGED <<at, truncated, code, pipe>> /\ UNCHANGED writer

\* Mutant: nothing of the chunk is appended.
TruncateNone == /\ at = "read" /\ FreadEnds /\ kept + got > Cap
                /\ truncated' = TRUE
                /\ got' = 0 /\ at' = "drain"
                /\ UNCHANGED <<kept, code, pipe>> /\ UNCHANGED writer

\* Mutant: the rest is not drained.
TruncateNoDrain == /\ at = "read" /\ FreadEnds /\ kept + got > Cap
                   /\ kept' = Cap /\ truncated' = TRUE
                   /\ got' = 0 /\ at' = "pclose"
                   /\ UNCHANGED <<code, pipe>> /\ UNCHANGED writer

\* the first that does not fit fills b up to the cap, and reading is over.
Truncate == /\ at = "read" /\ FreadEnds /\ kept + got > Cap
            /\ kept' = Cap /\ truncated' = TRUE
            /\ got' = 0 /\ at' = "drain"
            /\ UNCHANGED <<code, pipe>> /\ UNCHANGED writer

\* The rest is read and thrown away.
Drain == /\ at = "drain" /\ FreadEnds /\ got > 0
         /\ got' = 0
         /\ UNCHANGED <<at, kept, truncated, code, pipe>> /\ UNCHANGED writer

EndOfOutput == /\ at \in {"read", "drain"} /\ FreadEnds /\ got = 0
               /\ at' = "pclose"
               /\ UNCHANGED <<got, kept, truncated, code, pipe>> /\ UNCHANGED writer

\* pclose closes the reading end,
Pclose == /\ at = "pclose"
          /\ at' = "wait"
          /\ UNCHANGED <<got, kept, truncated, code, pipe>> /\ UNCHANGED writer

\* and waits for the shell.
Wait == /\ at = "wait" /\ shell # "running"
        /\ at' = "done" /\ code' = shell
        /\ UNCHANGED <<got, kept, truncated, pipe>> /\ UNCHANGED writer

Reader ==
  \/ Gather \/ Keep \/ Truncate \/ Drain
  \/ EndOfOutput \/ Pclose \/ Wait

CommandNext ==
  \/ \E j \in 1..PipeSize : Write(j)
  \/ CloseOutput
  \/ \E s \in Statuses : ShellEnds(s)
  \/ Reader

CommandSpec == CommandInit /\ [][CommandNext]_commandVars

\* The command's processes end, and the agent runs.
FairCommand ==
  /\ CommandSpec
  /\ WF_commandVars(Reader) /\ WF_commandVars(CloseOutput)
  /\ WF_commandVars(\E s \in Statuses : ShellEnds(s))

-----------------------------------------------------------------------------
(* What must hold.                                                           *)

\* Every variable has its type: b never exceeds the cap.
CommandTypes ==
  /\ open \in BOOLEAN
  /\ shell \in Statuses \cup {"running", SigPipe}
  /\ written \in 0..MaxOut
  /\ pipe \in 0..PipeSize
  /\ at \in {"read", "drain", "pclose", "wait", "done"}
  /\ got \in 0..Chunk
  /\ kept \in 0..Cap
  /\ truncated \in BOOLEAN
  /\ code \in Statuses \cup {"running", SigPipe}

\* The model is shown the whole output when it fits the cap, else exactly the
\* cap's worth, and is told that it was truncated in that case only.
OutputCapped ==
  at = "done" => IF written <= Cap THEN kept = written /\ ~truncated
                                   ELSE kept = Cap /\ truncated

\* "drain the rest so pclose gets the real exit status": the status reported is
\* the shell's own, never a death the agent caused by closing the pipe on it.
ExitReported == shell # SigPipe /\ (at = "done" => code = shell)

\* The tool returns once the command's processes have ended: neither side waits
\* for the other for ever, however small the pipe.
CommandEnds == <>(at = "done")
===============================================================================
