---------------------------- MODULE EngineService ----------------------------
(***************************************************************************)
(* What the HTTP server promises its clients, without sockets, threads or  *)
(* a lock: one engine, lent to one connection at a time, at most once per  *)
(* connection; only the borrower's token count grows; a connection that    *)
(* borrowed the engine answers before it is closed; and the process may    *)
(* halt at any moment.  OrnithServer implements it.                        *)
(***************************************************************************)
EXTENDS Naturals

CONSTANTS Conns,  \* client connections
          NoConn  \* "nobody has the engine"

VARIABLES cap,     \* cap[c]: the most tokens connection c wants
          engine,  \* the connection the engine is lent to, or NoConn
          phase,   \* phase[c]: how far connection c has come
          tokens,  \* tokens[c]: tokens generated for c
          halted   \* the process is gone

svars == <<cap, engine, phase, tokens, halted>>


Init == /\ cap \in [Conns -> Nat]
        /\ engine = NoConn
        /\ phase = [c \in Conns |-> "waiting"]
        /\ tokens = [c \in Conns |-> 0]
        /\ halted = FALSE

Move(c, from, to) == /\ ~halted
                     /\ phase[c] \in from
                     /\ phase' = [phase EXCEPT ![c] = to]
                     /\ UNCHANGED halted

\* A connection gets its worker.
Open(c) == Move(c, {"waiting"}, "open") /\ UNCHANGED <<engine, tokens>>

\* The request is answered without the engine.
Refuse(c) == Move(c, {"open"}, "answering") /\ UNCHANGED <<engine, tokens>>

\* The engine is lent to c, if nobody has it.
Borrow(c) == /\ Move(c, {"open"}, "generating")
             /\ engine = NoConn
             /\ engine' = c
             /\ UNCHANGED tokens

\* One token for the borrower.
Emit(c) == /\ ~halted
           /\ engine = c
           /\ tokens[c] < cap[c]
           /\ tokens' = [tokens EXCEPT ![c] = @ + 1]
           /\ UNCHANGED <<engine, phase, halted>>

\* The engine is given back.
Return(c) == /\ Move(c, {"generating"}, "answering")
             /\ engine = c
             /\ engine' = NoConn
             /\ UNCHANGED tokens

\* Closed: refused by the kernel, unreadable, or answered.
Close(c) == /\ Move(c, {"waiting", "open", "answering"}, "closed")
            /\ UNCHANGED <<engine, tokens>>

\* Closing the listener drops every connection still waiting in its queue.
Drop == /\ ~halted
        /\ \E S \in SUBSET {c \in Conns : phase[c] = "waiting"} :
              phase' = [c \in Conns |-> IF c \in S THEN "closed" ELSE phase[c]]
        /\ UNCHANGED <<engine, tokens, halted>>

Halt == /\ ~halted
        /\ halted' = TRUE
        /\ UNCHANGED <<engine, phase, tokens>>

Next == /\ UNCHANGED cap
        /\ \/ Drop
           \/ Halt
           \/ \E c \in Conns : \/ Open(c) \/ Refuse(c) \/ Borrow(c) \/ Emit(c)
                               \/ Return(c) \/ Close(c)

Spec == Init /\ [][Next]_svars
==============================================================================
