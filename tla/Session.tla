------------------------------- MODULE Session --------------------------------
(***************************************************************************)
(* `ornith run --session FILE`: cmd_generate_session of src/ornith.c over  *)
(* the resumable sessions of src/ornith_rforward.c.  Runs follow one       *)
(* another; each may die at any step and a save may fail at any field.     *)
(*                                                                         *)
(* A layer's recurrent state is represented by what it was computed from:  *)
(* the sequence of <<model, token>> pairs that went through it.  Logits    *)
(* are represented by the state they were computed from, so the token the  *)
(* engine chooses next is Pick(model, logits).                             *)
(***************************************************************************)
EXTENDS Integers, Sequences

CONSTANTS Models,     \* model files
          Arch,       \* Arch[m]: the fields of m that sess_fp_fill copies
          Tokens, Eos,
          Pick(_, _), \* greedy choice of a model after a state
          Prompts,    \* token sequences a run may be given
          NPredicts,  \* values of -n
          Slack,      \* capacity beyond prompt and prediction (the code's 8)
          NLayers,    \* layers, each one field of the snapshot
          MaxPos      \* bound: no run starts that could go beyond this position

ASSUME ModelsAssumption == "nobody" \notin Models
ASSUME PromptsAssumption == Prompts \subseteq Seq(Tokens) /\ Eos \in Tokens
ASSUME SizesAssumption == NPredicts \subseteq Int /\ Slack \in Nat /\ NLayers \in Nat

VARIABLES
  pc,      \* where cmd_generate_session is; "idle" between runs
  run,     \* the arguments of the run
  s,       \* struct rsession with its rstate
  made,    \* tokens generated in this run
  written, \* fields of FILE that are on disk; Absent if there is no file
  snap     \* what FILE's fields hold, or are about to

vars == <<pc, run, s, made, written, snap>>

Absent == -1
\* magic, version, fingerprint, counts; the layers; token prefix, logits
Fields == 4 + NLayers + 2

States == Seq(Models \X Tokens)
SessionType == [cap : Int, pos : Nat, attn : States, delta : States,
                hist : Seq(Tokens), logits : States, haveLogits : BOOLEAN]
NoSession == [cap |-> 0, pos |-> 0, attn |-> <<>>, delta |-> <<>>,
              hist |-> <<>>, logits |-> <<>>, haveLogits |-> FALSE]

AtLeast(a, b) == IF a < b THEN b ELSE a
AtMost(a, b) == IF a < b THEN a ELSE b

Init == /\ pc = "idle" /\ made = 0
        /\ run \in [model : Models, prompt : Prompts, n : NPredicts]
        /\ s = NoSession
        /\ written = Absent
        /\ snap = [arch |-> Arch[run.model], hash |-> <<>>, sess |-> NoSession]

\* The process ends, however it ends: what it held in memory is gone.
Exit == /\ pc' = "idle"
        /\ s' = NoSession
        /\ made' = 0

Start(m, p, n) == /\ pc = "idle"
                  /\ Len(snap.sess.hist) + Len(p) + n <= MaxPos
                  /\ run' = [model |-> m, prompt |-> p, n |-> n]
                  /\ pc' = "open"
                  /\ UNCHANGED <<s, made, written, snap>>

-----------------------------------------------------------------------------
(* Opening the session.                                                      *)

Extra == Len(run.prompt) + run.n + Slack

\* rmodel_session_new
OpenNew == /\ pc = "open" /\ written = Absent
           /\ s' = [NoSession EXCEPT !.cap = AtLeast(Extra, 1)]
           /\ pc' = "feed"
           /\ UNCHANGED <<run, made, written, snap>>

\* The capacity of a restored session.
LoadCap == AtLeast(AtLeast(snap.sess.pos + AtLeast(Extra, 0), Len(snap.sess.hist)), 1)

\* The fields are parsed as they come, whatever their number.
LoadableTorn == /\ written \in 4..Fields
                /\ snap.arch = Arch[run.model]
                /\ Len(snap.sess.attn) <= LoadCap
                /\ snap.hash = snap.sess.hist

\* The fingerprint is not compared.
LoadableAnyArch == /\ written = Fields
                   /\ Len(snap.sess.attn) <= LoadCap
                   /\ snap.hash = snap.sess.hist

\* rmodel_session_load: every field is there, the fingerprint is this model's,
\* the KV caches fit, and the token prefix has the hash of the header.
Loadable == /\ written = Fields
            /\ snap.arch = Arch[run.model]
            /\ Len(snap.sess.attn) <= LoadCap
            /\ snap.hash = snap.sess.hist

OpenLoad == /\ pc = "open" /\ written # Absent
            /\ Loadable
            /\ s' = [snap.sess EXCEPT !.cap = LoadCap]
            /\ pc' = "feed"
            /\ UNCHANGED <<run, made, written, snap>>

OpenRejects == /\ pc = "open" /\ written # Absent
               /\ ~Loadable
               /\ Exit
               /\ UNCHANGED <<run, written, snap>>

-----------------------------------------------------------------------------
(* Feeding and generating.                                                   *)

\* Tokens through the stack: the KV caches silently keep what fits, the linear
\* layers take everything, the logits are those of the last position.
Forward(t, ts) ==
  LET in == [i \in 1..Len(ts) |-> <<run.model, ts[i]>>]
  IN [cap |-> t.cap,
      pos |-> t.pos + Len(ts),
      attn |-> t.attn \o SubSeq(in, 1, AtMost(Len(ts), t.cap - Len(t.attn))),
      delta |-> t.delta \o in,
      hist |-> t.hist,
      logits |-> t.delta \o in,
      haveLogits |-> TRUE]

\* The token prefix kept for the penalty and the hash, up to the capacity.
Remember(t, ts) ==
  [t EXCEPT !.hist = @ \o SubSeq(ts, 1, AtMost(Len(ts), t.cap - Len(@)))]

\* rmodel_session_eval without its capacity test.
FeedUnchecked == /\ pc = "feed" /\ run.prompt # <<>>
                 /\ s' = Remember(Forward(s, run.prompt), run.prompt)
                 /\ pc' = "generate"
                 /\ UNCHANGED <<run, made, written, snap>>

\* rmodel_session_eval
Feed == /\ pc = "feed" /\ run.prompt # <<>>
        /\ s.pos + Len(run.prompt) <= s.cap
        /\ s' = Remember(Forward(s, run.prompt), run.prompt)
        /\ pc' = "generate"
        /\ UNCHANGED <<run, made, written, snap>>

\* No prompt: a restored session goes on from its saved logits.
FeedNothing == /\ pc = "feed" /\ run.prompt = <<>> /\ s.haveLogits
               /\ pc' = "generate"
               /\ UNCHANGED <<run, s, made, written, snap>>

\* "session capacity exceeded", or "a new session needs a --prompt".
FeedFails == /\ pc = "feed"
             /\ IF run.prompt # <<>> THEN s.pos + Len(run.prompt) > s.cap
                                     ELSE ~s.haveLogits
             /\ Exit
             /\ UNCHANGED <<run, written, snap>>

\* One turn of rmodel_session_generate's loop.
Choice == Pick(run.model, s.logits)
MayGoOn == made < run.n /\ Choice # Eos /\ s.pos < s.cap

Generate == /\ pc = "generate" /\ MayGoOn
            /\ s' = Forward(Remember(s, <<Choice>>), <<Choice>>)
            /\ made' = made + 1
            /\ UNCHANGED <<pc, run, written, snap>>

GenerateEnds == /\ pc = "generate" /\ ~MayGoOn
                /\ pc' = "save"
                /\ UNCHANGED <<run, s, made, written, snap>>

-----------------------------------------------------------------------------
(* rmodel_session_save: fopen(path, "wb"), the fields in order, fclose.      *)

SaveOpen == /\ pc = "save"
            /\ written' = 0
            /\ snap' = [arch |-> Arch[run.model], hash |-> s.hist, sess |-> s]
            /\ pc' = "write"
            /\ UNCHANGED <<run, s, made>>

SaveField == /\ pc = "write" /\ written < Fields
             /\ written' = written + 1
             /\ UNCHANGED <<pc, run, s, made, snap>>

SaveDone == /\ pc = "write" /\ written = Fields
            /\ Exit
            /\ UNCHANGED <<run, written, snap>>

\* The run dies; or fopen, a write or fclose fails, and it gives up.
Dies == /\ pc # "idle"
        /\ Exit
        /\ UNCHANGED <<run, written, snap>>

\* The user deletes FILE.
Delete == /\ pc = "idle" /\ written # Absent
          /\ written' = Absent
          /\ snap' = [snap EXCEPT !.hash = <<>>, !.sess = NoSession]
          /\ UNCHANGED <<pc, run, s, made>>

Next == \/ \E m \in Models, p \in Prompts, n \in NPredicts : Start(m, p, n)
        \/ OpenNew \/ OpenLoad \/ OpenRejects
        \/ Feed \/ FeedNothing \/ FeedFails \/ Generate \/ GenerateEnds
        \/ SaveOpen \/ SaveField \/ SaveDone \/ Dies \/ Delete

Spec == Init /\ [][Next]_vars

-----------------------------------------------------------------------------
(* What must hold.                                                           *)

\* Every variable has its type.
TypeOK == /\ pc \in {"idle", "open", "feed", "generate", "save", "write"}
          /\ run \in [model : Models, prompt : Prompts, n : NPredicts]
          /\ s \in SessionType
          /\ snap \in [arch : {Arch[m] : m \in Models},
                      hash : Seq(Tokens), sess : SessionType]
          /\ made \in Nat
          /\ written \in {Absent} \cup 0..Fields

\* The parts of a session describe one prefix: every layer has read the same
\* tokens, as many as pos says; the history names them; the logits belong to
\* the last of them; and they fit the capacity, so no KV append was dropped.
Describes(t) == /\ t.attn = t.delta
                /\ t.pos = Len(t.delta)
                /\ Len(t.hist) = t.pos
                /\ \A i \in 1..Len(t.hist) : t.delta[i][2] = t.hist[i]
                /\ t.haveLogits => t.logits = t.delta
                /\ t.pos > 0 => t.haveLogits
                /\ t.pos <= t.cap
Coherent == Describes(s) /\ Describes(snap.sess)

\* A conversation is only ever continued by the model that began it: "so it
\* can't be loaded into a mismatched model".
ModelsMatch == \A i \in 1..Len(s.delta) : s.delta[i][1] = run.model

\* The file as a conversation.
Log == INSTANCE SessionLog WITH
  saved <- IF written = Fields THEN snap.sess.delta ELSE <<>>,
  file  <- IF written = Absent THEN "none"
           ELSE IF written = Fields THEN "intact" ELSE "lost",
  live  <- s.delta,
  by    <- IF pc \in {"idle", "open"} THEN "nobody" ELSE run.model

\* Whatever runs die where, a resumed run generates what one long run would
\* have: the model's choice after everything said so far; a snapshot whose
\* saving was cut short is never taken for a conversation.
ContinuesLog == Log!Spec
===============================================================================
