------------------------------ MODULE AgentLoop -------------------------------
(***************************************************************************)
(* agent_loop of src/ornith_agent.c with its tools and the confirmation on *)
(* the terminal: model, agent and user take turns over one history.        *)
(***************************************************************************)
EXTENDS Integers, SequencesExt, FiniteSetsExt

CONSTANTS Files,     \* paths that tools name
          NoArg,     \* an argument that is missing, or not a string
          Calls,     \* the tool calls the model may make
          MaxBlocks, \* bound: <tool_call> blocks of a reply
          Lines,     \* what the user may type: a line, as fgets cuts it up
          Modes,     \* "prompt", "auto" (--yolo), "nohook" (confirm = NULL)
          MaxIters   \* max_iters, positive

Tools == {"read_file", "write_file", "list_dir", "run_command", "other"}
Contents == {"absent", "empty", "partial", "new"}

ASSUME CallsAssumption ==
  Calls \subseteq [tool : Tools, path : Files \cup {NoArg}, content : {"empty", "new"}]

\* A piece of a line says whether it begins with y or Y.
ASSUME LinesAssumption == \A l \in Lines : l \in Seq(BOOLEAN) /\ l # <<>>

ASSUME BoundsAssumption == MaxIters \in Nat \ {0} /\ MaxBlocks \in Nat

\* A block whose text is not a JSON object with a name, or that was cut off.
Malformed == [tool |-> "malformed", path |-> NoArg, content |-> "empty"]

Replies == UNION {[1..b -> Calls \cup {Malformed}] : b \in 0..MaxBlocks}

VARIABLES
  pc,       \* "head", "tool", "asking", "execute", "writing", "running", "done"
  mode,
  iter,
  hist,     \* the turns: a reply is its blocks, a user turn its results
  i,        \* the call of the last reply that is being served
  resp,     \* the results of the calls before it
  files,    \* the content of each file
  stdin,    \* what was typed and not read yet, in pieces
  eof,      \* the user closed stdin
  said,     \* the user's answers: the q-th is to the q-th question
  asked,    \* the questions asked so far
  question, \* the call that the last one was about
  rc        \* the loop's result

vars == <<pc, mode, iter, hist, i, resp, files, stdin, eof, said, asked, question, rc>>
terminal == <<stdin, eof, said, asked, question>>

Turn(role, text) == [role |-> role, text |-> text]

Init == /\ pc = "head" /\ mode \in Modes /\ iter = 0
        /\ hist = <<Turn("system", <<>>), Turn("user", <<>>)>>
        /\ i = 1 /\ resp = <<>>
        /\ files = [f \in Files |-> "absent"]
        /\ stdin = <<>> /\ eof = FALSE /\ said = <<>>
        /\ asked = 0 /\ question = <<0, 0>>
        /\ rc = 0

-----------------------------------------------------------------------------
(* The turns.                                                                *)

\* srv_parse_tool_calls_from_text passes over what it cannot parse.
ParseToolCalls(reply) ==
  FoldLeft(LAMBDA calls, b : IF b = Malformed THEN calls ELSE Append(calls, b), <<>>, reply)

GiveUp == /\ pc = "head" /\ iter >= MaxIters
          /\ pc' = "done" /\ rc' = 1
          /\ UNCHANGED <<mode, iter, hist, i, resp, files>> /\ UNCHANGED terminal

\* Mutant: a failed generation is taken for an empty reply.
GenerateFailsEmpty == /\ pc = "head" /\ iter < MaxIters
                      /\ pc' = "done" /\ rc' = 0
                      /\ UNCHANGED <<mode, iter, hist, i, resp, files>>
                      /\ UNCHANGED terminal

GenerateFails == /\ pc = "head" /\ iter < MaxIters
                 /\ pc' = "done" /\ rc' = -1
                 /\ UNCHANGED <<mode, iter, hist, i, resp, files>>
                 /\ UNCHANGED terminal

\* Mutant: the limit lets one more turn through.
GenerateOnceMore(reply) ==
  /\ pc = "head" /\ iter <= MaxIters
  /\ hist' = Append(hist, Turn("assistant", reply))
  /\ IF ParseToolCalls(reply) = <<>> THEN pc' = "done" /\ rc' = 0
                                     ELSE pc' = "tool" /\ UNCHANGED rc
  /\ UNCHANGED <<mode, iter, i, resp, files>> /\ UNCHANGED terminal

\* A reply without a call is the final answer.
Generate(reply) ==
  /\ pc = "head" /\ iter < MaxIters
  /\ hist' = Append(hist, Turn("assistant", reply))
  /\ IF ParseToolCalls(reply) = <<>> THEN pc' = "done" /\ rc' = 0
                                     ELSE pc' = "tool" /\ UNCHANGED rc
  /\ UNCHANGED <<mode, iter, i, resp, files>> /\ UNCHANGED terminal

-----------------------------------------------------------------------------
(* One call.                                                                 *)

Pending == ParseToolCalls(Last(hist).text)
Call == Pending[i]

\* Mutant: a refusal is left out of the answer.
ResultNotDenied(kind) ==
  LET all == IF kind = "denied" THEN resp
             ELSE Append(resp, [call |-> Call, kind |-> kind])
  IN  IF i < Len(Pending)
      THEN /\ i' = i + 1 /\ resp' = all /\ pc' = "tool"
           /\ UNCHANGED <<hist, iter>>
      ELSE /\ hist' = Append(hist, Turn("user", all))
           /\ i' = 1 /\ resp' = <<>> /\ iter' = iter + 1 /\ pc' = "head"

\* A call's result; after the last one they become a user turn.
Result(kind) ==
  LET all == Append(resp, [call |-> Call, kind |-> kind])
  IN  IF i < Len(Pending)
      THEN /\ i' = i + 1 /\ resp' = all /\ pc' = "tool"
           /\ UNCHANGED <<hist, iter>>
      ELSE /\ hist' = Append(hist, Turn("user", all))
           /\ i' = 1 /\ resp' = <<>> /\ iter' = iter + 1 /\ pc' = "head"

NeedsConfirm == Call.tool \in {"write_file", "run_command"}

\* Mutant: one confirmation is enough.
GatedOnce == NeedsConfirm /\ mode # "auto" /\ asked = 0

Gated == NeedsConfirm /\ mode # "auto"

DenyBlind == /\ pc = "tool" /\ Gated /\ mode = "nohook"
             /\ Result("denied")
             /\ UNCHANGED <<mode, files, rc>> /\ UNCHANGED terminal

Ask == /\ pc = "tool" /\ Gated /\ mode = "prompt"
       /\ asked' = asked + 1 /\ question' = <<iter, i>>
       /\ pc' = "asking"
       /\ UNCHANGED <<mode, iter, hist, i, resp, files, stdin, eof, said, rc>>

\* Mutant: the end of stdin is not noticed.
AnswerNoEof ==
  /\ pc = "asking" /\ stdin # <<>>
  /\ stdin' = Tail(stdin)
  /\ IF Head(stdin) THEN pc' = "execute" /\ UNCHANGED <<iter, hist, i, resp>>
                    ELSE Result("denied")
  /\ UNCHANGED <<mode, files, eof, said, asked, question, rc>>

\* Mutant: the end of stdin approves.
AnswerEofYes ==
  /\ pc = "asking" /\ (stdin # <<>> \/ eof)
  /\ stdin' = IF stdin = <<>> THEN <<>> ELSE Tail(stdin)
  /\ IF stdin = <<>> \/ Head(stdin)
     THEN pc' = "execute" /\ UNCHANGED <<iter, hist, i, resp>>
     ELSE Result("denied")
  /\ UNCHANGED <<mode, files, eof, said, asked, question, rc>>

\* fgets takes a line, or the first 63 characters of what is left of one.
Answer ==
  /\ pc = "asking" /\ (stdin # <<>> \/ eof)
  /\ stdin' = IF stdin = <<>> THEN <<>> ELSE Tail(stdin)
  /\ IF stdin # <<>> /\ Head(stdin)
     THEN pc' = "execute" /\ UNCHANGED <<iter, hist, i, resp>>
     ELSE Result("denied")
  /\ UNCHANGED <<mode, files, eof, said, asked, question, rc>>

MayRun == pc = "execute" \/ (pc = "tool" /\ ~Gated)

\* read_file, list_dir or a name the dispatcher does not know.
Look == /\ MayRun /\ ~NeedsConfirm
        /\ \/ Result("error")
           \/ /\ Call.tool # "other"
              /\ Call.tool = "list_dir" \/ (Call.path # NoArg /\ files[Call.path] # "absent")
              /\ Result("ok")
        /\ UNCHANGED <<mode, files, rc>> /\ UNCHANGED terminal

\* No path, or the file cannot be created.
WriteRefused == /\ MayRun /\ Call.tool = "write_file"
                /\ Result("error")
                /\ UNCHANGED <<mode, files, rc>> /\ UNCHANGED terminal

\* fopen empties the file,
WriteOpen == /\ MayRun /\ Call.tool = "write_file" /\ Call.path # NoArg
             /\ files' = [files EXCEPT ![Call.path] = "empty"]
             /\ pc' = "writing"
             /\ UNCHANGED <<mode, iter, hist, i, resp, rc>> /\ UNCHANGED terminal

WriteDone == /\ pc = "writing"
             /\ files' = [files EXCEPT ![Call.path] = Call.content]
             /\ Result("ok")
             /\ UNCHANGED <<mode, rc>> /\ UNCHANGED terminal

\* Mutant: a short write is not looked at.
WriteFailsUnseen == /\ pc = "writing"
                    /\ \E c \in {"empty", "partial", Call.content} :
                          files' = [files EXCEPT ![Call.path] = c]
                    /\ Result("ok")
                    /\ UNCHANGED <<mode, rc>> /\ UNCHANGED terminal

\* fwrite or fclose fails, and leaves what it has written.
WriteFails == /\ pc = "writing"
              /\ \E c \in {"empty", "partial", Call.content} :
                    files' = [files EXCEPT ![Call.path] = c]
              /\ Result("failed")
              /\ UNCHANGED <<mode, rc>> /\ UNCHANGED terminal

\* No command, or popen fails.
RunFails == /\ MayRun /\ Call.tool = "run_command"
            /\ Result("error")
            /\ UNCHANGED <<mode, files, rc>> /\ UNCHANGED terminal

RunStart == /\ MayRun /\ Call.tool = "run_command"
            /\ pc' = "running"
            /\ UNCHANGED <<mode, iter, hist, i, resp, files, rc>> /\ UNCHANGED terminal

\* A command may do anything to the files. RunCommand has its output.
RunEnds == /\ pc = "running"
           /\ files' \in [Files -> Contents]
           /\ Result("ok")
           /\ UNCHANGED <<mode, rc>> /\ UNCHANGED terminal

-----------------------------------------------------------------------------
(* The user answers each question with one line, or closes stdin.            *)

TypeLine(l) == /\ ~eof /\ Len(said) < asked
               /\ stdin' = stdin \o l
               /\ said' = Append(said, Head(l))
               /\ UNCHANGED <<pc, mode, iter, hist, i, resp, files, eof, asked,
                              question, rc>>

CloseStdin == /\ ~eof /\ pc # "done"
              /\ eof' = TRUE
              /\ UNCHANGED <<pc, mode, iter, hist, i, resp, files, stdin, said,
                             asked, question, rc>>

Agent == \/ GiveUp \/ GenerateFails
         \/ \E reply \in Replies : Generate(reply)
         \/ DenyBlind \/ Ask \/ Answer \/ Look
         \/ WriteRefused \/ WriteOpen \/ WriteDone \/ WriteFails
         \/ RunFails \/ RunStart \/ RunEnds

User == \/ \E l \in Lines : TypeLine(l)
        \/ CloseStdin

Next == Agent \/ User

Spec == Init /\ [][Next]_vars

\* The engine and the commands end, and the user answers.
FairSpec == Spec /\ WF_vars(Agent) /\ WF_vars(\E l \in Lines : TypeLine(l))

-----------------------------------------------------------------------------
(* What must hold.                                                           *)

ResultType == [call : Calls, kind : {"ok", "error", "failed", "denied"}]

\* Every variable has its type, and there are never more than MaxIters turns.
TypeOK ==
  /\ pc \in {"head", "tool", "asking", "execute", "writing", "running", "done"}
  /\ mode \in Modes
  /\ iter \in 0..MaxIters
  /\ \A t \in Range(hist) :
        \/ t.role = "system" /\ t.text = <<>>
        \/ t.role = "user" /\ t.text \in Seq(ResultType)
        \/ t.role = "assistant" /\ t.text \in Seq(Calls \cup {Malformed})
  /\ i \in Nat \ {0}
  /\ resp \in Seq(ResultType)
  /\ files \in [Files -> Contents]
  /\ stdin \in Seq(BOOLEAN) /\ said \in Seq(BOOLEAN)
  /\ eof \in BOOLEAN
  /\ asked \in Nat /\ question \in Nat \X Nat
  /\ rc \in {0, 1, -1}

\* No file is touched and no command started, unless --yolo was given or the
\* user's own answer to the question about this very call was yes.
NeverUnasked ==
  [][ files' # files \/ (pc' = "running" /\ pc # "running")
        => \/ mode = "auto"
           \/ /\ mode = "prompt" /\ question = <<iter, i>>
              /\ asked <= Len(said) /\ said[asked] ]_vars

\* What the model is shown: its replies and the answers alternate, and each reply
\* with calls is answered by one result for every call, in order.
Transcript ==
  /\ \A t \in 1..Len(hist) :
        hist[t].role = IF t = 1 THEN "system" ELSE IF t % 2 = 0 THEN "user" ELSE "assistant"
  /\ \A t \in 3..(Len(hist) - 1) :
        hist[t].role = "assistant" =>
          [j \in DOMAIN hist[t + 1].text |-> hist[t + 1].text[j].call]
            = ParseToolCalls(hist[t].text)
  /\ pc \notin {"head", "done"} =>
        [j \in DOMAIN resp |-> resp[j].call] = SubSeq(Pending, 1, i - 1)

\* The results of all calls so far, oldest first.
Log == FoldLeft(LAMBDA log, t : IF t.role = "user" THEN log \o t.text ELSE log, <<>>, hist)
         \o resp

\* The model is told of a refusal exactly when the user refused, by an answer or
\* by closing stdin.
RefusalsTold ==
  mode = "prompt" /\ pc # "asking" =>
    Quantify(DOMAIN Log, LAMBDA j : Log[j].kind = "denied")
      = Quantify(1..asked, LAMBDA q : q > Len(said) \/ ~said[q])

\* The transcript accounts for the files: each is as the last call that the
\* model was told touched it has left it, if that was a write reported to have
\* succeeded; and what no such call touched is as it was.
FilesAccounted ==
  pc \notin {"writing", "running"} =>
    \A f \in Files :
      LET touched == {j \in DOMAIN Log :
                        /\ Log[j].kind \in {"ok", "failed"}
                        /\ \/ Log[j].call.tool = "run_command"
                           \/ Log[j].call.tool = "write_file" /\ Log[j].call.path = f}
          last == Log[Max(touched)]
      IN  IF touched = {} THEN files[f] = "absent"
          ELSE last.call.tool = "write_file" /\ last.kind = "ok"
                 => files[f] = last.call.content

\* The loop's result: 0 after a reply without calls, 1 after MaxIters replies
\* that all had some, -1 when an answered history got no reply.
Outcome ==
  /\ rc = 0 /\ pc = "done" => Last(hist).role = "assistant" /\ Pending = <<>>
  /\ rc = 1 => Last(hist).role = "user" /\ Len(hist) = 2 + 2 * MaxIters
  /\ rc = -1 => Last(hist).role = "user" /\ Len(hist) < 2 + 2 * MaxIters

\* The loop ends, whatever the model replies and the user answers.
LoopEnds == <>(pc = "done")
===============================================================================
