--------------------------- MODULE AgentLoopProofs ----------------------------
(***************************************************************************)
(* Theorems about AgentLoop for every model, user and limit: who agreed to *)
(* what was done, and what the loop's result says; and about RunCommand,   *)
(* the command that a call runs.                                           *)
(***************************************************************************)
EXTENDS AgentLoop, RunCommand, FiniteSetTheorems, SequenceTheorems, TLAPS

\* Every line the user types fits the buffer of confirm_stdin.
LinesFit == \A l \in Lines : l = <<Head(l)>> /\ Head(l) \in BOOLEAN

\* The inductive invariant. Between questions nothing typed is left unread; a
\* question finds the answer typed to it, none yet, or the end of stdin; and
\* what runs under "prompt" was approved.
ConsentInv ==
  /\ said \in Seq(BOOLEAN) /\ stdin \in Seq(BOOLEAN) /\ asked \in Nat
  /\ eof \in BOOLEAN
  /\ IF pc = "asking"
     THEN \/ stdin = <<>> /\ Len(said) < asked /\ (eof \/ Len(said) = asked - 1)
          \/ Len(said) = asked /\ asked > 0 /\ stdin = <<said[asked]>>
     ELSE stdin = <<>> /\ Len(said) <= asked /\ (eof \/ Len(said) = asked)
  /\ pc = "asking" => mode = "prompt" /\ question = <<iter, i>>
  /\ pc \in {"execute", "writing", "running"} =>
       \/ mode = "auto"
       \/ /\ mode = "prompt" /\ question = <<iter, i>>
          /\ asked > 0 /\ asked <= Len(said) /\ said[asked]

\* A step of the property, and the property of a step.
Unasked == (files' # files \/ (pc' = "running" /\ pc # "running")) /\ mode # "auto"

Asked == /\ mode = "prompt" /\ question = <<iter, i>>
         /\ asked <= Len(said) /\ said[asked]

\* The invariant of consent holds at first.
LEMMA ConsentInit == Init => ConsentInv
<1> SUFFICES ASSUME Init PROVE ConsentInv
  OBVIOUS
<1>1. said = <<>> /\ stdin = <<>> /\ asked = 0 /\ pc = "head" /\ eof = FALSE
  BY DEF Init
<1>2. /\ said \in Seq(BOOLEAN) /\ stdin \in Seq(BOOLEAN)
      /\ asked \in Nat /\ eof \in BOOLEAN
  <2>1. <<>> \in Seq(BOOLEAN)
    OBVIOUS
  <2> QED BY <1>1, <2>1
<1>3. Len(said) = asked
  <2>1. Len(<<>>) = 0
    OBVIOUS
  <2> QED BY <1>1, <2>1
<1>4. Len(said) <= asked
  BY <1>2, <1>3
<1>5. pc # "asking" /\ pc \notin {"execute", "writing", "running"}
  BY <1>1
<1> QED BY <1>1, <1>2, <1>3, <1>4, <1>5 DEF ConsentInv

\* After a result the loop is at another call or at its head.
LEMMA ResultGoesOn ==
  ASSUME NEW kind, Result(kind)
  PROVE  pc' \in {"tool", "head"}
BY DEF Result

\* Every step keeps the invariant of consent.
LEMMA ConsentNext ==
  ASSUME LinesFit, ConsentInv, [Next]_vars
  PROVE  ConsentInv'
<1>1. CASE GiveUp
  BY <1>1 DEF GiveUp, terminal, ConsentInv
<1>2. CASE GenerateFails
  BY <1>2 DEF GenerateFails, terminal, ConsentInv
<1>3. ASSUME NEW reply \in Replies, Generate(reply) PROVE ConsentInv'
  <2>1. pc' \in {"done", "tool"} /\ pc = "head" /\ UNCHANGED terminal
    BY <1>3 DEF Generate
  <2> QED BY <2>1 DEF terminal, ConsentInv
<1>4. CASE DenyBlind
  <2>1. pc' \in {"tool", "head"} /\ pc = "tool" /\ UNCHANGED terminal
    BY <1>4, ResultGoesOn DEF DenyBlind
  <2> QED BY <2>1 DEF terminal, ConsentInv
<1>5. CASE Ask
  <2>1. /\ pc = "tool" /\ pc' = "asking" /\ asked' = asked + 1
        /\ mode = "prompt" /\ question' = <<iter, i>>
        /\ UNCHANGED <<mode, iter, i, stdin, eof, said>>
    BY <1>5 DEF Ask
  <2>2. Len(said) \in Nat
    BY DEF ConsentInv
  <2> QED BY <2>1, <2>2 DEF ConsentInv
<1>6. CASE Answer
  <2>1. /\ pc = "asking" /\ UNCHANGED <<mode, eof, said, asked, question>>
        /\ stdin' = IF stdin = <<>> THEN <<>> ELSE Tail(stdin)
    BY <1>6 DEF Answer
  <2>2. stdin' = <<>> /\ Len(said) <= asked /\ (eof \/ Len(said) = asked)
    <3>1. CASE stdin = <<>>
      <4>1. eof
        BY <1>6, <3>1 DEF Answer
      <4>2. <<said[asked]>> # <<>>
        OBVIOUS
      <4>3. Len(said) \in Nat
        BY DEF ConsentInv
      <4> QED BY <2>1, <3>1, <4>1, <4>2, <4>3 DEF ConsentInv
    <3>2. CASE stdin # <<>>
      <4>1. Len(said) = asked /\ stdin = <<said[asked]>>
        BY <2>1, <3>2 DEF ConsentInv
      <4>2. Tail(stdin) = <<>>
        BY <4>1
      <4> QED BY <2>1, <3>2, <4>1, <4>2 DEF ConsentInv
    <3> QED BY <3>1, <3>2
  <2>5. /\ said' \in Seq(BOOLEAN) /\ stdin' \in Seq(BOOLEAN) /\ asked' \in Nat
        /\ eof' \in BOOLEAN
    <3>1. <<>> \in Seq(BOOLEAN)
      OBVIOUS
    <3> QED BY <2>1, <2>2, <3>1 DEF ConsentInv
  <2>3. CASE stdin # <<>> /\ Head(stdin)
    <3>1. pc' = "execute" /\ UNCHANGED <<iter, i>>
      BY <1>6, <2>3 DEF Answer
    <3>2. Len(said) = asked /\ asked > 0 /\ stdin = <<said[asked]>>
      BY <2>1, <2>3 DEF ConsentInv
    <3>3. Head(stdin) = said[asked]
      BY <3>2
    <3>4. said[asked]
      BY <2>3, <3>3
    <3>5. /\ said' = said /\ asked' = asked /\ mode' = "prompt"
          /\ question' = <<iter', i'>>
      BY <2>1, <3>1 DEF ConsentInv
    <3>6. said'[asked'] /\ asked' > 0 /\ asked' <= Len(said')
      <4>1. said'[asked'] = said[asked]
        BY <3>5
      <4> QED BY <3>2, <3>4, <3>5, <4>1 DEF ConsentInv
    <3> QED BY <2>1, <2>2, <2>5, <3>1, <3>5, <3>6 DEF ConsentInv
  <2>4. CASE ~(stdin # <<>> /\ Head(stdin))
    <3>1. pc' \in {"tool", "head"}
      BY <1>6, <2>4, ResultGoesOn DEF Answer
    <3> QED BY <2>1, <2>2, <2>5, <3>1 DEF ConsentInv
  <2> QED BY <2>3, <2>4
<1>7. CASE Look
  <2>1. pc' \in {"tool", "head"} /\ pc \in {"tool", "execute"} /\ UNCHANGED terminal
    BY <1>7, ResultGoesOn DEF Look, MayRun
  <2> QED BY <2>1 DEF terminal, ConsentInv
<1>8. CASE WriteRefused \/ RunFails
  <2>1. pc' \in {"tool", "head"} /\ pc \in {"tool", "execute"} /\ UNCHANGED terminal
    BY <1>8, ResultGoesOn DEF WriteRefused, RunFails, MayRun
  <2> QED BY <2>1 DEF terminal, ConsentInv
<1>9. CASE WriteOpen \/ RunStart
  <2>1. /\ pc' \in {"writing", "running"}
        /\ pc = "execute" \/ (pc = "tool" /\ mode = "auto")
        /\ UNCHANGED <<mode, iter, i>> /\ UNCHANGED terminal
    BY <1>9 DEF WriteOpen, RunStart, MayRun, Gated, NeedsConfirm
  <2> QED BY <2>1 DEF terminal, ConsentInv
<1>10. CASE WriteDone \/ WriteFails \/ RunEnds
  <2>1. pc' \in {"tool", "head"} /\ pc \in {"writing", "running"} /\ UNCHANGED terminal
    BY <1>10, ResultGoesOn DEF WriteDone, WriteFails, RunEnds
  <2> QED BY <2>1 DEF terminal, ConsentInv
<1>11. ASSUME NEW l \in Lines, TypeLine(l) PROVE ConsentInv'
  <2>1. /\ ~eof /\ Len(said) < asked /\ stdin' = stdin \o l
        /\ said' = Append(said, Head(l))
        /\ UNCHANGED <<pc, mode, iter, i, eof, asked, question>>
    BY <1>11 DEF TypeLine
  <2>2. l = <<Head(l)>> /\ Head(l) \in BOOLEAN
    BY DEF LinesFit
  <2>3. pc = "asking" /\ stdin = <<>> /\ Len(said) = asked - 1
    BY <2>1 DEF ConsentInv
  <2>4. stdin' = <<Head(l)>>
    BY <2>1, <2>2, <2>3
  <2>5. /\ said' \in Seq(BOOLEAN) /\ Len(said') = asked /\ asked > 0
        /\ said'[asked] = Head(l)
    BY <2>1, <2>2, <2>3 DEF ConsentInv
  <2>6. stdin' \in Seq(BOOLEAN)
    BY <2>2, <2>4
  <2> QED BY <2>1, <2>3, <2>4, <2>5, <2>6 DEF ConsentInv
<1>12. CASE CloseStdin
  BY <1>12 DEF CloseStdin, ConsentInv
<1>13. CASE UNCHANGED vars
  BY <1>13 DEF vars, ConsentInv
<1> QED
  BY <1>1, <1>2, <1>3, <1>4, <1>5, <1>6, <1>7, <1>8, <1>9, <1>10, <1>11, <1>12, <1>13
  DEF Next, Agent, User

\* Only a write or a command touches files, and both come after the gate.
LEMMA ConsentStep ==
  ASSUME ConsentInv, [Next]_vars, Unasked
  PROVE  Asked
<1>1. CASE WriteOpen \/ RunStart
  <2>1. pc = "execute" \/ (pc = "tool" /\ mode = "auto")
    BY <1>1 DEF WriteOpen, RunStart, MayRun, Gated, NeedsConfirm
  <2> QED BY <2>1 DEF ConsentInv, Unasked, Asked
<1>2. CASE WriteDone \/ WriteFails \/ RunEnds
  <2>1. pc \in {"writing", "running"}
    BY <1>2 DEF WriteDone, WriteFails, RunEnds
  <2> QED BY <2>1 DEF ConsentInv, Unasked, Asked
<1>3. CASE WriteRefused \/ RunFails \/ DenyBlind \/ Look
  <2>1. files' = files /\ pc' \in {"tool", "head"}
    BY <1>3, ResultGoesOn DEF WriteRefused, RunFails, DenyBlind, Look
  <2> QED BY <2>1 DEF Unasked
<1>4. CASE Answer
  <2>1. files' = files /\ pc' \in {"tool", "head", "execute"}
    BY <1>4, ResultGoesOn DEF Answer
  <2> QED BY <2>1 DEF Unasked
<1>5. CASE GiveUp \/ GenerateFails \/ Ask \/ CloseStdin
  BY <1>5 DEF GiveUp, GenerateFails, Ask, CloseStdin, Unasked
<1>6. ASSUME NEW reply \in Replies, Generate(reply) PROVE FALSE
  BY <1>6 DEF Generate, Unasked
<1>7. ASSUME NEW l \in Lines, TypeLine(l) PROVE FALSE
  BY <1>7 DEF TypeLine, Unasked
<1>8. CASE UNCHANGED vars
  BY <1>8 DEF vars, Unasked
<1> QED
  BY <1>1, <1>2, <1>3, <1>4, <1>5, <1>6, <1>7, <1>8 DEF Next, Agent, User

\* When answers fit the buffer, nothing is written and no command started without
\* --yolo or a yes to that very call, whatever the model asks for and however
\* late or early the user closes stdin.
THEOREM OnlyWithConsent == LinesFit => (Spec => NeverUnasked)
<1> SUFFICES ASSUME LinesFit PROVE Spec => NeverUnasked
  OBVIOUS
<1>1. ConsentInv /\ [Next]_vars => ConsentInv'
  BY ConsentNext
<1>2. Spec => []ConsentInv
  BY <1>1, ConsentInit, PTL DEF Spec
<1>3. ConsentInv /\ [Next]_vars =>
        [ files' # files \/ (pc' = "running" /\ pc # "running")
          => \/ mode = "auto"
             \/ /\ mode = "prompt" /\ question = <<iter, i>>
                /\ asked <= Len(said) /\ said[asked] ]_vars
  BY ConsentStep DEF Unasked, Asked
<1> QED BY <1>2, <1>3, PTL DEF Spec, NeverUnasked

-----------------------------------------------------------------------------
(* The loop's result.                                                        *)

\* The inductive invariant: the history has two turns for each finished turn of
\* the loop, after the two it starts from; a result is set at the end only.
OutcomeInv ==
  /\ \E S : hist \in Seq(S)
  /\ iter \in 0..MaxIters
  /\ pc = "head" => Len(hist) = 2 + 2 * iter /\ Last(hist).role = "user"
  /\ pc \notin {"head", "done"} => Len(hist) = 3 + 2 * iter /\ iter < MaxIters
  /\ pc # "done" => rc = 0
  /\ Outcome

\* What a turn added to a history makes of it.
LEMMA Appended ==
  ASSUME NEW h, \E S : h \in Seq(S), NEW t
  PROVE  /\ \E S : Append(h, t) \in Seq(S)
         /\ Len(h) \in Nat /\ Len(Append(h, t)) = Len(h) + 1
         /\ Last(Append(h, t)) = t
<1>1. PICK S : h \in Seq(S)
  OBVIOUS
<1>2. h \in Seq(S \cup {t})
  BY <1>1
<1>3. /\ Append(h, t) \in Seq(S \cup {t}) /\ Len(h) \in Nat
      /\ Len(Append(h, t)) = Len(h) + 1 /\ Append(h, t)[Len(h) + 1] = t
  BY <1>2
<1> QED BY <1>3 DEF Last

\* The invariant of outcomes holds at first.
LEMMA OutcomeInit == Init => OutcomeInv
<1> SUFFICES ASSUME Init PROVE OutcomeInv
  OBVIOUS
<1> DEFINE h == <<Turn("system", <<>>), Turn("user", <<>>)>>
<1>1. h \in Seq({Turn("system", <<>>), Turn("user", <<>>)}) /\ Len(h) = 2 /\ Last(h).role = "user"
  BY DEF Last, Turn
<1>2. hist = h /\ iter = 0 /\ pc = "head" /\ rc = 0
  BY DEF Init
<1> HIDE DEF h
<1> QED BY <1>1, <1>2, BoundsAssumption DEF OutcomeInv, Outcome

\* A result keeps the invariant, whatever call it is of.
LEMMA OutcomeResult ==
  ASSUME OutcomeInv, NEW kind, Result(kind), pc \notin {"head", "done"}, rc' = rc
  PROVE  OutcomeInv'
<1>1. rc = 0 /\ Len(hist) = 3 + 2 * iter /\ iter < MaxIters /\ iter \in Nat
  BY BoundsAssumption DEF OutcomeInv
<1>2. CASE pc' = "tool" /\ UNCHANGED <<hist, iter>>
  BY <1>1, <1>2 DEF OutcomeInv, Outcome
<1>3. CASE \E t : /\ hist' = Append(hist, t) /\ t.role = "user"
                  /\ iter' = iter + 1 /\ pc' = "head"
  <2>1. PICK t : /\ hist' = Append(hist, t) /\ t.role = "user"
                 /\ iter' = iter + 1 /\ pc' = "head"
    BY <1>3
  <2>2. /\ \E S : hist' \in Seq(S)
        /\ Len(hist') = Len(hist) + 1 /\ Last(hist').role = "user"
    BY <2>1, Appended DEF OutcomeInv
  <2> QED BY <1>1, <2>1, <2>2, BoundsAssumption DEF OutcomeInv, Outcome
<1> QED BY <1>2, <1>3 DEF Result, Turn

\* Every step keeps the invariant of outcomes.
LEMMA OutcomeNext ==
  ASSUME OutcomeInv, [Next]_vars
  PROVE  OutcomeInv'
<1> USE BoundsAssumption
<1>1. CASE GiveUp \/ GenerateFails
  BY <1>1 DEF GiveUp, GenerateFails, OutcomeInv, Outcome
<1>2. ASSUME NEW reply \in Replies, Generate(reply) PROVE OutcomeInv'
  <2>1. /\ pc = "head" /\ iter < MaxIters /\ iter' = iter
        /\ hist' = Append(hist, Turn("assistant", reply))
        /\ \/ pc' = "done" /\ rc' = 0 /\ ParseToolCalls(reply) = <<>>
           \/ pc' = "tool" /\ rc' = rc
    BY <1>2 DEF Generate
  <2>2. /\ \E S : hist' \in Seq(S)
        /\ Len(hist) \in Nat /\ Len(hist') = Len(hist) + 1
        /\ Last(hist') = Turn("assistant", reply)
    BY <2>1, Appended DEF OutcomeInv
  <2>3. Last(hist').role = "assistant" /\ Last(hist').text = reply
    BY <2>2 DEF Turn
  <2>4. pc' = "done" => Pending' = <<>>
    BY <2>1, <2>3 DEF Pending
  <2> QED BY <2>1, <2>2, <2>3, <2>4 DEF OutcomeInv, Outcome
<1>3. CASE DenyBlind \/ Look \/ WriteRefused \/ WriteDone \/ WriteFails \/ RunFails \/ RunEnds
  <2>1. /\ pc \notin {"head", "done"} /\ rc' = rc
        /\ \E kind : Result(kind)
    BY <1>3 DEF DenyBlind, Look, WriteRefused, WriteDone, WriteFails, RunFails, RunEnds, MayRun
  <2> QED BY <2>1, OutcomeResult
<1>4. CASE Ask \/ WriteOpen \/ RunStart
  BY <1>4 DEF Ask, WriteOpen, RunStart, MayRun, OutcomeInv, Outcome
<1>5. CASE Answer
  <2>1. CASE pc' = "execute" /\ UNCHANGED <<iter, hist, rc>> /\ pc = "asking"
    BY <2>1 DEF OutcomeInv, Outcome
  <2>2. CASE Result("denied") /\ rc' = rc /\ pc = "asking"
    BY <2>2, OutcomeResult
  <2> QED BY <1>5, <2>1, <2>2 DEF Answer
<1>6. CASE UNCHANGED <<pc, iter, hist, rc>>
  BY <1>6 DEF OutcomeInv, Outcome, Pending
<1>7. CASE User \/ UNCHANGED vars
  BY <1>6, <1>7 DEF User, TypeLine, CloseStdin, vars
<1> QED BY <1>1, <1>2, <1>3, <1>4, <1>5, <1>7 DEF Next, Agent

\* The result tells how the conversation ended: 0 only after a reply that asks for
\* nothing, 1 only when every one of MaxIters replies was answered, -1 only with a
\* question still open.
THEOREM ResultTellsOutcome == Spec => []Outcome
<1>1. OutcomeInv => Outcome
  BY DEF OutcomeInv
<1>2. OutcomeInv /\ [Next]_vars => OutcomeInv'
  BY OutcomeNext
<1> QED BY <1>1, <1>2, OutcomeInit, PTL DEF Spec

-----------------------------------------------------------------------------
(* The two folds of the model: over the blocks of a reply, and over the      *)
(* turns of a history.                                                       *)

Take(p, calls, b) == IF b = Malformed THEN calls ELSE Append(calls, b)
Tell(p, log, t) == IF t.role = "user" THEN log \o t.text ELSE log

Taking == INSTANCE FoldFacts WITH Op <- Take
Telling == INSTANCE FoldFacts WITH Op <- Tell

\* What a history tells of results.
Told(h) == Telling!Fold(0, <<>>, h)

\* Every reply parses to a list of calls.
LEMMA ParsedCalls ==
  ASSUME NEW r \in Seq(Calls \cup {Malformed})
  PROVE  ParseToolCalls(r) \in Seq(Calls)
<1>1. ParseToolCalls(r) = Taking!Fold(0, <<>>, r)
  BY DEF ParseToolCalls, FoldLeft, MapThenFoldSet, Taking!Fold, Taking!FoldLeft,
         Taking!MapThenFoldSet, Take, Max, Taking!Max
<1>2. <<>> \in Seq(Calls)
  OBVIOUS
<1>3. \A x \in Seq(Calls), k \in 1..Len(r) : Take(0, x, r[k]) \in Seq(Calls)
  BY DEF Take
<1>4. Taking!Fold(0, <<>>, r) \in Seq(Calls)
  BY <1>2, <1>3, Taking!FoldKeeps
<1> QED BY <1>1, <1>4

\* Log is a fold of FoldFacts over the messages.
LEMMA LogIs ==
  /\ Log = Told(hist) \o resp
  /\ Log' = Told(hist') \o resp'
<1> USE DEF Told, FoldLeft, MapThenFoldSet, Telling!Fold, Telling!FoldLeft,
            Telling!MapThenFoldSet, Tell, Max, Telling!Max
<1>1. Log = Told(hist) \o resp
  BY DEF Log
<1>2. Log' = Told(hist') \o resp'
  BY DEF Log
<1> QED BY <1>1, <1>2

\* A message appended to the answer is appended to the whole.
LEMMA ConcatAppend ==
  ASSUME NEW S, NEW s \in Seq(S), NEW t \in Seq(S), NEW e \in S
  PROVE  s \o Append(t, e) = Append(s \o t, e)
<1> DEFINE a == s \o Append(t, e)
           b == Append(s \o t, e)
<1>1. a \in Seq(S) /\ b \in Seq(S) /\ Len(a) = Len(b)
  OBVIOUS
<1>2. ASSUME NEW k \in 1..Len(a) PROVE a[k] = b[k]
  OBVIOUS
<1> HIDE DEF a, b
<1> QED BY <1>1, <1>2, SeqEqual

\* What one more message adds to the log.
LEMMA ToldAppend ==
  ASSUME NEW h, \E S : h \in Seq(S), NEW t
  PROVE  Told(Append(h, t)) = IF t.role = "user" THEN Told(h) \o t.text ELSE Told(h)
<1>1. PICK S : h \in Seq(S)
  OBVIOUS
<1>2. Telling!Fold(0, <<>>, Append(h, t)) = Tell(0, Telling!Fold(0, <<>>, h), t)
  BY <1>1, Telling!FoldAppend
<1> QED BY <1>2 DEF Told, Tell

\* A history tells results, if its user turns are results.
LEMMA ToldResults ==
  ASSUME NEW h, \E S : h \in Seq(S), 
         \A k \in 1..Len(h) : h[k].role = "user" => h[k].text \in Seq(ResultType)
  PROVE  Told(h) \in Seq(ResultType)
<1>1. PICK S : h \in Seq(S)
  OBVIOUS
<1>2. <<>> \in Seq(ResultType)
  OBVIOUS
<1>3. \A x \in Seq(ResultType), k \in 1..Len(h) : Tell(0, x, h[k]) \in Seq(ResultType)
  <2> SUFFICES ASSUME NEW x \in Seq(ResultType), NEW k \in 1..Len(h)
               PROVE  Tell(0, x, h[k]) \in Seq(ResultType)
    OBVIOUS
  <2>1. CASE h[k].role = "user"
    <3>1. h[k].text \in Seq(ResultType)
      BY <2>1
    <3>2. x \o h[k].text \in Seq(ResultType)
      BY <3>1
    <3> QED BY <2>1, <3>2 DEF Tell
  <2>2. CASE h[k].role # "user"
    BY <2>2 DEF Tell
  <2> QED BY <2>1, <2>2
<1>4. Telling!Fold(0, <<>>, h) \in Seq(ResultType)
  BY <1>1, <1>2, <1>3, Telling!FoldKeeps
<1> QED BY <1>4 DEF Told

-----------------------------------------------------------------------------
(* The history, and what it tells the model.                                 *)

\* The turn that belongs at place k of a history, and the answers that belong to
\* calls.
TurnFits(t, k) ==
  /\ t.role = IF k = 1 THEN "system" ELSE IF k % 2 = 0 THEN "user" ELSE "assistant"
  /\ t.text \in IF k = 1 THEN {<<>>}
                ELSE IF k % 2 = 0 THEN Seq(ResultType) ELSE Seq(Calls \cup {Malformed})

Answered(results, calls, n) ==
  Len(results) = n /\ \A j \in 1..n : results[j].call = calls[j]

\* The inductive invariant behind Transcript. While a reply is served, the results
\* answer the calls before the i-th; otherwise there are none.
HistoryInv ==
  /\ pc \in {"head", "tool", "asking", "execute", "writing", "running", "done"}
  /\ \A k \in 1..Len(hist) : TurnFits(hist[k], k)
  /\ \A k \in 3..(Len(hist) - 1) :
       k % 2 = 1 => LET calls == ParseToolCalls(hist[k].text)
                    IN  Answered(hist[k + 1].text, calls, Len(calls))
  /\ resp \in Seq(ResultType)
  /\ IF pc \in {"head", "done"} THEN i = 1 /\ resp = <<>>
     ELSE i \in 1..Len(Pending) /\ Answered(resp, Pending, i - 1)

\* Refusals in the log, and refusals among the first n answers.
Denials(log) == {j \in DOMAIN log : log[j].kind = "denied"}
Refusals(n) == {q \in 1..n : q > Len(said) \/ ~said[q]}

\* RefusalsTold, and while a question is open that all before it are accounted for.
RefusalsInv ==
  mode = "prompt" =>
    Cardinality(Denials(Log)) = Cardinality(Refusals(IF pc = "asking" THEN asked - 1 ELSE asked))

\* The entries of a log that touch f, and what the log says of f's content v.
Touches(r, f) == /\ r.kind \in {"ok", "failed"}
                 /\ \/ r.call.tool = "run_command"
                    \/ r.call.tool = "write_file" /\ r.call.path = f
Touching(log, f) == {j \in DOMAIN log : Touches(log[j], f)}
Says(r, v) == r.call.tool = "write_file" /\ r.kind = "ok" => v = r.call.content
Accounts(log, f, v) == IF Touching(log, f) = {} THEN v = "absent"
                       ELSE Says(log[Max(Touching(log, f))], v)

\* FilesAccounted, and while a file is being written all the others are.
FilesInv ==
  /\ pc = "running" => Call.tool = "run_command"
  /\ pc = "writing" => Call.tool = "write_file" /\ Call.path \in Files
  /\ \A f \in Files : (pc = "writing" /\ Call.path = f) \/ Accounts(Log, f, files[f])

-----------------------------------------------------------------------------

\* The turn that is added next is that of its place.
LEMMA NextTurnFits ==
  ASSUME NEW n \in Nat
  PROVE  /\ \A r \in Seq(Calls \cup {Malformed}) : TurnFits(Turn("assistant", r), 3 + 2 * n)
         /\ \A r \in Seq(ResultType) : TurnFits(Turn("user", r), 4 + 2 * n)
<1>1. (3 + 2 * n) % 2 = 1 /\ (4 + 2 * n) % 2 = 0 /\ 3 + 2 * n # 1 /\ 4 + 2 * n # 1
  OBVIOUS
<1>2. /\ \A r \in Seq(Calls \cup {Malformed}) : TurnFits([role |-> "assistant", text |-> r], 3 + 2 * n)
      /\ \A r \in Seq(ResultType) : TurnFits([role |-> "user", text |-> r], 4 + 2 * n)
  BY <1>1 DEF TurnFits
<1> QED BY <1>2 DEF Turn

\* The invariant of the history holds at first.
LEMMA HistoryInit == Init => HistoryInv
<1> SUFFICES ASSUME Init PROVE HistoryInv
  OBVIOUS
<1>1. /\ hist = <<Turn("system", <<>>), Turn("user", <<>>)>>
      /\ pc = "head" /\ i = 1 /\ resp = <<>>
  BY DEF Init
<1>2. Len(hist) = 2 /\ hist[1] = Turn("system", <<>>) /\ hist[2] = Turn("user", <<>>)
  BY <1>1
<1>3. TurnFits(hist[1], 1) /\ TurnFits(hist[2], 2)
  BY <1>2 DEF TurnFits, Turn
<1>4. <<>> \in Seq(ResultType)
  OBVIOUS
<1> QED BY <1>1, <1>2, <1>3, <1>4 DEF HistoryInv

\* While a reply is served it is the last turn, and parses to the pending calls.
LEMMA Serving ==
  ASSUME HistoryInv, OutcomeInv, pc \notin {"head", "done"}
  PROVE  /\ Len(hist) = 3 + 2 * iter /\ iter \in Nat /\ Last(hist) = hist[Len(hist)]
         /\ Pending = ParseToolCalls(hist[Len(hist)].text)
         /\ Pending \in Seq(Calls) /\ i \in 1..Len(Pending) /\ Call \in Calls
         /\ Answered(resp, Pending, i - 1)
<1>1. Len(hist) = 3 + 2 * iter /\ iter \in Nat /\ Last(hist) = hist[Len(hist)]
  BY BoundsAssumption DEF OutcomeInv, Last
<1>2. TurnFits(hist[Len(hist)], 3 + 2 * iter)
  BY <1>1 DEF HistoryInv
<1>3. (3 + 2 * iter) % 2 = 1 /\ 3 + 2 * iter # 1
  BY <1>1
<1>4. hist[Len(hist)].text \in Seq(Calls \cup {Malformed})
  BY <1>2, <1>3 DEF TurnFits
<1>5. Pending = ParseToolCalls(hist[Len(hist)].text)
  BY <1>1 DEF Pending
<1>6. Pending \in Seq(Calls)
  BY <1>4, <1>5, ParsedCalls
<1>7. i \in 1..Len(Pending) /\ Answered(resp, Pending, i - 1)
  BY DEF HistoryInv
<1> QED BY <1>1, <1>5, <1>6, <1>7 DEF Call

\* What a result does to the history: the log grows by it.
LEMMA ResultTold ==
  ASSUME HistoryInv, OutcomeInv, pc \notin {"head", "done"},
         NEW kind \in {"ok", "error", "failed", "denied"}, Result(kind)
  PROVE  /\ HistoryInv'
         /\ Log \in Seq(ResultType) /\ [call |-> Call, kind |-> kind] \in ResultType
         /\ Log' = Append(Log, [call |-> Call, kind |-> kind])
<1> DEFINE r == [call |-> Call, kind |-> kind]
           all == Append(resp, r)
           n == Len(hist)
<1>1. /\ n = 3 + 2 * iter /\ iter \in Nat /\ Pending = ParseToolCalls(hist[n].text)
      /\ Pending \in Seq(Calls) /\ i \in 1..Len(Pending) /\ Call \in Calls
      /\ Answered(resp, Pending, i - 1)
  BY Serving
<1>2. r \in ResultType
  BY <1>1 DEF ResultType
<1>3. resp \in Seq(ResultType)
  BY DEF HistoryInv
<1>4. all \in Seq(ResultType) /\ Len(all) = i
  BY <1>1, <1>2, <1>3 DEF Answered
<1>5. Answered(all, Pending, i)
  <2>1. ASSUME NEW j \in 1..i PROVE all[j].call = Pending[j]
    <3>1. CASE j = i
      <4>1. Len(resp) + 1 = i
        BY <1>1 DEF Answered
      <4>2. all[j] = r
        BY <1>2, <1>3, <3>1, <4>1
      <4>3. r.call = Pending[i]
        BY DEF Call
      <4> QED BY <3>1, <4>2, <4>3
    <3>2. CASE j # i
      <4>1. all[j] = resp[j] /\ j \in 1..(i - 1)
        BY <1>1, <1>3, <3>2 DEF Answered
      <4> QED BY <1>1, <4>1 DEF Answered
    <3> QED BY <3>1, <3>2
  <2> HIDE DEF all
  <2> QED BY <1>4, <2>1 DEF Answered
<1>6. Told(hist) \in Seq(ResultType)
  <2>1. ASSUME NEW k \in 1..n, hist[k].role = "user" PROVE hist[k].text \in Seq(ResultType)
    BY <2>1 DEF HistoryInv, TurnFits
  <2> QED BY <2>1, ToldResults DEF OutcomeInv
<1>7. Told(hist) \o all = Append(Log, r) /\ Log \in Seq(ResultType)
  BY <1>2, <1>3, <1>6, ConcatAppend, LogIs
<1>8. CASE i < Len(Pending)
  <2>1. i' = i + 1 /\ resp' = all /\ pc' = "tool" /\ hist' = hist
    BY <1>8 DEF Result
  <2>2. Log' = Told(hist) \o all
    BY <2>1, LogIs
  <2>3. HistoryInv'
    <3>1. Pending' = Pending /\ i' \in 1..Len(Pending) /\ i' - 1 = i
      BY <1>1, <1>8, <2>1 DEF Pending
    <3> HIDE DEF all
    <3> QED BY <1>4, <1>5, <2>1, <3>1 DEF HistoryInv
  <2> QED BY <1>2, <1>7, <2>2, <2>3
<1>9. CASE ~(i < Len(Pending))
  <2>1. /\ hist' = Append(hist, Turn("user", all)) /\ i' = 1 /\ resp' = <<>>
        /\ pc' = "head" /\ iter' = iter + 1
    BY <1>9 DEF Result
  <2>2. i = Len(Pending)
    BY <1>1, <1>9
  <2> HIDE DEF all
  <2>3. Told(hist') = Told(hist) \o all
    <3>1. Turn("user", all).role = "user" /\ Turn("user", all).text = all
      BY DEF Turn
    <3>2. \E S : hist \in Seq(S)
      BY DEF OutcomeInv
    <3> QED BY <2>1, <3>1, <3>2, ToldAppend
  <2>4. Log' = Told(hist) \o all
    <3>1. Told(hist') \o <<>> = Told(hist')
      BY <1>4, <1>6, <2>3, ConcatEmptySeq, ConcatProperties
    <3> QED BY <2>1, <2>3, <3>1, LogIs
  <2>5. HistoryInv'
    <3>1. PICK S : hist \in Seq(S)
      BY DEF OutcomeInv
    <3>2. /\ Len(hist') = n + 1 /\ hist'[n + 1] = Turn("user", all)
          /\ \A k \in 1..n : hist'[k] = hist[k]
      <4>1. hist \in Seq(S \cup {Turn("user", all)})
        BY <3>1
      <4> QED BY <2>1, <4>1, AppendProperties
    <3> HIDE DEF n
    <3>3. ASSUME NEW k \in 1..(n + 1) PROVE TurnFits(hist'[k], k)
      <4>1. CASE k = n + 1
        <5>1. TurnFits(Turn("user", all), 4 + 2 * iter) /\ n + 1 = 4 + 2 * iter
          BY <1>1, <1>4, NextTurnFits DEF n
        <5> QED BY <3>2, <4>1, <5>1
      <4>2. CASE k # n + 1
        BY <1>1, <3>2, <4>2 DEF HistoryInv, n
      <4> QED BY <4>1, <4>2
    <3>4. ASSUME NEW k \in 3..n, k % 2 = 1
          PROVE  LET calls == ParseToolCalls(hist'[k].text)
                 IN  Answered(hist'[k + 1].text, calls, Len(calls))
      <4>1. CASE k = n
        <5>1. hist'[k] = hist[k] /\ hist'[k + 1].text = all
          BY <1>1, <3>2, <4>1 DEF Turn
        <5> QED BY <1>1, <1>5, <2>2, <4>1, <5>1
      <4>2. CASE k # n
        <5>1. k \in 3..(n - 1) /\ hist'[k] = hist[k] /\ hist'[k + 1] = hist[k + 1]
          BY <1>1, <3>2, <4>2
        <5> QED BY <3>4, <5>1 DEF HistoryInv, n
      <4> QED BY <4>1, <4>2
    <3>5. <<>> \in Seq(ResultType) /\ (n + 1) - 1 = n
      BY <1>1
    <3>6. 3..(Len(hist') - 1) = 3..n /\ 1..Len(hist') = 1..(n + 1)
      BY <3>2, <3>5
    <3> QED BY <2>1, <3>3, <3>4, <3>5, <3>6 DEF HistoryInv
  <2> QED BY <1>2, <1>7, <2>4, <2>5
<1> QED BY <1>8, <1>9

\* A reply tells of no result, and its calls become the pending ones.
LEMMA GenerateTold ==
  ASSUME HistoryInv, OutcomeInv, NEW reply \in Replies, Generate(reply)
  PROVE  HistoryInv' /\ Log' = Log
<1> DEFINE n == Len(hist)
           t == Turn("assistant", reply)
<1>1. /\ pc = "head" /\ hist' = Append(hist, t) /\ UNCHANGED <<i, resp>>
      /\ n = 2 + 2 * iter /\ iter \in Nat /\ i = 1 /\ resp = <<>>
  BY BoundsAssumption DEF Generate, HistoryInv, OutcomeInv
<1>2. reply \in Seq(Calls \cup {Malformed})
  <2>1. PICK b \in 0..MaxBlocks : reply \in [1..b -> Calls \cup {Malformed}]
    BY DEF Replies
  <2>2. b \in Nat
    BY BoundsAssumption
  <2> QED BY <2>1, <2>2
<1>3. t.role = "assistant" /\ t.text = reply
  BY DEF Turn
<1>4. PICK S : hist \in Seq(S)
  BY DEF OutcomeInv
<1>5. Log' = Log
  <2>1. Told(hist') = Told(hist)
    BY <1>1, <1>3, <1>4, ToldAppend
  <2> QED BY <1>1, <2>1, LogIs
<1> HIDE DEF t
<1>6. Len(hist') = n + 1 /\ hist'[n + 1] = t /\ \A k \in 1..n : hist'[k] = hist[k]
  <2>1. hist \in Seq(S \cup {t})
    BY <1>4
  <2> QED BY <1>1, <2>1, AppendProperties
<1>7. Pending' = ParseToolCalls(reply)
  BY <1>3, <1>6 DEF Pending, Last
<1>8. ASSUME NEW k \in 1..(n + 1) PROVE TurnFits(hist'[k], k)
  <2>1. CASE k = n + 1
    <3>1. TurnFits(t, 3 + 2 * iter) /\ n + 1 = 3 + 2 * iter
      BY <1>1, <1>2, NextTurnFits DEF t
    <3> QED BY <1>6, <2>1, <3>1
  <2>2. CASE k # n + 1
    <3>1. k \in 1..n
      BY <1>1, <2>2
    <3> QED BY <1>6, <3>1 DEF HistoryInv
  <2> QED BY <2>1, <2>2
<1>9. ASSUME NEW k \in 3..n, k % 2 = 1
      PROVE  LET calls == ParseToolCalls(hist'[k].text)
             IN  Answered(hist'[k + 1].text, calls, Len(calls))
  <2>1. n % 2 = 0
    BY <1>1
  <2>2. k \in 3..(n - 1)
    BY <1>1, <1>9, <2>1
  <2>3. hist'[k] = hist[k] /\ hist'[k + 1] = hist[k + 1]
    BY <1>1, <1>6, <2>2
  <2> HIDE DEF n
  <2> QED BY <1>9, <2>2, <2>3 DEF HistoryInv, n
<1>10. 3..(Len(hist') - 1) = 3..n /\ 1..Len(hist') = 1..(n + 1)
  BY <1>1, <1>6
<1>11. CASE ParseToolCalls(reply) = <<>>
  <2>1. pc' = "done"
    BY <1>11 DEF Generate
  <2> HIDE DEF n
  <2>2. HistoryInv'
    BY <1>1, <1>8, <1>9, <1>10, <2>1 DEF HistoryInv
  <2> QED BY <1>5, <2>2
<1>12. CASE ParseToolCalls(reply) # <<>>
  <2>1. pc' = "tool"
    BY <1>12 DEF Generate
  <2>2. 1 \in 1..Len(Pending')
    <3>1. Pending' \in Seq(Calls) /\ Pending' # <<>>
      BY <1>2, <1>7, <1>12, ParsedCalls
    <3> HIDE DEF n
    <3> QED BY <3>1
  <2>3. Answered(resp', Pending', i' - 1)
    BY <1>1 DEF Answered
  <2> HIDE DEF n
  <2>4. HistoryInv'
    BY <1>1, <1>8, <1>9, <1>10, <2>1, <2>2, <2>3 DEF HistoryInv
  <2> QED BY <1>5, <2>4
<1> QED BY <1>11, <1>12

\* Every step serves a call, adds a reply, or leaves history and results alone.
LEMMA HistoryStep ==
  ASSUME [Next]_vars
  PROVE  \/ \E kind \in {"ok", "error", "failed", "denied"} :
              Result(kind) /\ pc \notin {"head", "done"}
         \/ \E reply \in Replies : Generate(reply)
         \/ /\ UNCHANGED <<hist, i, resp>>
            /\ \/ pc = "head" /\ pc' = "done"
               \/ pc \notin {"head", "done"}
                  /\ pc' \in {"asking", "execute", "writing", "running"}
               \/ pc' = pc
<1>1. CASE DenyBlind \/ Look \/ WriteRefused \/ WriteDone \/ WriteFails \/ RunFails \/ RunEnds
  <2>1. /\ \E kind \in {"ok", "error", "failed", "denied"} : Result(kind)
        /\ pc \notin {"head", "done"}
    BY <1>1 DEF DenyBlind, Look, WriteRefused, WriteDone, WriteFails, RunFails, RunEnds, MayRun
  <2> QED BY <2>1
<1>2. CASE Answer
  BY <1>2 DEF Answer
<1>3. CASE GiveUp \/ GenerateFails \/ Ask \/ WriteOpen \/ RunStart
  BY <1>3 DEF GiveUp, GenerateFails, Ask, WriteOpen, RunStart, MayRun
<1>4. CASE User \/ UNCHANGED vars
  BY <1>4 DEF User, TypeLine, CloseStdin, vars
<1>5. CASE \E reply \in Replies : Generate(reply)
  BY <1>5
<1> QED BY <1>1, <1>2, <1>3, <1>4, <1>5 DEF Next, Agent

\* Every step keeps the invariant of the history.
LEMMA HistoryNext ==
  ASSUME HistoryInv, OutcomeInv, [Next]_vars
  PROVE  HistoryInv'
<1>1. ASSUME NEW kind \in {"ok", "error", "failed", "denied"}, Result(kind),
             pc \notin {"head", "done"}
      PROVE  HistoryInv'
  BY <1>1, ResultTold
<1>2. ASSUME NEW reply \in Replies, Generate(reply) PROVE HistoryInv'
  BY <1>2, GenerateTold
<1>3. CASE /\ UNCHANGED <<hist, i, resp>>
           /\ \/ pc = "head" /\ pc' = "done"
              \/ pc \notin {"head", "done"}
                 /\ pc' \in {"asking", "execute", "writing", "running"}
              \/ pc' = pc
  BY <1>3 DEF HistoryInv, Pending
<1> QED BY <1>1, <1>2, <1>3, HistoryStep

\* The lists of calls and results in HistoryInv are those of Transcript.
LEMMA AnsweredAll ==
  ASSUME NEW calls \in Seq(Calls), NEW n \in 0..Len(calls), NEW results,
         \E S : results \in Seq(S), Answered(results, calls, n)
  PROVE  [j \in DOMAIN results |-> results[j].call] = SubSeq(calls, 1, n)
<1>1. PICK S : results \in Seq(S)
  OBVIOUS
<1>2. DOMAIN results = 1..n
  BY <1>1 DEF Answered
<1> DEFINE a == [j \in DOMAIN results |-> results[j].call]
           b == SubSeq(calls, 1, n)
<1>3. b \in Seq(Calls) /\ Len(b) = n /\ \A j \in 1..n : b[j] = calls[j]
  OBVIOUS
<1>4. \A j \in 1..n : a[j] = calls[j]
  BY <1>2 DEF Answered
<1>5. b = [j \in 1..n |-> b[j]] /\ a = [j \in 1..n |-> a[j]]
  BY <1>2, <1>3
<1> HIDE DEF a, b
<1>6. a = b
  BY <1>3, <1>4, <1>5
<1> QED BY <1>6 DEF a, b

\* The invariant of the history implies the shape of the transcript.
LEMMA TranscriptHolds ==
  ASSUME HistoryInv, OutcomeInv
  PROVE  Transcript
<1>1. ASSUME NEW t \in 1..Len(hist)
      PROVE  hist[t].role = IF t = 1 THEN "system" ELSE IF t % 2 = 0 THEN "user" ELSE "assistant"
  BY DEF HistoryInv, TurnFits
<1>2. ASSUME NEW t \in 3..(Len(hist) - 1), hist[t].role = "assistant"
      PROVE  [j \in DOMAIN hist[t + 1].text |-> hist[t + 1].text[j].call]
               = ParseToolCalls(hist[t].text)
  <2> DEFINE calls == ParseToolCalls(hist[t].text)
             results == hist[t + 1].text
  <2>0. Len(hist) \in Nat /\ t \in 1..Len(hist) /\ t + 1 \in 1..Len(hist) /\ t # 1 /\ t + 1 # 1
    <3>1. Len(hist) \in Nat
      BY DEF OutcomeInv
    <3> QED BY <3>1
  <2>1. t % 2 = 1 /\ (t + 1) % 2 = 0
    <3>1. ~(t % 2 = 0)
      BY <1>1, <1>2, <2>0
    <3> QED BY <2>0, <3>1
  <2>2. hist[t].text \in Seq(Calls \cup {Malformed}) /\ results \in Seq(ResultType)
    <3>1. TurnFits(hist[t], t) /\ TurnFits(hist[t + 1], t + 1)
      BY <2>0 DEF HistoryInv
    <3>2. ~(t % 2 = 0)
      BY <2>1
    <3>3. hist[t].text \in Seq(Calls \cup {Malformed})
      BY <2>0, <3>1, <3>2 DEF TurnFits
    <3>4. hist[t + 1].text \in Seq(ResultType)
      BY <2>0, <2>1, <3>1 DEF TurnFits
    <3> QED BY <3>3, <3>4
  <2>3. calls \in Seq(Calls)
    BY <2>2, ParsedCalls
  <2>4. Answered(results, calls, Len(calls))
    BY <2>1 DEF HistoryInv
  <2> HIDE DEF calls, results
  <2>5. Len(calls) \in 0..Len(calls) /\ SubSeq(calls, 1, Len(calls)) = calls
    BY <2>3
  <2>6. [j \in DOMAIN results |-> results[j].call] = SubSeq(calls, 1, Len(calls))
    BY <2>2, <2>3, <2>4, <2>5, AnsweredAll
  <2> QED BY <2>5, <2>6 DEF calls, results
<1>3. ASSUME pc \notin {"head", "done"}
      PROVE  [j \in DOMAIN resp |-> resp[j].call] = SubSeq(Pending, 1, i - 1)
  <2>1. Pending \in Seq(Calls) /\ i \in 1..Len(Pending) /\ Answered(resp, Pending, i - 1)
    BY <1>3, Serving
  <2>2. resp \in Seq(ResultType) /\ i - 1 \in 0..Len(Pending)
    BY <2>1 DEF HistoryInv
  <2> QED BY <2>1, <2>2, AnsweredAll
<1> QED BY <1>1, <1>2, <1>3 DEF Transcript

\* HistoryInv rests on what OutcomeInv says of the lengths.
LEMMA HistoryHolds == Spec => []HistoryInv /\ []OutcomeInv
<1>1. OutcomeInv /\ [Next]_vars => OutcomeInv'
  BY OutcomeNext
<1>2. HistoryInv /\ OutcomeInv /\ [Next]_vars => HistoryInv'
  BY HistoryNext
<1> QED BY <1>1, <1>2, OutcomeInit, HistoryInit, PTL DEF Spec

\* For any calls, replies and answers: the model sees turns in alternation, and after
\* each reply one result for every call it asked for, in its order.
THEOREM AnswersMatchCalls == Spec => []Transcript
<1>1. HistoryInv /\ OutcomeInv => Transcript
  BY TranscriptHolds
<1> QED BY <1>1, HistoryHolds, PTL

-----------------------------------------------------------------------------
(* Types.                                                                    *)

PlainTypes ==
  /\ mode \in Modes /\ files \in [Files -> Contents]
  /\ stdin \in Seq(BOOLEAN) /\ said \in Seq(BOOLEAN) /\ eof \in BOOLEAN
  /\ asked \in Nat /\ question \in Nat \X Nat
  /\ rc \in {0, 1, -1}

\* The plain types hold at first.
LEMMA PlainInit == Init => PlainTypes
<1>1. <<>> \in Seq(BOOLEAN) /\ <<0, 0>> \in Nat \X Nat
  OBVIOUS
<1> QED BY <1>1 DEF Init, PlainTypes, Contents

\* Every step keeps the plain types.
LEMMA PlainNext ==
  ASSUME PlainTypes, HistoryInv, OutcomeInv, [Next]_vars
  PROVE  PlainTypes'
<1> USE DEF PlainTypes
<1>1. CASE GiveUp \/ GenerateFails \/ \E reply \in Replies : Generate(reply)
  BY <1>1 DEF GiveUp, GenerateFails, Generate, terminal
<1>2. CASE DenyBlind \/ Look \/ WriteRefused \/ RunFails \/ RunStart
  BY <1>2 DEF DenyBlind, Look, WriteRefused, RunFails, RunStart, terminal
<1>3. CASE Ask
  <2>1. iter \in Nat /\ i \in Nat
    <3>1. pc \notin {"head", "done"}
      BY <1>3 DEF Ask
    <3> QED BY <3>1, Serving
  <2> QED BY <1>3, <2>1 DEF Ask
<1>4. CASE Answer
  <2>1. stdin # <<>> => Tail(stdin) \in Seq(BOOLEAN)
    OBVIOUS
  <2>2. <<>> \in Seq(BOOLEAN)
    OBVIOUS
  <2> QED BY <1>4, <2>1, <2>2 DEF Answer
<1>5. CASE WriteOpen
  BY <1>5 DEF WriteOpen, terminal, Contents
<1>6. CASE WriteDone \/ WriteFails
  <2>1. pc \notin {"head", "done"}
    BY <1>6 DEF WriteDone, WriteFails
  <2>2. Call.content \in Contents
    BY <2>1, Serving, CallsAssumption DEF Contents
  <2>3. \E c \in Contents : files' = [files EXCEPT ![Call.path] = c]
    BY <1>6, <2>2 DEF WriteDone, WriteFails, Contents
  <2> QED BY <1>6, <2>3 DEF WriteDone, WriteFails, terminal
<1>7. CASE RunEnds
  BY <1>7 DEF RunEnds, terminal
<1>8. ASSUME NEW l \in Lines, TypeLine(l) PROVE PlainTypes'
  <2>1. l \in Seq(BOOLEAN) /\ l # <<>>
    BY LinesAssumption
  <2>2. Head(l) \in BOOLEAN
    BY <2>1
  <2>3. stdin \o l \in Seq(BOOLEAN) /\ Append(said, Head(l)) \in Seq(BOOLEAN)
    BY <2>1, <2>2
  <2> QED BY <1>8, <2>3 DEF TypeLine
<1>9. CASE CloseStdin
  BY <1>9 DEF CloseStdin
<1>10. CASE UNCHANGED vars
  BY <1>10 DEF vars
<1> QED BY <1>1, <1>2, <1>3, <1>4, <1>5, <1>6, <1>7, <1>8, <1>9, <1>10 DEF Next, Agent, User

\* Every variable keeps its type, and the loop its limit, whatever the constants.
THEOREM TypesHold == Spec => []TypeOK
<1>1. ASSUME HistoryInv, OutcomeInv, PlainTypes PROVE TypeOK
  <2>1. ASSUME NEW t \in Range(hist)
        PROVE  \/ t.role = "system" /\ t.text = <<>>
               \/ t.role = "user" /\ t.text \in Seq(ResultType)
               \/ t.role = "assistant" /\ t.text \in Seq(Calls \cup {Malformed})
    <3>1. PICK k \in 1..Len(hist) : t = hist[k]
      <4>1. DOMAIN hist = 1..Len(hist)
        BY <1>1 DEF OutcomeInv
      <4> QED BY <4>1 DEF Range
    <3> QED BY <1>1, <3>1 DEF HistoryInv, TurnFits
  <2>2. i \in Nat \ {0}
    <3>1. CASE pc \in {"head", "done"}
      BY <1>1, <3>1 DEF HistoryInv
    <3>2. CASE pc \notin {"head", "done"}
      BY <1>1, <3>2, Serving
    <3> QED BY <3>1, <3>2
  <2> QED BY <1>1, <2>1, <2>2 DEF HistoryInv, OutcomeInv, PlainTypes, TypeOK
<1>2. PlainTypes /\ HistoryInv /\ OutcomeInv /\ [Next]_vars => PlainTypes'
  BY PlainNext
<1> QED BY <1>1, <1>2, PlainInit, HistoryHolds, PTL DEF Spec

-----------------------------------------------------------------------------
(* Refusals.                                                                 *)

\* Only a refusal adds to the denials.
LEMMA DenialsAppend ==
  ASSUME NEW log \in Seq(ResultType), NEW r \in ResultType
  PROVE  /\ IsFiniteSet(Denials(log))
         /\ Cardinality(Denials(log)) \in Nat
         /\ Cardinality(Denials(Append(log, r))) =
              Cardinality(Denials(log)) + IF r.kind = "denied" THEN 1 ELSE 0
<1> DEFINE n == Len(log)
<1>1. n \in Nat /\ DOMAIN log = 1..n
  OBVIOUS
<1>2. IsFiniteSet(Denials(log)) /\ Cardinality(Denials(log)) \in Nat
  <2>1. Denials(log) \in SUBSET (1..n) /\ IsFiniteSet(1..n)
    BY <1>1, FS_Interval DEF Denials
  <2> QED BY <2>1, FS_Subset, FS_CardinalityType
<1>3. Denials(Append(log, r)) =
        IF r.kind = "denied" THEN Denials(log) \cup {n + 1} ELSE Denials(log)
  <2> DEFINE a == Append(log, r)
  <2>1. DOMAIN a = 1..(n + 1) /\ a[n + 1] = r /\ \A j \in 1..n : a[j] = log[j]
    OBVIOUS
  <2>2. 1..(n + 1) = 1..n \cup {n + 1}
    BY <1>1
  <2> HIDE DEF a, n
  <2> QED BY <1>1, <2>1, <2>2 DEF Denials, a
<1>4. ~(n + 1 \in Denials(log))
  BY <1>1 DEF Denials
<1>5. Cardinality(Denials(log) \cup {n + 1}) = Cardinality(Denials(log)) + 1
  BY <1>2, <1>4, FS_AddElement
<1> HIDE DEF n
<1> QED BY <1>2, <1>3, <1>5

\* What one more message adds to the refusals told.
LEMMA RefusalsAdd ==
  ASSUME ConsentInv, NEW n \in Nat \ {0}
  PROVE  /\ Cardinality(Refusals(n - 1)) \in Nat
         /\ Cardinality(Refusals(n)) =
              Cardinality(Refusals(n - 1)) + IF n > Len(said) \/ ~said[n] THEN 1 ELSE 0
<1>1. n - 1 \in Nat /\ 1..n = 1..(n - 1) \cup {n} /\ ~(n \in 1..(n - 1))
  OBVIOUS
<1>2. Refusals(n) = IF n > Len(said) \/ ~said[n] THEN Refusals(n - 1) \cup {n}
                    ELSE Refusals(n - 1)
  BY <1>1 DEF Refusals
<1>3. IsFiniteSet(Refusals(n - 1)) /\ Cardinality(Refusals(n - 1)) \in Nat
  <2>1. Refusals(n - 1) \in SUBSET (1..(n - 1)) /\ IsFiniteSet(1..(n - 1))
    BY <1>1, FS_Interval DEF Refusals
  <2> QED BY <2>1, FS_Subset, FS_CardinalityType
<1>4. ~(n \in Refusals(n - 1))
  BY <1>1 DEF Refusals
<1>5. Cardinality(Refusals(n - 1) \cup {n}) = Cardinality(Refusals(n - 1)) + 1
  BY <1>3, <1>4, FS_AddElement
<1> QED BY <1>2, <1>3, <1>5

\* What a step adds to the log.
LEMMA LogStep ==
  ASSUME HistoryInv, OutcomeInv, [Next]_vars
  PROVE  /\ Log \in Seq(ResultType)
         /\ Log' = Log \/ \E kind \in {"ok", "error", "failed", "denied"} :
                            /\ pc \notin {"head", "done"} /\ Result(kind)
                            /\ [call |-> Call, kind |-> kind] \in ResultType
                            /\ Log' = Append(Log, [call |-> Call, kind |-> kind])
<1>1. Log \in Seq(ResultType)
  <2>1. PICK S : hist \in Seq(S)
    BY DEF OutcomeInv
  <2>2. ASSUME NEW k \in 1..Len(hist), hist[k].role = "user"
        PROVE  hist[k].text \in Seq(ResultType)
    BY <2>2 DEF HistoryInv, TurnFits
  <2>3. Told(hist) \in Seq(ResultType)
    BY <2>1, <2>2, ToldResults
  <2>4. resp \in Seq(ResultType)
    BY DEF HistoryInv
  <2> QED BY <2>3, <2>4, LogIs, ConcatProperties
<1>2. CASE \E kind \in {"ok", "error", "failed", "denied"} :
             Result(kind) /\ pc \notin {"head", "done"}
  BY <1>1, <1>2, ResultTold
<1>3. CASE \E reply \in Replies : Generate(reply)
  BY <1>1, <1>3, GenerateTold
<1>4. CASE UNCHANGED <<hist, i, resp>>
  BY <1>1, <1>4, LogIs
<1> QED BY <1>2, <1>3, <1>4, HistoryStep

\* Nothing is logged at first.
LEMMA LogInit == Init => Log = <<>>
<1> SUFFICES ASSUME Init PROVE Log = <<>>
  OBVIOUS
<1> DEFINE h == <<Turn("system", <<>>), Turn("user", <<>>)>>
<1>1. hist = h /\ resp = <<>>
  BY DEF Init
<1>2. Told(h) = <<>>
  <2>1. <<Turn("system", <<>>)>> \in Seq({Turn("system", <<>>)}) /\ <<>> \in Seq({Turn("system", <<>>)})
    OBVIOUS
  <2>2. h = Append(Append(<<>>, Turn("system", <<>>)), Turn("user", <<>>))
    OBVIOUS
  <2>3. Append(<<>>, Turn("system", <<>>)) = <<Turn("system", <<>>)>>
    OBVIOUS
  <2>4. Told(<<>>) = <<>>
    BY Telling!FoldEmpty DEF Told
  <2>5. Told(Append(<<>>, Turn("system", <<>>))) = <<>>
    <3>1. Turn("system", <<>>).role # "user"
      BY DEF Turn
    <3> QED BY <2>1, <2>4, <3>1, ToldAppend
  <2>6. Told(h) = <<>> \o <<>>
    <3>1. Turn("user", <<>>).role = "user" /\ Turn("user", <<>>).text = <<>>
      BY DEF Turn
    <3> QED BY <2>1, <2>2, <2>3, <2>5, <3>1, ToldAppend
  <2> QED BY <2>6
<1> HIDE DEF h
<1> QED BY <1>1, <1>2, LogIs

\* Every step keeps the invariant of refusals.
LEMMA RefusalsNext ==
  ASSUME RefusalsInv, ConsentInv, HistoryInv, OutcomeInv, LinesFit, [Next]_vars
  PROVE  RefusalsInv'
<1> DEFINE N == IF pc = "asking" THEN asked - 1 ELSE asked
<1> SUFFICES ASSUME mode' = "prompt"
             PROVE  Cardinality(Denials(Log')) = Cardinality(Refusals(N)')
  BY DEF RefusalsInv, Denials
<1>0. N \in Nat /\ Len(said) \in Nat /\ asked \in Nat
  BY DEF ConsentInv
<1>1. mode = "prompt"
  BY DEF Next, Agent, User, GiveUp, GenerateFails, Generate, DenyBlind, Ask, Answer, Look,
         WriteRefused, WriteOpen, WriteDone, WriteFails, RunFails, RunStart, RunEnds,
         TypeLine, CloseStdin, vars
<1>2. Cardinality(Denials(Log)) = Cardinality(Refusals(N))
  BY <1>1 DEF RefusalsInv
<1>3. Log \in Seq(ResultType)
  BY LogStep
<1>4. ASSUME NEW kind \in {"ok", "error", "failed"}, Result(kind), pc \notin {"head", "done"},
             pc # "asking", UNCHANGED <<said, asked>>
      PROVE  Cardinality(Denials(Log')) = Cardinality(Refusals(N)')
  <2>1. /\ Log' = Append(Log, [call |-> Call, kind |-> kind])
        /\ [call |-> Call, kind |-> kind] \in ResultType
    BY <1>4, ResultTold
  <2>2. Cardinality(Denials(Log')) = Cardinality(Denials(Log))
    BY <1>3, <2>1, DenialsAppend
  <2>3. pc' # "asking" /\ N' = N /\ Refusals(N)' = Refusals(N)
    BY <1>4, ResultGoesOn DEF Refusals
  <2> QED BY <1>2, <2>2, <2>3
<1>5. CASE Answer
  <2>1. /\ pc = "asking" /\ N = asked - 1 /\ asked \in Nat \ {0}
        /\ UNCHANGED <<said, asked>>
    <3>1. pc = "asking" /\ UNCHANGED <<said, asked>>
      BY <1>5 DEF Answer
    <3>2. asked \in Nat \ {0}
      BY <1>0, <3>1 DEF ConsentInv
    <3> QED BY <3>1, <3>2
  <2>2. Cardinality(Refusals(asked)) =
          Cardinality(Refusals(N)) + IF asked > Len(said) \/ ~said[asked] THEN 1 ELSE 0
    BY <2>1, RefusalsAdd
  <2>3. CASE stdin # <<>> /\ Head(stdin)
    <3>1. pc' = "execute" /\ UNCHANGED <<hist, resp>>
      BY <1>5, <2>3 DEF Answer
    <3>2. ~(asked > Len(said)) /\ said[asked]
      <4>1. Len(said) = asked /\ stdin = <<said[asked]>>
        BY <2>1, <2>3 DEF ConsentInv
      <4>2. Head(stdin) = said[asked]
        BY <4>1
      <4>3. ~(asked > Len(said))
        BY <1>0, <4>1
      <4> QED BY <2>3, <4>2, <4>3
    <3>3. Log' = Log
      BY <3>1, LogIs
    <3>4. Refusals(N)' = Refusals(asked)
      BY <2>1, <3>1 DEF Refusals
    <3>5. Cardinality(Refusals(N)) \in Nat
      BY <2>1, RefusalsAdd
    <3> QED BY <1>2, <2>2, <3>2, <3>3, <3>4, <3>5
  <2>4. CASE ~(stdin # <<>> /\ Head(stdin))
    <3>1. Result("denied")
      BY <1>5, <2>4 DEF Answer
    <3>2. /\ Log' = Append(Log, [call |-> Call, kind |-> "denied"])
          /\ [call |-> Call, kind |-> "denied"] \in ResultType
      BY <2>1, <3>1, ResultTold
    <3>3. Cardinality(Denials(Log')) = Cardinality(Denials(Log)) + 1
      BY <1>3, <3>2, DenialsAppend
    <3>4. asked > Len(said) \/ ~said[asked]
      <4>1. CASE stdin = <<>>
        <5>1. <<said[asked]>> # <<>>
          OBVIOUS
        <5> QED BY <1>0, <2>1, <4>1, <5>1 DEF ConsentInv
      <4>2. CASE stdin # <<>>
        <5>1. stdin = <<said[asked]>>
          BY <2>1, <4>2 DEF ConsentInv
        <5>2. Head(stdin) = said[asked]
          BY <5>1
        <5> QED BY <2>4, <4>2, <5>2
      <4> QED BY <4>1, <4>2
    <3>5. pc' # "asking"
      BY <3>1, ResultGoesOn
    <3>6. Refusals(N)' = Refusals(asked)
      BY <2>1, <3>5 DEF Refusals
    <3> QED BY <1>2, <2>2, <3>3, <3>4, <3>6
  <2> QED BY <2>3, <2>4
<1>6. CASE Ask
  <2>1. /\ pc = "tool" /\ pc' = "asking" /\ asked' = asked + 1 /\ UNCHANGED <<hist, resp, said>>
    BY <1>6 DEF Ask
  <2>2. N' = N
    BY <1>0, <2>1
  <2>3. Log' = Log
    BY <2>1, LogIs
  <2>4. Refusals(N)' = Refusals(N)
    BY <2>1, <2>2 DEF Refusals
  <2> QED BY <1>2, <2>3, <2>4
<1>7. ASSUME NEW l \in Lines, TypeLine(l)
      PROVE  Cardinality(Denials(Log')) = Cardinality(Refusals(N)')
  <2>1. /\ ~eof /\ Len(said) < asked /\ said' = Append(said, Head(l))
        /\ UNCHANGED <<pc, hist, resp, asked>>
    BY <1>7 DEF TypeLine
  <2>2. pc = "asking" /\ Len(said) = N
    BY <1>0, <2>1 DEF ConsentInv
  <2>3. /\ N' = N /\ Len(said') = N + 1
        /\ \A q \in 1..N : said'[q] = said[q]
    <3>1. said \in Seq(BOOLEAN) /\ Head(l) \in BOOLEAN
      BY DEF ConsentInv, LinesFit
    <3> HIDE DEF N
    <3>2. N' = N
      BY <2>1 DEF N
    <3> QED BY <1>0, <2>1, <2>2, <3>1, <3>2
  <2>4. Refusals(N)' = Refusals(N)
    <3>1. Refusals(N)' = {q \in 1..N : q > Len(said') \/ ~said'[q]}
      BY <2>3 DEF Refusals
    <3> HIDE DEF N
    <3> QED BY <1>0, <2>2, <2>3, <3>1 DEF Refusals
  <2>5. Log' = Log
    BY <2>1, LogIs
  <2> QED BY <1>2, <2>4, <2>5
<1>8. ASSUME UNCHANGED <<said, asked>>, Log' = Log, (pc # "asking" /\ pc' # "asking") \/ pc' = pc
      PROVE  Cardinality(Denials(Log')) = Cardinality(Refusals(N)')
  BY <1>2, <1>8 DEF Refusals
<1>9. CASE GiveUp \/ GenerateFails \/ WriteOpen \/ RunStart \/ CloseStdin \/ UNCHANGED vars
  <2>1. UNCHANGED <<hist, resp>>
    BY <1>9 DEF GiveUp, GenerateFails, WriteOpen, RunStart, CloseStdin, vars
  <2>2. Log' = Log
    BY <2>1, LogIs
  <2> QED BY <1>8, <1>9, <2>2
      DEF GiveUp, GenerateFails, WriteOpen, RunStart, CloseStdin, MayRun, terminal, vars
<1>10. ASSUME NEW reply \in Replies, Generate(reply)
       PROVE  Cardinality(Denials(Log')) = Cardinality(Refusals(N)')
  <2>1. Log' = Log
    BY <1>10, GenerateTold
  <2> QED BY <1>8, <1>10, <2>1 DEF Generate, terminal
<1>11. CASE Look \/ WriteRefused \/ WriteDone \/ WriteFails \/ RunFails \/ RunEnds
  <2>1. /\ \E kind \in {"ok", "error", "failed"} : Result(kind)
        /\ pc \in {"tool", "execute", "writing", "running"} /\ UNCHANGED <<said, asked>>
    BY <1>11 DEF Look, WriteRefused, WriteDone, WriteFails, RunFails, RunEnds, MayRun, terminal
  <2> QED BY <1>4, <2>1
<1>12. ~DenyBlind
  BY <1>1 DEF DenyBlind
<1> QED
  BY <1>5, <1>6, <1>7, <1>9, <1>10, <1>11, <1>12 DEF Next, Agent, User

\* The invariant of refusals holds at first.
LEMMA RefusalsInit == Init => RefusalsInv
<1> SUFFICES ASSUME Init PROVE RefusalsInv
  OBVIOUS
<1>1. Log = <<>> /\ asked = 0 /\ pc = "head"
  BY LogInit DEF Init
<1>2. Denials(Log) = {} /\ Refusals(0) = {}
  BY <1>1 DEF Denials, Refusals
<1> QED BY <1>1, <1>2 DEF RefusalsInv

\* When answers fit the buffer: under the prompt the model is told of as many
\* refusals as the user gave, however calls, answers and the end of stdin fall.
THEOREM EveryRefusalTold == LinesFit => (Spec => []RefusalsTold)
<1> SUFFICES ASSUME LinesFit PROVE Spec => []RefusalsTold
  OBVIOUS
<1>1. ConsentInv /\ [Next]_vars => ConsentInv'
  BY ConsentNext
<1>2. RefusalsInv /\ ConsentInv /\ HistoryInv /\ OutcomeInv /\ [Next]_vars => RefusalsInv'
  BY RefusalsNext
<1>3. RefusalsInv => RefusalsTold
  BY DEF RefusalsInv, RefusalsTold, Quantify, Denials, Refusals
<1> QED BY <1>1, <1>2, <1>3, ConsentInit, RefusalsInit, HistoryHolds, PTL DEF Spec

-----------------------------------------------------------------------------
(* Files.                                                                    *)

\* Of some places in a sequence one is the last.
LEMMA GreatestPlace ==
  ASSUME NEW n \in Nat, NEW T \in SUBSET (1..n), T # {}
  PROVE  Max(T) \in T /\ \A x \in T : x <= Max(T)
<1>1. Telling!Max(T) \in T /\ \A x \in T : x <= Telling!Max(T)
  BY Telling!MaxIn
<1> QED BY <1>1 DEF Max, Telling!Max

\* A result accounts for f if it touches f and says what f holds now, or if it
\* does not touch f and f was accounted for.
LEMMA AccountsAppend ==
  ASSUME NEW log \in Seq(ResultType), NEW r \in ResultType, NEW f, NEW v,
         \/ Touches(r, f) /\ Says(r, v)
         \/ ~Touches(r, f) /\ Accounts(log, f, v)
  PROVE  Accounts(Append(log, r), f, v)
<1> DEFINE n == Len(log)
           a == Append(log, r)
<1>1. /\ n \in Nat /\ DOMAIN log = 1..n /\ DOMAIN a = 1..(n + 1)
      /\ a[n + 1] = r /\ \A j \in 1..n : a[j] = log[j]
  OBVIOUS
<1>2. 1..(n + 1) = 1..n \cup {n + 1} /\ ~(n + 1 \in 1..n)
  BY <1>1
<1> HIDE DEF n, a
<1>3. Touching(log, f) \in SUBSET (1..n)
  BY <1>1 DEF Touching
<1>4. CASE Touches(r, f) /\ Says(r, v)
  <2>1. n + 1 \in Touching(a, f) /\ Touching(a, f) \in SUBSET (1..(n + 1))
    BY <1>1, <1>2, <1>4 DEF Touching
  <2>2. Max(Touching(a, f)) = n + 1
    <3>1. n + 1 \in Nat
      BY <1>1
    <3>2. /\ Max(Touching(a, f)) \in Touching(a, f)
          /\ \A x \in Touching(a, f) : x <= Max(Touching(a, f))
      BY <2>1, <3>1, GreatestPlace
    <3>3. Max(Touching(a, f)) \in 1..(n + 1) /\ n + 1 <= Max(Touching(a, f))
      BY <2>1, <3>2
    <3> QED BY <1>1, <3>3
  <2> QED BY <1>1, <1>4, <2>1, <2>2 DEF Accounts, a
<1>5. CASE ~Touches(r, f) /\ Accounts(log, f, v)
  <2>1. Touching(a, f) = Touching(log, f)
    BY <1>1, <1>2, <1>5 DEF Touching
  <2>2. CASE Touching(log, f) = {}
    BY <1>5, <2>1, <2>2 DEF Accounts, a
  <2>3. CASE Touching(log, f) # {}
    <3>1. Max(Touching(log, f)) \in 1..n
      BY <1>1, <1>3, <2>3, GreatestPlace
    <3>2. a[Max(Touching(log, f))] = log[Max(Touching(log, f))]
      BY <1>1, <3>1
    <3> QED BY <1>5, <2>1, <2>3, <3>2 DEF Accounts, a
  <2> QED BY <2>2, <2>3
<1> QED BY <1>4, <1>5

\* The invariant of files holds at first.
LEMMA FilesInit == Init => FilesInv
<1> SUFFICES ASSUME Init PROVE FilesInv
  OBVIOUS
<1>1. Log = <<>> /\ pc = "head" /\ files = [f \in Files |-> "absent"]
  BY LogInit DEF Init
<1>2. ASSUME NEW f \in Files PROVE Accounts(Log, f, files[f])
  <2>1. Touching(Log, f) = {}
    BY <1>1 DEF Touching
  <2> QED BY <1>1, <2>1 DEF Accounts
<1> QED BY <1>1, <1>2 DEF FilesInv

\* Every step keeps the invariant of files.
LEMMA FilesNext ==
  ASSUME FilesInv, PlainTypes, HistoryInv, OutcomeInv, [Next]_vars
  PROVE  FilesInv'
<1>1. Log \in Seq(ResultType)
  BY LogStep
\* A result: every file is touched by it, or as it was before.
<1>2. ASSUME NEW kind \in {"ok", "error", "failed", "denied"}, Result(kind),
             pc \notin {"head", "done"},
             LET r == [call |-> Call, kind |-> kind]
             IN  \A f \in Files :
                   \/ Touches(r, f) /\ Says(r, files'[f])
                   \/ ~Touches(r, f) /\ files'[f] = files[f] /\ ~(pc = "writing" /\ Call.path = f)
      PROVE  FilesInv'
  <2> DEFINE r == [call |-> Call, kind |-> kind]
  <2>1. Log' = Append(Log, r) /\ r \in ResultType
    BY <1>2, ResultTold
  <2>2. pc' \in {"tool", "head"}
    BY <1>2, ResultGoesOn
  <2> HIDE DEF r
  <2>3. ASSUME NEW f \in Files PROVE Accounts(Log', f, files'[f])
    <3>1. \/ Touches(r, f) /\ Says(r, files'[f])
          \/ ~Touches(r, f) /\ Accounts(Log, f, files'[f])
      BY <1>2 DEF FilesInv, r
    <3> QED BY <1>1, <2>1, <3>1, AccountsAppend
  <2>4. \A f \in Files : Accounts(Log, f, files[f])'
    BY <2>3 DEF Accounts, Touching, Says, Touches
  <2> QED BY <2>2, <2>4 DEF FilesInv
\* No result, and no file changes.
<1>3. ASSUME UNCHANGED <<files, Log>>, pc' \notin {"writing", "running"}, pc # "writing"
      PROVE  FilesInv'
  BY <1>3 DEF FilesInv, Accounts, Touching, Says, Touches
<1>4. CASE GiveUp \/ GenerateFails \/ Ask
  <2>1. UNCHANGED <<hist, resp, files>> /\ pc' \notin {"writing", "running"} /\ pc # "writing"
    BY <1>4 DEF GiveUp, GenerateFails, Ask
  <2> QED BY <1>3, <2>1, LogIs
<1>5. ASSUME NEW reply \in Replies, Generate(reply) PROVE FilesInv'
  <2>1. files' = files /\ pc' \notin {"writing", "running"} /\ pc # "writing"
    BY <1>5 DEF Generate
  <2> QED BY <1>3, <1>5, <2>1, GenerateTold
<1>6. CASE DenyBlind \/ WriteRefused \/ RunFails
  <2>1. /\ \E kind \in {"error", "denied"} : Result(kind)
        /\ pc \in {"tool", "execute"} /\ files' = files
    BY <1>6 DEF DenyBlind, WriteRefused, RunFails, MayRun
  <2> QED BY <1>2, <2>1 DEF Touches
<1>7. CASE Answer
  <2>1. pc = "asking" /\ files' = files
    BY <1>7 DEF Answer
  <2>2. CASE Result("denied")
    BY <1>2, <2>1, <2>2 DEF Touches
  <2>3. CASE pc' = "execute" /\ UNCHANGED <<hist, resp>>
    BY <1>3, <2>1, <2>3, LogIs
  <2> QED BY <1>7, <2>2, <2>3 DEF Answer
<1>8. CASE Look
  <2>1. /\ \E kind \in {"error", "ok"} : Result(kind)
        /\ pc \in {"tool", "execute"} /\ files' = files
        /\ Call.tool \notin {"write_file", "run_command"}
    BY <1>8 DEF Look, MayRun, NeedsConfirm
  <2> QED BY <1>2, <2>1 DEF Touches
<1>9. CASE WriteOpen
  <2>1. /\ pc' = "writing" /\ pc \in {"tool", "execute"} /\ UNCHANGED <<hist, i, resp>>
        /\ files' = [files EXCEPT ![Call.path] = "empty"]
        /\ Call.tool = "write_file" /\ Call.path # NoArg
    BY <1>9 DEF WriteOpen, MayRun
  <2>2. Call.path \in Files
    BY <2>1, Serving, CallsAssumption
  <2>3. Log' = Log /\ Call' = Call
    BY <2>1, LogIs DEF Call, Pending
  <2>4. \A f \in Files : f # Call.path => files'[f] = files[f]
    BY <2>1 DEF PlainTypes
  <2> QED BY <2>1, <2>2, <2>3, <2>4 DEF FilesInv, Accounts, Touching, Says, Touches
<1>10. CASE WriteDone
  <2>1. /\ pc = "writing" /\ files' = [files EXCEPT ![Call.path] = Call.content]
        /\ Result("ok") /\ Call.tool = "write_file" /\ Call.path \in Files
    BY <1>10 DEF WriteDone, FilesInv
  <2>2. \A f \in Files : files'[f] = IF f = Call.path THEN Call.content ELSE files[f]
    BY <2>1 DEF PlainTypes
  <2> QED BY <1>2, <2>1, <2>2 DEF Touches, Says
<1>11. CASE WriteFails
  <2>1. /\ pc = "writing" /\ Result("failed") /\ Call.tool = "write_file" /\ Call.path \in Files
        /\ \E c : files' = [files EXCEPT ![Call.path] = c]
    BY <1>11 DEF WriteFails, FilesInv
  <2>2. \A f \in Files : f # Call.path => files'[f] = files[f]
    BY <2>1 DEF PlainTypes
  <2> QED BY <1>2, <2>1, <2>2 DEF Touches, Says
<1>12. CASE RunStart
  <2>1. /\ pc' = "running" /\ pc \in {"tool", "execute"} /\ UNCHANGED <<hist, i, resp, files>>
        /\ Call.tool = "run_command"
    BY <1>12 DEF RunStart, MayRun
  <2>2. Log' = Log /\ Call' = Call
    BY <2>1, LogIs DEF Call, Pending
  <2> QED BY <2>1, <2>2 DEF FilesInv, Accounts, Touching, Says, Touches
<1>13. CASE RunEnds
  <2>1. pc = "running" /\ Result("ok") /\ Call.tool = "run_command"
    BY <1>13 DEF RunEnds, FilesInv
  <2> QED BY <1>2, <2>1 DEF Touches, Says
<1>14. CASE User \/ UNCHANGED vars
  <2>1. UNCHANGED <<pc, hist, i, resp, files>>
    BY <1>14 DEF User, TypeLine, CloseStdin, vars
  <2>2. Log' = Log /\ Call' = Call
    BY <2>1, LogIs DEF Call, Pending
  <2> QED BY <2>1, <2>2 DEF FilesInv, Accounts, Touching, Says, Touches
<1> QED
  BY <1>4, <1>5, <1>6, <1>7, <1>8, <1>9, <1>10, <1>11, <1>12, <1>13, <1>14 DEF Next, Agent

\* What the model was told accounts for every file at every point, for any calls,
\* short writes and commands.
THEOREM FilesAreAccountedFor == Spec => []FilesAccounted
<1>1. PlainTypes /\ HistoryInv /\ OutcomeInv /\ [Next]_vars => PlainTypes'
  BY PlainNext
<1>2. FilesInv /\ PlainTypes /\ HistoryInv /\ OutcomeInv /\ [Next]_vars => FilesInv'
  BY FilesNext
<1>3. FilesInv => FilesAccounted
  BY DEF FilesInv, FilesAccounted, Accounts, Touching, Touches, Says
<1> QED BY <1>1, <1>2, <1>3, PlainInit, FilesInit, HistoryHolds, PTL DEF Spec

-----------------------------------------------------------------------------
(* The command that a call runs, for every cap, chunk, pipe and output.      *)

\* The inductive invariant: nothing is lost between the command and b until the
\* cap is passed, and the agent stops reading only at the end of the output.
RunInv ==
  /\ CommandTypes
  /\ ~truncated => written = pipe + got + kept
  /\ truncated => kept = Cap /\ written > Cap
  /\ at = "read" => ~truncated
  /\ at = "drain" => truncated
  /\ at \in {"pclose", "wait", "done"} => pipe = 0 /\ got = 0 /\ ~open
  /\ shell # SigPipe
  /\ at = "done" => code = shell /\ shell # "running"

LEMMA RunInit == CommandInit => RunInv
<1> SUFFICES ASSUME CommandInit PROVE RunInv
  OBVIOUS
<1> USE SizesAssumption, StatusAssumption
<1>1. CommandTypes
  <2>1. /\ written \in 0..MaxOut /\ pipe \in 0..PipeSize
        /\ got \in 0..Chunk /\ kept \in 0..Cap
    BY DEF CommandInit
  <2>2. /\ open \in BOOLEAN /\ truncated \in BOOLEAN
        /\ at \in {"read", "drain", "pclose", "wait", "done"}
    BY DEF CommandInit
  <2>3. /\ shell \in Statuses \cup {"running", SigPipe}
        /\ code \in Statuses \cup {"running", SigPipe}
    BY DEF CommandInit
  <2> QED BY <2>1, <2>2, <2>3 DEF CommandTypes
<1>2. shell # SigPipe
  BY DEF CommandInit
<1>3. /\ pipe = 0 /\ got = 0 /\ kept = 0 /\ written = 0 /\ at = "read"
      /\ truncated = FALSE
  BY DEF CommandInit
<1> QED BY <1>1, <1>2, <1>3 DEF RunInv

LEMMA RunNext == RunInv /\ [CommandNext]_commandVars => RunInv'
<1> SUFFICES ASSUME RunInv, [CommandNext]_commandVars PROVE RunInv'
  OBVIOUS
<1> USE SizesAssumption, StatusAssumption
<1>1. ASSUME NEW j \in 1..PipeSize, Write(j) PROVE RunInv'
  <2>1. CASE at \in {"wait", "done"}
    BY <1>1, <2>1 DEF Write, RunInv
  <2>2. CASE at \notin {"wait", "done"}
    <3>1. /\ written' = written + j /\ pipe' = pipe + j
          /\ written + j <= MaxOut /\ pipe + j <= PipeSize
          /\ open /\ UNCHANGED <<open, shell, at, got, kept, truncated, code>>
      BY <1>1, <2>2 DEF Write, reader
    <3> QED BY <2>2, <3>1 DEF RunInv, CommandTypes
  <2> QED BY <2>1, <2>2
<1>2. CASE CloseOutput
  BY <1>2 DEF CloseOutput, reader, RunInv, CommandTypes
<1>3. ASSUME NEW s \in Statuses, ShellEnds(s) PROVE RunInv'
  BY <1>3 DEF ShellEnds, reader, RunInv, CommandTypes
<1>4. CASE Gather
  <2> DEFINE now == IF pipe < Chunk - got THEN pipe ELSE Chunk - got
  <2>1. now \in Nat /\ now <= pipe /\ got + now <= Chunk
    BY <1>4 DEF Gather, RunInv, CommandTypes
  <2>2. got' = got + now /\ pipe' = pipe - now
    BY <1>4 DEF Gather
  <2> HIDE DEF now
  <2> QED BY <1>4, <2>1, <2>2 DEF Gather, writer, RunInv, CommandTypes
<1>5. CASE Keep
  BY <1>5 DEF Keep, writer, RunInv, CommandTypes
<1>6. CASE Truncate
  BY <1>6 DEF Truncate, writer, RunInv, CommandTypes
<1>7. CASE Drain
  BY <1>7 DEF Drain, writer, RunInv, CommandTypes
<1>8. CASE EndOfOutput
  BY <1>8 DEF EndOfOutput, FreadEnds, writer, RunInv, CommandTypes
<1>9. CASE Pclose
  BY <1>9 DEF Pclose, writer, RunInv, CommandTypes
<1>10. CASE Wait
  BY <1>10 DEF Wait, writer, RunInv, CommandTypes
<1>11. CASE UNCHANGED commandVars
  BY <1>11 DEF commandVars, RunInv, CommandTypes
<1> QED
  BY <1>1, <1>2, <1>3, <1>4, <1>5, <1>6, <1>7, <1>8, <1>9, <1>10, <1>11
  DEF CommandNext, Reader

\* The inductive invariant holds of every command, whatever it writes and whenever
\* its shell ends.
THEOREM RunInvariant == CommandSpec => []RunInv
<1> QED BY RunInit, RunNext, PTL DEF CommandSpec

\* Counts, the pipe and the text kept stay in their ranges: nothing is ever
\* written past the pipe's or the buffer's end.
THEOREM RunTypes == CommandSpec => []CommandTypes
<1>1. RunInv => CommandTypes
  BY DEF RunInv
<1> QED BY <1>1, RunInvariant, PTL

\* Whatever the sizes, the model sees all of an output that fits and exactly the
\* cap's worth of one that does not.
THEOREM CapIsExact == CommandSpec => []OutputCapped
<1>1. RunInv => OutputCapped
  BY SizesAssumption DEF RunInv, CommandTypes, OutputCapped
<1> QED BY <1>1, RunInvariant, PTL

\* The agent never kills the command it runs by closing the pipe, and reports
\* the status with which the shell ended.
THEOREM StatusIsOwn == CommandSpec => []ExitReported
<1>1. RunInv => ExitReported
  BY DEF RunInv, ExitReported
<1> QED BY <1>1, RunInvariant, PTL
===============================================================================
