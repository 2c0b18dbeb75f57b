------------------------- MODULE OrnithServerProofs --------------------------
(***************************************************************************)
(* Proofs about OrnithServer, for any number of connections, requests,     *)
(* descriptors and signals: type correctness, mutual exclusion in the      *)
(* engine, ownership of file descriptors, ids, finish reasons and whole    *)
(* answers; and, for every text, about its tool-call scanners.             *)
(***************************************************************************)
EXTENDS OrnithServer, ReplyText, SequenceTheorems, TLAPS

LEMMA UpdateType ==
  ASSUME NEW S, NEW T, NEW f \in [S -> T], NEW s \in S, NEW v \in T
  PROVE  [f EXCEPT ![s] = v] \in [S -> T]
  OBVIOUS

LEMMA TypeInit == Init => TypeOK
  <1> SUFFICES ASSUME Init PROVE TypeOK
    OBVIOUS
  <1>1. /\ ListenFd \in 1..NFds /\ <<>> \in Seq(Conns) /\ <<>> \in Seq(Items)
    BY BoundsAssumption DEF ListenFd
  <1>2. MainType /\ KernelType /\ WorkerType
    BY <1>1, BoundsAssumption DEF Init, MainType, KernelType, WorkerType, Pcs
  <1>3. ReplyType
    <2>1. /\ sock \in [Conns -> {"ok", "gone"}]
          /\ out \in [Conns -> Seq(Items)]
          /\ timeouts \in [Conns -> Nat]
      BY <1>1 DEF Init
    <2>2. status \in [Conns -> Statuses] /\ told \in [Conns -> Reasons]
      BY DEF Init, Statuses, Reasons
    <2> QED
      BY <2>1, <2>2 DEF ReplyType
  <1>4. failed \in [Conns -> BOOLEAN]
    BY Zenon DEF Init
  <1>5. GenType /\ IdType
    BY <1>4, BoundsAssumption DEF Init, GenType, IdType
  <1> QED
    BY <1>2, <1>3, <1>5 DEF TypeOK

\* A part of the state that a step leaves alone keeps its type.
LEMMA TypeUnchanged ==
  /\ MainType /\ UNCHANGED mainVars => MainType'
  /\ KernelType /\ UNCHANGED kernelVars => KernelType'
  /\ WorkerType /\ UNCHANGED <<wpc, req>> => WorkerType'
  /\ ReplyType /\ UNCHANGED replyVars => ReplyType'
  /\ GenType /\ UNCHANGED genVars => GenType'
  /\ IdType /\ UNCHANGED idVars => IdType'
  <1>1. MainType /\ UNCHANGED mainVars => MainType'
    BY DEF MainType, mainVars
  <1>2. KernelType /\ UNCHANGED kernelVars => KernelType'
    BY DEF KernelType, kernelVars
  <1>3. WorkerType /\ UNCHANGED <<wpc, req>> => WorkerType'
    BY DEF WorkerType
  <1>4. ReplyType /\ UNCHANGED replyVars => ReplyType'
    BY DEF ReplyType, replyVars
  <1>5. GenType /\ UNCHANGED genVars => GenType'
    BY DEF GenType, genVars
  <1>6. IdType /\ UNCHANGED idVars => IdType'
    BY DEF IdType, idVars
  <1> QED
    BY <1>1, <1>2, <1>3, <1>4, <1>5, <1>6

\* A worker's program counter stays in Pcs.
LEMMA GotoType ==
  ASSUME WorkerType, NEW c \in Conns, NEW from, NEW to \in Pcs,
         Goto(c, from, to), UNCHANGED req
  PROVE  WorkerType'
  BY DEF Goto, WorkerType

\* What write_all may do to the variables it touches.
LEMMA WriteAllType ==
  ASSUME ReplyType, NEW c \in Conns, NEW item \in Items, WriteAll(c, item)
  PROVE  /\ sock' \in [Conns -> {"ok", "gone"}]
         /\ out' \in [Conns -> Seq(Items)]
         /\ timeouts' \in [Conns -> Nat]
  <1>1. out[c] \in Seq(Items) /\ timeouts[c] \in Nat /\ "torn" \in Items
    BY DEF ReplyType, Items
  <1>2. /\ Append(out[c], item) \in Seq(Items)
        /\ Append(out[c], "torn") \in Seq(Items)
    BY <1>1
  <1>3. /\ timeouts' \in [Conns -> Nat]
        /\ sock' \in [Conns -> {"ok", "gone"}]
    <2>1. timeouts \in [Conns -> Nat] /\ sock \in [Conns -> {"ok", "gone"}]
      BY DEF ReplyType
    <2>2. /\ timeouts' = timeouts \/ timeouts' = [timeouts EXCEPT ![c] = timeouts[c] + 1]
          /\ sock' = sock \/ sock' = [sock EXCEPT ![c] = "gone"]
      BY DEF WriteAll
    <2> QED
      BY <1>1, <2>1, <2>2
  <1>4. /\ [out EXCEPT ![c] = Append(out[c], item)] \in [Conns -> Seq(Items)]
        /\ [out EXCEPT ![c] = Append(out[c], "torn")] \in [Conns -> Seq(Items)]
    BY <1>2, UpdateType DEF ReplyType
  <1>5. \/ out' = [out EXCEPT ![c] = Append(out[c], item)]
        \/ out' = [out EXCEPT ![c] = Append(out[c], "torn")]
        \/ out' = out
    BY DEF WriteAll
  <1> QED
    BY <1>3, <1>4, <1>5 DEF ReplyType

\* The id counter and the ids made from it keep their types.
LEMMA TakeIdType ==
  ASSUME IdType, NEW c \in Conns, NEW prefix \in {"reply", "call"}, TakeId(c, prefix)
  PROVE  /\ reqCounter' \in Nat
         /\ ids' \in [Conns -> SUBSET ({"reply", "call"} \X (0..(IdMod - 1)))]
  <1>1. reqCounter' \in Nat /\ reqCounter % IdMod \in 0..(IdMod - 1)
    BY BoundsAssumption DEF IdType, TakeId
  <1>2. ids[c] \cup {<<prefix, reqCounter % IdMod>>}
           \in SUBSET ({"reply", "call"} \X (0..(IdMod - 1)))
    <2>1. ids[c] \subseteq ({"reply", "call"} \X (0..(IdMod - 1)))
      BY DEF IdType
    <2>2. <<prefix, reqCounter % IdMod>> \in {"reply", "call"} \X (0..(IdMod - 1))
      BY <1>1
    <2> QED
      BY <2>1, <2>2
  <1> QED
    BY <1>1, <1>2 DEF IdType, TakeId

\* The reason a client may be told.
LEMMA ReasonType ==
  ASSUME GenType, NEW c \in Conns, NEW tooled \in BOOLEAN
  PROVE  Reason(c, tooled) \in Reasons
  BY DEF GenType, Reason, Reasons

LEMMA TypeStep == TypeOK /\ [Next]_vars => TypeOK'
  <1> SUFFICES ASSUME TypeOK, [Next]_vars PROVE TypeOK'
    OBVIOUS
  <1> USE BoundsAssumption
  <1>1. CASE TestStop
    <2>1. MainType'
      BY <1>1 DEF TestStop, TypeOK, MainType
    <2> QED
      BY <2>1, <1>1, TypeUnchanged DEF TestStop, TypeOK
  <1>2. CASE AcceptEnter
    <2>1. MainType'
      BY <1>2 DEF AcceptEnter, TypeOK, MainType
    <2>2. KernelType'
      BY <1>2 DEF AcceptEnter, TypeOK, KernelType
    <2> QED
      BY <2>1, <2>2, <1>2, TypeUnchanged DEF AcceptEnter, TypeOK
  <1>3. CASE AcceptFails
    <2>1. MainType'
      BY <1>3 DEF AcceptFails, TypeOK, MainType
    <2> QED
      BY <2>1, <1>3, TypeUnchanged DEF AcceptFails, TypeOK
  <1>4. CASE AcceptReturn
    <2>1. MainType'
      BY <1>4 DEF AcceptReturn, TypeOK, MainType, KernelType
    <2>2. KernelType'
      <3>1. /\ queue \in Seq(Conns) /\ queue # <<>>
            /\ fdTable \in [1..NFds -> Conns \cup {Main, Listener, Free}]
            /\ connFd \in [Conns -> 1..NFds] /\ mainFd \in 1..NFds
        BY <1>4 DEF AcceptReturn, TypeOK, KernelType, MainType
      <3>2. Head(queue) \in Conns /\ Tail(queue) \in Seq(Conns) /\ <<>> \in Seq(Conns)
        BY <3>1
      <3>3. queue' = Tail(queue) \/ queue' = <<>>
        BY <1>4 DEF AcceptReturn
      <3>4. /\ connFd' = [connFd EXCEPT ![Head(queue)] = mainFd]
            /\ fdTable' = [fdTable EXCEPT ![mainFd] = Head(queue)]
        BY <1>4 DEF AcceptReturn
      <3> QED
        BY <3>1, <3>2, <3>3, <3>4 DEF KernelType
    <2>3. WorkerType'
      BY <1>4 DEF AcceptReturn, TypeOK, WorkerType, Reset, Pcs, KernelType
    <2> QED
      BY <2>1, <2>2, <2>3, <1>4, TypeUnchanged DEF AcceptReturn, TypeOK
  <1>5. CASE Spawn
    <2>1. MainType'
      BY <1>5 DEF Spawn, TypeOK, MainType
    <2>2. WorkerType'
      BY <1>5 DEF Spawn, TypeOK, WorkerType, Pcs
    <2> QED
      BY <2>1, <2>2, <1>5, TypeUnchanged DEF Spawn, TypeOK
  <1>6. CASE SpawnFails
    <2>1. MainType'
      BY <1>6 DEF SpawnFails, TypeOK, MainType
    <2>2. KernelType'
      BY <1>6 DEF SpawnFails, TypeOK, KernelType
    <2>3. WorkerType'
      BY <1>6 DEF SpawnFails, TypeOK, WorkerType, Pcs
    <2> QED
      BY <2>1, <2>2, <2>3, <1>6, TypeUnchanged DEF SpawnFails, TypeOK
  <1>7. CASE CloseListener
    <2>1. MainType'
      BY <1>7 DEF CloseListener, TypeOK, MainType
    <2>2. KernelType'
      BY <1>7 DEF CloseListener, TypeOK, KernelType
    <2> QED
      BY <2>1, <2>2, <1>7, TypeUnchanged DEF CloseListener, TypeOK
  <1>8. CASE FreeModel
    <2>1. MainType'
      BY <1>8 DEF FreeModel, TypeOK, MainType
    <2> QED
      BY <2>1, <1>8, TypeUnchanged DEF FreeModel, TypeOK
  <1>9. CASE Exit
    <2>1. MainType'
      BY <1>9 DEF Exit, TypeOK, MainType
    <2> QED
      BY <2>1, <1>9, TypeUnchanged DEF Exit, TypeOK
  <1>10. ASSUME NEW t \in SignalThreads, OnSignal(t) PROVE TypeOK'
    <2>1. MainType'
      BY <1>10 DEF OnSignal, TypeOK, MainType
    <2>2. KernelType'
      <3>1. /\ queue \in Seq(Conns) /\ <<>> \in Seq(Conns)
            /\ fdTable \in [1..NFds -> Conns \cup {Main, Listener, Free}]
            /\ connFd \in [Conns -> 1..NFds]
        BY DEF TypeOK, KernelType
      <3>2. (queue' = queue \/ queue' = <<>>) /\ connFd' = connFd
        BY <1>10 DEF OnSignal
      <3>3. fdTable' \in [1..NFds -> Conns \cup {Main, Listener, Free}]
        BY <1>10, <3>1 DEF OnSignal
      <3> QED
        BY <3>1, <3>2, <3>3 DEF KernelType
    <2>3. WorkerType'
      BY <1>10 DEF OnSignal, TypeOK, WorkerType, Reset, Pcs
    <2> QED
      BY <2>1, <2>2, <2>3, <1>10, TypeUnchanged DEF OnSignal, TypeOK
  <1>11. ASSUME NEW c \in Conns, WorkerStep(c) PROVE TypeOK'
    <2>1. CASE ReadRequest(c)
      <3>1. WorkerType'
        BY <2>1, GotoType DEF ReadRequest, Respond, Pcs, TypeOK
      <3> QED
        BY <3>1, <2>1, TypeUnchanged DEF ReadRequest, TypeOK
    <2>2. CASE Route(c)
      <3>1. WorkerType'
        BY <2>2, GotoType DEF Route, Respond, Pcs, TypeOK
      <3>2. ReplyType'
        BY <2>2 DEF Route, TypeOK, ReplyType, Respond, Statuses
      <3> QED
        BY <3>1, <3>2, <2>2, TypeUnchanged DEF Route, TypeOK
    <2>3. CASE Render(c)
      <3>1. WorkerType'
        BY <2>3, GotoType DEF Render, Respond, Pcs, TypeOK
      <3>2. ReplyType'
        BY <2>3 DEF Render, TypeOK, ReplyType, Respond, Statuses
      <3> QED
        BY <3>1, <3>2, <2>3, TypeUnchanged DEF Render, TypeOK
    <2>4. CASE MakeId(c)
      <3>1. WorkerType'
        BY <2>4, GotoType DEF MakeId, Respond, Pcs, TypeOK
      <3>2. IdType'
        BY <2>4, TakeIdType DEF MakeId, TypeOK, IdType
      <3> QED
        BY <3>1, <3>2, <2>4, TypeUnchanged DEF MakeId, TypeOK
    <2>5. CASE SendSseHeaders(c)
      <3>1. WorkerType'
        BY <2>5, GotoType DEF SendSseHeaders, Respond, Pcs, TypeOK
      <3>2. ReplyType'
        BY <2>5, WriteAllType DEF SendSseHeaders, TypeOK, ReplyType, Items, Statuses
      <3> QED
        BY <3>1, <3>2, <2>5, TypeUnchanged DEF SendSseHeaders, TypeOK
    <2>6. CASE SendOpening(c)
      <3>1. WorkerType'
        BY <2>6, GotoType DEF SendOpening, Respond, Pcs, TypeOK
      <3>2. ReplyType'
        BY <2>6, WriteAllType DEF SendOpening, TypeOK, ReplyType, Items, Statuses
      <3> QED
        BY <3>1, <3>2, <2>6, TypeUnchanged DEF SendOpening, TypeOK
    <2>7. CASE LockGen(c)
      <3>1. WorkerType'
        BY <2>7, GotoType DEF LockGen, Respond, Pcs, TypeOK
      <3>2. GenType'
        BY <2>7 DEF LockGen, TypeOK, GenType
      <3> QED
        BY <3>1, <3>2, <2>7, TypeUnchanged DEF LockGen, TypeOK
    <2>8. CASE Prefill(c)
      <3>1. WorkerType'
        BY <2>8, GotoType DEF Prefill, Respond, Pcs, TypeOK
      <3>2. GenType'
        BY <2>8 DEF Prefill, TypeOK, GenType
      <3> QED
        BY <3>1, <3>2, <2>8, TypeUnchanged DEF Prefill, TypeOK
    <2>9. CASE DecodeToken(c)
      <3>1. WorkerType'
        BY <2>9, GotoType DEF DecodeToken, Respond, Pcs, TypeOK
      <3>2. ReplyType'
        BY <2>9, WriteAllType DEF DecodeToken, TypeOK, ReplyType, Items, Statuses, replyVars
      <3>3. GenType'
        BY <2>9 DEF DecodeToken, TypeOK, GenType
      <3> QED
        BY <3>1, <3>2, <3>3, <2>9, TypeUnchanged DEF DecodeToken, TypeOK
    <2>10. CASE DecodeEnd(c)
      <3>1. WorkerType'
        BY <2>10, GotoType DEF DecodeEnd, Respond, Pcs, TypeOK
      <3>2. GenType'
        BY <2>10 DEF DecodeEnd, TypeOK, GenType
      <3> QED
        BY <3>1, <3>2, <2>10, TypeUnchanged DEF DecodeEnd, TypeOK
    <2>11. CASE UnlockGen(c)
      <3>1. WorkerType'
        BY <2>11, GotoType DEF UnlockGen, Respond, Pcs, TypeOK
      <3>2. GenType'
        BY <2>11 DEF UnlockGen, TypeOK, GenType
      <3>3. ReplyType'
        BY <2>11 DEF UnlockGen, TypeOK, ReplyType, Respond, Statuses
      <3> QED
        BY <3>1, <3>2, <3>3, <2>11, TypeUnchanged DEF UnlockGen, TypeOK
    <2>12. CASE SendClosing(c)
      <3>1. WorkerType'
        BY <2>12, GotoType DEF SendClosing, Respond, Pcs, TypeOK
      <3>2. ReplyType'
        BY <2>12, WriteAllType, ReasonType DEF SendClosing, TypeOK, ReplyType, Items, Statuses
      <3> QED
        BY <3>1, <3>2, <2>12, TypeUnchanged DEF SendClosing, TypeOK
    <2>13. CASE Format(c)
      <3>1. WorkerType'
        BY <2>13, GotoType DEF Format, Respond, Pcs, TypeOK
      <3>2. ReplyType'
        BY <2>13, ReasonType DEF Format, TypeOK, ReplyType, Respond, Statuses
      <3>3. IdType'
        BY <2>13 DEF Format, TypeOK, IdType
      <3> QED
        BY <3>1, <3>2, <3>3, <2>13, TypeUnchanged DEF Format, TypeOK
    <2>14. CASE MakeToolId(c)
      <3>1. WorkerType'
        BY <2>14, GotoType DEF MakeToolId, Respond, Pcs, TypeOK
      <3>2. ReplyType'
        BY <2>14 DEF MakeToolId, TypeOK, ReplyType, Respond, Statuses
      <3>3. IdType'
        BY <2>14, TakeIdType DEF MakeToolId, TypeOK, IdType
      <3> QED
        BY <3>1, <3>2, <3>3, <2>14, TypeUnchanged DEF MakeToolId, TypeOK
    <2>15. CASE SendHead(c)
      <3>1. WorkerType'
        BY <2>15, GotoType DEF SendHead, Respond, Pcs, TypeOK
      <3>2. ReplyType'
        BY <2>15, WriteAllType DEF SendHead, TypeOK, ReplyType, Items, Statuses
      <3> QED
        BY <3>1, <3>2, <2>15, TypeUnchanged DEF SendHead, TypeOK
    <2>16. CASE SendBody(c)
      <3>1. WorkerType'
        BY <2>16, GotoType DEF SendBody, Respond, Pcs, TypeOK
      <3>2. ReplyType'
        BY <2>16, WriteAllType DEF SendBody, TypeOK, ReplyType, Items, Statuses
      <3> QED
        BY <3>1, <3>2, <2>16, TypeUnchanged DEF SendBody, TypeOK
    <2>17. CASE CloseConn(c)
      <3>1. WorkerType'
        BY <2>17, GotoType DEF CloseConn, Respond, Pcs, TypeOK
      <3>2. KernelType'
        BY <2>17 DEF CloseConn, TypeOK, KernelType
      <3> QED
        BY <3>1, <3>2, <2>17, TypeUnchanged DEF CloseConn, TypeOK
    <2> QED
      BY <1>11, <2>1, <2>2, <2>3, <2>4, <2>5, <2>6, <2>7, <2>8, <2>9, <2>10, <2>11, <2>12, <2>13, <2>14, <2>15, <2>16, <2>17 DEF WorkerStep
  <1>12. ASSUME NEW c \in Conns, Connect(c) PROVE TypeOK'
    <2>1. KernelType'
      BY <1>12 DEF Connect, TypeOK, KernelType, ListenerOpen
    <2>2. WorkerType'
      BY <1>12 DEF Connect, TypeOK, WorkerType, Pcs
    <2> QED
      BY <2>1, <2>2, <1>12, TypeUnchanged DEF Connect, TypeOK
  <1>13. ASSUME NEW c \in Conns, UseFreedModel(c) PROVE TypeOK'
    <2>1. MainType'
      BY <1>13 DEF UseFreedModel, TypeOK, MainType
    <2> QED
      BY <2>1, <1>13, TypeUnchanged DEF UseFreedModel, TypeOK
  <1>14. CASE UNCHANGED vars
    BY <1>14, TypeUnchanged DEF TypeOK, vars
  <1> QED
    BY <1>1, <1>2, <1>3, <1>4, <1>5, <1>6, <1>7, <1>8, <1>9, <1>10, <1>11, <1>12, <1>13, <1>14 DEF Next, MainStep

\* Every variable of the server keeps its type.
THEOREM TypeCorrect == Spec => []TypeOK
  BY TypeInit, TypeStep, PTL DEF Spec

-----------------------------------------------------------------------------
(* The hand-over of a connection from the kernel's queue through accept() to *)
(* its worker: the strengthening that makes GenExclusive and FdOwnership     *)
(* inductive.                                                                *)

\* The queue holds waiting connections, each once.
QueueInv == /\ \A i \in 1..Len(queue) : wpc[queue[i]] = "queued"
            /\ \A i, j \in 1..Len(queue) : queue[i] = queue[j] => i = j

\* Between accept() and pthread_create the connection is main's.
SpawnInv == /\ main = "spawn" => mainConn \in Conns /\ wpc[mainConn] = "accepted"
            /\ \A c \in Conns : wpc[c] = "accepted" =>
                  mainConn = c /\ main \in {"spawn", "exited"}

\* The listener's number is never given to anyone else.
ListenerInv == /\ fdTable[ListenFd] \in {Listener, Free}
               /\ main = "blocked" => fdTable[mainFd] = Main

HandoffInv == TypeOK /\ QueueInv /\ SpawnInv

FdInv == HandoffInv /\ ListenerInv /\ FdOwnership

\* What a step of c's worker may do to the rest of the server: it moves its own
\* program counter, frees its own descriptor when it ends, and takes and gives
\* back the engine at the two steps that do.
WorkerMove(c, to) ==
  /\ Alive /\ Running(c) /\ to \in Pcs
  /\ UNCHANGED <<mainVars, queue, connFd, req>>
  /\ wpc' = [wpc EXCEPT ![c] = to]
  /\ \/ to \in OpenPcs \cup EngineSection \cup AnswerPcs /\ UNCHANGED fdTable
     \/ to = "closed" /\ fdTable' = [fdTable EXCEPT ![connFd[c]] = Free]
  /\ \/ (wpc[c] \in EngineSection <=> to \in EngineSection) /\ UNCHANGED holder
     \/ wpc[c] = "lock" /\ to = "prefill" /\ holder = NoConn /\ holder' = c
     \/ wpc[c] = "unlock" /\ to \notin EngineSection /\ holder' = NoConn

LEMMA WorkerFrame ==
  ASSUME TypeOK, NEW c \in Conns, WorkerStep(c)
  PROVE  \E to \in Pcs : WorkerMove(c, to)
  <1> USE DEF WorkerMove, Running, Goto, Respond, Pcs, OpenPcs, EngineSection, AnswerPcs,
              kernelVars, genVars
  <1>1. ReadRequest(c) => WorkerMove(c, "route") \/ WorkerMove(c, "close")
    BY DEF ReadRequest
  <1>2. Route(c) => WorkerMove(c, "head") \/ WorkerMove(c, "render")
    BY DEF Route
  <1>3. Render(c) => WorkerMove(c, "head") \/ WorkerMove(c, "id")
    BY DEF Render
  <1>4. MakeId(c) => WorkerMove(c, "sse") \/ WorkerMove(c, "lock")
    BY DEF MakeId
  <1>5. SendSseHeaders(c) => WorkerMove(c, "open")
    BY DEF SendSseHeaders
  <1>6. SendOpening(c) => WorkerMove(c, "lock")
    BY DEF SendOpening
  <1>7. LockGen(c) => WorkerMove(c, "prefill")
    BY DEF LockGen
  <1>8. Prefill(c) => WorkerMove(c, "decode") \/ WorkerMove(c, "unlock")
    BY DEF Prefill
  <1>9. DecodeToken(c) => WorkerMove(c, "decode")
    BY DEF DecodeToken
  <1>10. DecodeEnd(c) => WorkerMove(c, "unlock")
    BY DEF DecodeEnd
  <1>11. UnlockGen(c) => WorkerMove(c, "closing") \/ WorkerMove(c, "head") \/ WorkerMove(c, "format")
    BY DEF UnlockGen
  <1>12. SendClosing(c) => WorkerMove(c, "close")
    BY DEF SendClosing
  <1>13. Format(c) => WorkerMove(c, "toolid") \/ WorkerMove(c, "head")
    BY DEF Format
  <1>14. MakeToolId(c) => WorkerMove(c, "toolid") \/ WorkerMove(c, "head")
    BY DEF MakeToolId
  <1>15. SendHead(c) => WorkerMove(c, "body")
    BY DEF SendHead
  <1>16. SendBody(c) => WorkerMove(c, "close")
    BY DEF SendBody
  <1>17. CloseConn(c) => WorkerMove(c, "closed")
    BY DEF CloseConn
  <1> QED
    BY <1>1, <1>2, <1>3, <1>4, <1>5, <1>6, <1>7, <1>8, <1>9, <1>10, <1>11, <1>12, <1>13, <1>14, <1>15, <1>16, <1>17 DEF WorkerStep

LEMMA HandoffInit == Init => HandoffInv
  BY TypeInit DEF Init, HandoffInv, QueueInv, SpawnInv

LEMMA HandoffStep == HandoffInv /\ [Next]_vars => HandoffInv'
  <1> SUFFICES ASSUME HandoffInv, [Next]_vars PROVE HandoffInv'
    OBVIOUS
  <1>0. TypeOK'
    BY TypeStep DEF HandoffInv
  <1> SUFFICES QueueInv' /\ SpawnInv'
    BY <1>0 DEF HandoffInv
  <1>t. /\ queue \in Seq(Conns) /\ wpc \in [Conns -> Pcs] /\ mainConn \in Conns \cup {NoConn}
    BY DEF HandoffInv, TypeOK, KernelType, WorkerType, MainType
  <1> USE DEF HandoffInv
  <1>1. CASE UNCHANGED <<wpc, queue, mainConn>> /\
             (\/ main' \in {main, "exited"}
              \/ main' # "spawn" /\ main \notin {"spawn", "exited"})
    BY <1>1, <1>t DEF QueueInv, SpawnInv
  <1>2. CASE AcceptReturn
    <2> DEFINE c == Head(queue)
    <2>1. /\ c \in Conns /\ c = queue[1] /\ wpc[c] = "queued"
          /\ \A k \in 1..Len(Tail(queue)) :
                Tail(queue)[k] = queue[k + 1] /\ k + 1 \in 1..Len(queue)
      BY <1>2, <1>t DEF AcceptReturn, QueueInv
    <2>2. /\ main = "blocked" /\ main' = "spawn" /\ mainConn' = c
          /\ \/ /\ wpc' = [wpc EXCEPT ![c] = "accepted"]
                /\ queue' = Tail(queue)
             \/ /\ wpc' = Reset([wpc EXCEPT ![c] = "accepted"], Conns)
                /\ queue' = <<>>
      BY <1>2 DEF AcceptReturn
    <2>3. SpawnInv'
      BY <2>1, <2>2, <1>t DEF SpawnInv, Reset
    <2>4. QueueInv'
      <3>1. CASE queue' = <<>>
        BY <3>1 DEF QueueInv
      <3>2. CASE wpc' = [wpc EXCEPT ![c] = "accepted"] /\ queue' = Tail(queue)
        <4>1. \A k \in 1..Len(queue') : queue'[k] # c /\ queue'[k] \in Conns
          BY <3>2, <2>1, <1>t DEF QueueInv
        <4> QED
          BY <3>2, <2>1, <4>1, <1>t DEF QueueInv
      <3> QED
        BY <3>1, <3>2, <2>2
    <2> QED
      BY <2>3, <2>4
  <1>3. CASE Spawn \/ SpawnFails
    <2>1. /\ main = "spawn" /\ main' = "test" /\ UNCHANGED queue
          /\ mainConn \in Conns /\ wpc[mainConn] = "accepted"
          /\ \E to \in {"read", "closed"} : wpc' = [wpc EXCEPT ![mainConn] = to]
      BY <1>3 DEF Spawn, SpawnFails, kernelVars, SpawnInv
    <2>2. \A k \in 1..Len(queue) : queue[k] \in Conns /\ queue[k] # mainConn
      BY <2>1, <1>t DEF QueueInv
    <2> QED
      BY <2>1, <2>2, <1>t DEF QueueInv, SpawnInv
  <1>4. ASSUME NEW t \in SignalThreads, OnSignal(t) PROVE QueueInv' /\ SpawnInv'
    <2>1. /\ UNCHANGED mainConn
          /\ \/ main' \in {main, "exited"}
             \/ main = "blocked" /\ main' = "accept"
      BY <1>4 DEF OnSignal
    <2>2. CASE UNCHANGED <<queue, wpc>>
      BY <2>1, <2>2, <1>t DEF QueueInv, SpawnInv
    <2>3. CASE queue' = <<>> /\ wpc' = Reset(wpc, Conns)
      BY <2>1, <2>3, <1>t DEF QueueInv, SpawnInv, Reset
    <2> QED
      BY <1>4, <2>2, <2>3 DEF OnSignal
  <1>5. ASSUME NEW c \in Conns, WorkerStep(c) PROVE QueueInv' /\ SpawnInv'
    <2>1. PICK to \in Pcs : WorkerMove(c, to)
      BY <1>5, WorkerFrame
    <2>2. /\ UNCHANGED <<main, mainConn, queue>> /\ wpc' = [wpc EXCEPT ![c] = to]
          /\ wpc[c] # "queued" /\ wpc[c] # "accepted" /\ to # "accepted"
      BY <2>1 DEF WorkerMove, mainVars, Running, OpenPcs, EngineSection, AnswerPcs
    <2>3. \A k \in 1..Len(queue) : queue[k] \in Conns /\ queue[k] # c
      BY <2>2, <1>t DEF QueueInv
    <2> QED
      BY <2>2, <2>3, <1>t DEF QueueInv, SpawnInv
  <1>6. ASSUME NEW c \in Conns, Connect(c) PROVE QueueInv' /\ SpawnInv'
    <2>1. /\ UNCHANGED <<main, mainConn>> /\ wpc[c] = "none"
          /\ queue' = Append(queue, c) /\ wpc' = [wpc EXCEPT ![c] = "queued"]
      BY <1>6 DEF Connect, mainVars
    <2>2. \A k \in 1..Len(queue) : queue[k] \in Conns /\ queue[k] # c /\ queue'[k] = queue[k]
      BY <2>1, <1>t DEF QueueInv
    <2>3. Len(queue') = Len(queue) + 1 /\ queue'[Len(queue) + 1] = c /\ Len(queue) \in Nat
      BY <2>1, <1>t
    <2>4. QueueInv'
      BY <2>1, <2>2, <2>3, <1>t DEF QueueInv
    <2> QED
      BY <2>1, <2>4, <1>t DEF SpawnInv
  <1>7. CASE \/ TestStop \/ AcceptEnter \/ AcceptFails \/ CloseListener \/ FreeModel \/ Exit
             \/ \E c \in Conns : UseFreedModel(c)
             \/ UNCHANGED vars
    <2>1. /\ UNCHANGED <<wpc, queue, mainConn>>
          /\ \/ main' \in {main, "exited"}
             \/ main' # "spawn" /\ main \notin {"spawn", "exited"}
      BY <1>7 DEF TestStop, AcceptEnter, AcceptFails, CloseListener, FreeModel, Exit,
                  UseFreedModel, vars, mainVars, kernelVars
    <2> QED
      BY <1>1, <2>1
  <1> QED
    BY <1>2, <1>3, <1>4, <1>5, <1>6, <1>7 DEF Next, MainStep

-----------------------------------------------------------------------------
(* At most one worker is inside the engine.                                  *)

LEMMA GenStep == HandoffInv /\ GenExclusive /\ [Next]_vars => GenExclusive'
  <1> SUFFICES ASSUME HandoffInv, GenExclusive, [Next]_vars PROVE GenExclusive'
    OBVIOUS
  <1>t. wpc \in [Conns -> Pcs]
    BY DEF HandoffInv, TypeOK, WorkerType
  <1>1. ASSUME NEW c \in Conns, WorkerStep(c) PROVE GenExclusive'
    <2>1. PICK to \in Pcs : WorkerMove(c, to)
      BY <1>1, WorkerFrame DEF HandoffInv
    <2>n. NoConn \notin Conns
      BY ConnsAssumption
    <2> QED
      BY <2>1, <2>n, <1>t DEF WorkerMove, GenExclusive, EngineSection
  <1>2. CASE Spawn \/ SpawnFails
    BY <1>2, <1>t DEF Spawn, SpawnFails, genVars, GenExclusive, EngineSection, HandoffInv, SpawnInv
  <1>3. CASE AcceptReturn
    <2>1. Head(queue) = queue[1] /\ 1 \in 1..Len(queue) /\ queue[1] \in Conns
      BY <1>3 DEF AcceptReturn, HandoffInv, TypeOK, KernelType
    <2>2. wpc[Head(queue)] = "queued"
      BY <2>1 DEF HandoffInv, QueueInv
    <2> QED
      BY <1>3, <1>t, <2>2 DEF AcceptReturn, genVars, GenExclusive, EngineSection, Reset
  <1>4. ASSUME NEW t \in SignalThreads, OnSignal(t) PROVE GenExclusive'
    BY <1>4, <1>t DEF OnSignal, genVars, GenExclusive, EngineSection, Reset
  <1>5. ASSUME NEW c \in Conns, Connect(c) PROVE GenExclusive'
    BY <1>5, <1>t DEF Connect, genVars, GenExclusive, EngineSection
  <1>6. CASE \/ TestStop \/ AcceptEnter \/ AcceptFails \/ CloseListener \/ FreeModel \/ Exit
             \/ \E c \in Conns : UseFreedModel(c)
             \/ UNCHANGED vars
    BY <1>6 DEF TestStop, AcceptEnter, AcceptFails, CloseListener, FreeModel, Exit,
                UseFreedModel, vars, genVars, GenExclusive
  <1> QED
    BY <1>1, <1>2, <1>3, <1>4, <1>5, <1>6 DEF Next, MainStep

\* However many clients connect, the one loaded model runs one generation at a
\* time: a worker is between lock and unlock exactly when it owns g_gen_lock.
THEOREM EngineIsExclusive == Spec => []GenExclusive
  <1>1. Init => GenExclusive
    BY ConnsAssumption DEF Init, GenExclusive, EngineSection
  <1> QED
    BY <1>1, HandoffInit, HandoffStep, GenStep, PTL DEF Spec

-----------------------------------------------------------------------------
(* A descriptor belongs to the worker it was given to.                       *)

LEMMA FdInit == Init => ListenerInv /\ FdOwnership
  BY ConnsAssumption, BoundsAssumption
  DEF Init, ListenerInv, FdOwnership, HasFd, Running, OpenPcs, EngineSection, AnswerPcs, ListenFd

LEMMA FdStep == FdInv /\ [Next]_vars => ListenerInv' /\ FdOwnership'
  <1> SUFFICES ASSUME FdInv, [Next]_vars PROVE ListenerInv' /\ FdOwnership'
    OBVIOUS
  <1>t. /\ fdTable \in [1..NFds -> Conns \cup {Main, Listener, Free}]
        /\ connFd \in [Conns -> 1..NFds] /\ mainFd \in 1..NFds
        /\ wpc \in [Conns -> Pcs] /\ ListenFd \in 1..NFds
    BY BoundsAssumption
    DEF FdInv, HandoffInv, TypeOK, KernelType, MainType, WorkerType, ListenFd
  <1>d. /\ Main \notin Conns /\ Listener \notin Conns /\ Free \notin Conns
        /\ Main # Listener /\ Main # Free /\ Listener # Free
    BY ConnsAssumption
  <1> USE <1>t, <1>d DEF FdInv, HandoffInv, ListenerInv, FdOwnership
  <1>p. \A c \in Conns : HasFd(c) <=>
           wpc[c] \in {"accepted"} \cup OpenPcs \cup EngineSection \cup AnswerPcs
    BY DEF HasFd, Running
  <1>1. CASE AcceptEnter
    <2>1. /\ main = "accept" /\ main' = "blocked" /\ UNCHANGED <<gStop, connFd, wpc>>
          /\ fdTable[ListenFd] = Listener
          /\ fdTable[mainFd'] = Free /\ mainFd' \in 1..NFds
          /\ fdTable' = [fdTable EXCEPT ![mainFd'] = Main]
      BY <1>1 DEF AcceptEnter
    <2> QED
      BY <2>1 DEF HasFd, Running
  <1>2. CASE AcceptReturn
    <2> DEFINE c == Head(queue)
    <2>1. c \in Conns /\ wpc[c] = "queued"
      <3>1. c = queue[1] /\ 1 \in 1..Len(queue) /\ queue[1] \in Conns
        BY <1>2 DEF AcceptReturn, TypeOK, KernelType
      <3> QED
        BY <3>1 DEF QueueInv
    <2>2. /\ main = "blocked" /\ main' = "spawn" /\ UNCHANGED <<gStop, mainFd>>
          /\ connFd' = [connFd EXCEPT ![c] = mainFd]
          /\ fdTable' = [fdTable EXCEPT ![mainFd] = c]
          /\ \A d \in Conns :
                \/ wpc'[d] = IF d = c THEN "accepted" ELSE wpc[d]
                \/ wpc[d] = "queued" /\ d # c /\ wpc'[d] = "reset"
      BY <1>2, <2>1 DEF AcceptReturn, Reset
    <2>3. \A d \in Conns : HasFd(d)' <=> d = c \/ HasFd(d)
      BY <2>1, <2>2 DEF HasFd, Running, OpenPcs, EngineSection, AnswerPcs
    <2>4. ~HasFd(c)
      BY <2>1 DEF HasFd, Running, OpenPcs, EngineSection, AnswerPcs
    <2>5. mainFd # ListenFd /\ fdTable[mainFd] = Main
      BY <2>2
    <2> HIDE DEF c
    <2> QED
      BY <2>1, <2>2, <2>3, <2>4, <2>5
  <1>3. CASE Spawn
    <2>1. /\ main = "spawn" /\ main' = "test" /\ UNCHANGED <<gStop, mainFd, fdTable, connFd>>
          /\ mainConn \in Conns /\ wpc[mainConn] = "accepted"
          /\ wpc' = [wpc EXCEPT ![mainConn] = "read"]
      BY <1>3 DEF Spawn, kernelVars, SpawnInv
    <2>2. \A d \in Conns : HasFd(d)' <=> HasFd(d)
      BY <2>1 DEF HasFd, Running, OpenPcs
    <2> QED
      BY <2>1, <2>2
  <1>4. CASE SpawnFails
    <2>1. /\ main = "spawn" /\ main' = "test" /\ UNCHANGED <<gStop, mainFd, connFd>>
          /\ mainConn \in Conns /\ wpc[mainConn] = "accepted"
          /\ wpc' = [wpc EXCEPT ![mainConn] = "closed"]
          /\ fdTable' = [fdTable EXCEPT ![connFd[mainConn]] = Free]
      BY <1>4 DEF SpawnFails, SpawnInv
    <2>2. \A d \in Conns : HasFd(d)' <=> HasFd(d) /\ d # mainConn
      BY <2>1 DEF HasFd, Running, OpenPcs, EngineSection, AnswerPcs
    <2>3. HasFd(mainConn)
      BY <2>1 DEF HasFd
    <2> QED
      BY <2>1, <2>2, <2>3
  <1>5. CASE CloseListener
    <2>1. /\ main = "shutdown" /\ main' = "free" /\ UNCHANGED <<gStop, mainFd, connFd, wpc>>
          /\ fdTable' = [fdTable EXCEPT ![ListenFd] = Free]
      BY <1>5 DEF CloseListener
    <2> QED
      BY <2>1 DEF HasFd, Running
  <1>6. ASSUME NEW t \in SignalThreads, OnSignal(t) PROVE ListenerInv' /\ FdOwnership'
    <2>1. UNCHANGED <<mainFd, connFd>>
      BY <1>6 DEF OnSignal
    <2>2. \A d \in Conns : HasFd(d)' <=> HasFd(d)
      BY <1>6 DEF OnSignal, Reset, HasFd, Running, OpenPcs, EngineSection, AnswerPcs
    <2>3. CASE main' = "exited" /\ UNCHANGED <<gStop, fdTable>>
      BY <2>1, <2>2, <2>3
    <2>4. CASE /\ main # "blocked" \/ t # Main
               /\ gStop' = TRUE /\ main' = main
               /\ fdTable' = [fd \in 1..NFds |-> IF fd = ListenFd THEN Free ELSE fdTable[fd]]
      BY <2>1, <2>2, <2>4
    <2>5. CASE /\ main = "blocked" /\ main' = "accept" /\ gStop' = TRUE
               /\ fdTable' = [fd \in 1..NFds |->
                              IF fd \in {ListenFd, mainFd} THEN Free ELSE fdTable[fd]]
      BY <2>1, <2>2, <2>5
    <2>6. CASE gStop
      BY <1>6, <2>3, <2>6 DEF OnSignal
    <2>7. CASE ~gStop
      <3>1. /\ gStop' = TRUE
            /\ main' = IF t = Main /\ main = "blocked" THEN "accept" ELSE main
            /\ fdTable' = [fd \in 1..NFds |->
                             IF fd = ListenFd \/ (t = Main /\ main = "blocked" /\ fd = mainFd)
                             THEN Free ELSE fdTable[fd]]
        BY <1>6, <2>7 DEF OnSignal
      <3>2. CASE t = Main /\ main = "blocked"
        BY <2>5, <3>1, <3>2
      <3>3. CASE ~(t = Main /\ main = "blocked")
        BY <2>4, <3>1, <3>3
      <3> QED
        BY <3>2, <3>3
    <2> QED
      BY <2>6, <2>7
  <1>7. ASSUME NEW c \in Conns, WorkerStep(c) PROVE ListenerInv' /\ FdOwnership'
    <2>1. PICK to \in Pcs : WorkerMove(c, to)
      BY <1>7, WorkerFrame
    <2>2. /\ UNCHANGED <<main, gStop, mainFd, connFd>> /\ HasFd(c)
          /\ wpc' = [wpc EXCEPT ![c] = to]
      BY <2>1 DEF WorkerMove, mainVars, HasFd
    <2>3. CASE /\ to \in OpenPcs \cup EngineSection \cup AnswerPcs
               /\ UNCHANGED fdTable
      <3>1. \A d \in Conns : HasFd(d)' <=> HasFd(d)
        BY <2>2, <2>3 DEF HasFd, Running
      <3> QED
        BY <2>2, <2>3, <3>1
    <2>4. CASE to = "closed" /\ fdTable' = [fdTable EXCEPT ![connFd[c]] = Free]
      <3>1. \A d \in Conns : HasFd(d)' <=> HasFd(d) /\ d # c
        BY <2>2, <2>4 DEF HasFd, Running, OpenPcs, EngineSection, AnswerPcs
      <3> QED
        BY <2>2, <2>4, <3>1
    <2> QED
      BY <2>1, <2>3, <2>4 DEF WorkerMove
  <1>8. ASSUME NEW c \in Conns, Connect(c) PROVE ListenerInv' /\ FdOwnership'
    <2>1. /\ UNCHANGED <<main, gStop, mainFd, connFd, fdTable>>
          /\ wpc[c] = "none" /\ wpc' = [wpc EXCEPT ![c] = "queued"]
      BY <1>8 DEF Connect, mainVars
    <2>2. \A d \in Conns : HasFd(d)' <=> HasFd(d)
      BY <2>1 DEF HasFd, Running, OpenPcs, EngineSection, AnswerPcs
    <2> QED
      BY <2>1, <2>2
  <1>9. CASE \/ TestStop \/ AcceptFails \/ FreeModel \/ Exit
             \/ \E c \in Conns : UseFreedModel(c)
             \/ UNCHANGED vars
    <2>1. /\ UNCHANGED <<gStop, mainFd, connFd, fdTable, wpc>>
          /\ \/ main' \in {main, "exited"}
             \/ main \notin {"blocked", "exited"} /\ main' # "blocked"
      BY <1>9 DEF TestStop, AcceptFails, FreeModel, Exit,
                  UseFreedModel, vars, mainVars, kernelVars
    <2> QED
      BY <2>1 DEF HasFd, Running
  <1> QED
    BY <1>1, <1>2, <1>3, <1>4, <1>5, <1>6, <1>7, <1>8, <1>9 DEF Next, MainStep

\* Through every accept, failed thread, signal and shutdown, the number a worker
\* reads, writes and closes is its own connection's, and no number leaks.
THEOREM FdsAreOwned == Spec => []FdOwnership
  BY HandoffInit, HandoffStep, FdInit, FdStep, PTL DEF Spec, FdInv

-----------------------------------------------------------------------------
(* The server implements EngineService.                                      *)

Phase == [c \in Conns |-> PhaseOf(wpc[c])]

LEMMA PhaseValues ==
  /\ \A pc \in NotStarted : PhaseOf(pc) = "waiting"
  /\ \A pc \in OpenPcs : PhaseOf(pc) = "open"
  /\ \A pc \in {"reset", "closed"} : PhaseOf(pc) = "closed"
  BY DEF PhaseOf, NotStarted, OpenPcs, EngineSection, AnswerPcs

LEMMA PhaseMoves ==
  ASSUME WorkerType, NEW c \in Conns, NEW to, wpc' = [wpc EXCEPT ![c] = to]
  PROVE  /\ Phase' = [Phase EXCEPT ![c] = PhaseOf(to)]
         /\ Phase[c] = PhaseOf(wpc[c])
         /\ PhaseOf(to) = PhaseOf(wpc[c]) => Phase' = Phase
  BY DEF WorkerType, Phase

LEMMA RefInit == Init => Service!Init
  <1> SUFFICES ASSUME Init PROVE Service!Init
    OBVIOUS
  <1>1. [c \in Conns |-> req[c].max] \in [Conns -> Nat]
    BY RequestsAssumption DEF Init, RequestType
  <1>2. [c \in Conns |-> PhaseOf(wpc[c])] = [c \in Conns |-> "waiting"]
    BY PhaseValues DEF Init, NotStarted
  <1> QED
    BY <1>1, <1>2 DEF Init, Service!Init

LEMMA RefWorker ==
  ASSUME TypeOK, GenExclusive, NEW c \in Conns, WorkerStep(c)
  PROVE  Service!Next \/ UNCHANGED Service!svars
  <1>t. WorkerType /\ wpc \in [Conns -> Pcs] /\ holder \in Conns \cup {NoConn}
    BY DEF TypeOK, WorkerType, GenType
  <1>m. main # "exited" /\ UNCHANGED <<main, req>>
    BY WorkerFrame DEF WorkerMove, Alive, mainVars
  <1>c. UNCHANGED [d \in Conns |-> req[d].max]
    BY <1>m
  <1> DEFINE Stays == Phase' = Phase /\ UNCHANGED <<holder, produced>>
             Moves(from, to) == Phase[c] = from /\ Phase' = [Phase EXCEPT ![c] = to]
  <1>1. CASE Stays
    BY <1>1, <1>m, <1>c DEF Phase, Service!svars
  <1>2. CASE Moves("open", "answering") /\ UNCHANGED <<holder, produced>>
    <2>1. Service!Refuse(c)
      BY <1>2, <1>m DEF Phase, Service!Refuse, Service!Move
    <2> QED
      BY <2>1, <1>c DEF Service!Next
  <1> USE DEF PhaseOf, NotStarted, OpenPcs, EngineSection, AnswerPcs, Goto, Respond, genVars
  <1>3. CASE ReadRequest(c)
    <2>1. Stays \/ (Moves("open", "answering") /\ UNCHANGED <<holder, produced>>)
      BY <1>3, <1>t, PhaseMoves DEF ReadRequest
    <2> QED
      BY <1>1, <1>2, <2>1
  <1>4. CASE Route(c)
    <2>1. Stays \/ (Moves("open", "answering") /\ UNCHANGED <<holder, produced>>)
      BY <1>4, <1>t, PhaseMoves DEF Route
    <2> QED
      BY <1>1, <1>2, <2>1
  <1>5. CASE Render(c)
    <2>1. Stays \/ (Moves("open", "answering") /\ UNCHANGED <<holder, produced>>)
      BY <1>5, <1>t, PhaseMoves DEF Render
    <2> QED
      BY <1>1, <1>2, <2>1
  <1>6. CASE MakeId(c)
    <2>1. Stays
      BY <1>6, <1>t, PhaseMoves DEF MakeId
    <2> QED
      BY <1>1, <2>1
  <1>7. CASE SendSseHeaders(c)
    <2>1. Stays
      BY <1>7, <1>t, PhaseMoves DEF SendSseHeaders
    <2> QED
      BY <1>1, <2>1
  <1>8. CASE SendOpening(c)
    <2>1. Stays
      BY <1>8, <1>t, PhaseMoves DEF SendOpening
    <2> QED
      BY <1>1, <2>1
  <1>9. CASE Prefill(c)
    <2>1. Stays
      BY <1>9, <1>t, PhaseMoves DEF Prefill
    <2> QED
      BY <1>1, <2>1
  <1>10. CASE DecodeEnd(c)
    <2>1. Stays
      BY <1>10, <1>t, PhaseMoves DEF DecodeEnd
    <2> QED
      BY <1>1, <2>1
  <1>11. CASE SendClosing(c)
    <2>1. Stays
      BY <1>11, <1>t, PhaseMoves DEF SendClosing
    <2> QED
      BY <1>1, <2>1
  <1>12. CASE Format(c)
    <2>1. Stays
      BY <1>12, <1>t, PhaseMoves DEF Format
    <2> QED
      BY <1>1, <2>1
  <1>13. CASE MakeToolId(c)
    <2>1. Stays
      BY <1>13, <1>t, PhaseMoves DEF MakeToolId
    <2> QED
      BY <1>1, <2>1
  <1>14. CASE SendHead(c)
    <2>1. Stays
      BY <1>14, <1>t, PhaseMoves DEF SendHead
    <2> QED
      BY <1>1, <2>1
  <1>15. CASE SendBody(c)
    <2>1. Stays
      BY <1>15, <1>t, PhaseMoves DEF SendBody
    <2> QED
      BY <1>1, <2>1
  <1>16. CASE LockGen(c)
    <2>1. Moves("open", "generating")
      BY <1>16, <1>t, PhaseMoves DEF LockGen
    <2>2. holder = NoConn /\ holder' = c /\ UNCHANGED produced
      BY <1>16 DEF LockGen, GenExclusive
    <2>3. Service!Borrow(c)
      BY <2>1, <2>2, <1>m DEF Phase, Service!Borrow, Service!Move
    <2> QED
      BY <2>3, <1>c DEF Service!Next
  <1>17. CASE UnlockGen(c)
    <2>1. Moves("generating", "answering")
      BY <1>17, <1>t, PhaseMoves DEF UnlockGen
    <2>2. holder = c /\ holder' = NoConn /\ UNCHANGED produced
      BY <1>17 DEF UnlockGen, GenExclusive
    <2>3. Service!Return(c)
      BY <2>1, <2>2, <1>m DEF Phase, Service!Return, Service!Move
    <2> QED
      BY <2>3, <1>c DEF Service!Next
  <1>18. CASE CloseConn(c)
    <2>1. Moves("answering", "closed")
      BY <1>18, <1>t, PhaseMoves DEF CloseConn
    <2>2. UNCHANGED <<holder, produced>>
      BY <1>18 DEF CloseConn, GenExclusive
    <2>3. Service!Close(c)
      BY <2>1, <2>2, <1>m DEF Phase, Service!Close, Service!Move
    <2> QED
      BY <2>3, <1>c DEF Service!Next
  <1>19. CASE DecodeToken(c)
    <2>1. Phase' = Phase
      BY <1>19, <1>t, PhaseMoves DEF DecodeToken
    <2>2. /\ holder = c /\ UNCHANGED holder /\ produced[c] < req[c].max
          /\ produced' = [produced EXCEPT ![c] = @ + 1]
      BY <1>19 DEF DecodeToken, GenExclusive
    <2>3. Service!Emit(c)
      BY <2>1, <2>2, <1>m DEF Phase, Service!Emit
    <2> QED
      BY <2>3, <1>c DEF Service!Next
  <1> QED
    BY <1>3, <1>4, <1>5, <1>6, <1>7, <1>8, <1>9, <1>10, <1>11, <1>12, <1>13, <1>14, <1>15, <1>16, <1>17, <1>18, <1>19 DEF WorkerStep

LEMMA RefStep ==
  HandoffInv /\ GenExclusive /\ [Next]_vars => Service!Next \/ UNCHANGED Service!svars
  <1> SUFFICES ASSUME HandoffInv, GenExclusive, [Next]_vars
               PROVE  Service!Next \/ UNCHANGED Service!svars
    OBVIOUS
  <1>t. TypeOK /\ WorkerType /\ wpc \in [Conns -> Pcs]
    BY DEF HandoffInv, TypeOK, WorkerType
  <1> DEFINE Rest == UNCHANGED <<holder, produced>> /\ UNCHANGED [c \in Conns |-> req[c].max]
  <1>1. CASE Rest /\ Phase' = Phase /\ main # "exited" /\ main' = "exited"
    <2>1. Service!Halt
      BY <1>1 DEF Phase, Service!Halt
    <2> QED
      BY <1>1, <2>1 DEF Service!Next
  <1>2. CASE Rest /\ Phase' = Phase /\ ((main' = "exited") <=> (main = "exited"))
    BY <1>2 DEF Phase, Service!svars
  <1>3. ASSUME Rest, main # "exited", main' # "exited",
               NEW S \in SUBSET Conns, \A c \in S : wpc[c] \in NotStarted,
               Phase' = [c \in Conns |-> IF c \in S THEN "closed" ELSE PhaseOf(wpc[c])]
        PROVE  Service!Next
    <2>1. S \in SUBSET {c \in Conns : Phase[c] = "waiting"}
      BY <1>3, PhaseValues DEF Phase
    <2>2. Service!Drop
      BY <1>3, <2>1 DEF Phase, Service!Drop
    <2> QED
      BY <1>3, <2>2 DEF Service!Next
  <1>4. ASSUME NEW c \in Conns, WorkerStep(c) PROVE Service!Next \/ UNCHANGED Service!svars
    BY <1>4, <1>t, RefWorker
  <1>5. CASE AcceptReturn
    <2> DEFINE c == Head(queue)
               S == IF fdTable[ListenFd] = Listener THEN {}
                    ELSE {d \in Conns : d # c /\ wpc[d] = "queued"}
    <2>1. c \in Conns /\ wpc[c] = "queued"
      <3>1. c = queue[1] /\ 1 \in 1..Len(queue) /\ queue[1] \in Conns
        BY <1>5, <1>t DEF AcceptReturn, TypeOK, KernelType
      <3> QED
        BY <3>1 DEF HandoffInv, QueueInv
    <2>2. Rest /\ main # "exited" /\ main' # "exited"
      BY <1>5 DEF AcceptReturn, genVars
    <2>3. \A d \in Conns : wpc'[d] = IF d = c THEN "accepted"
                                     ELSE IF d \in S THEN "reset" ELSE wpc[d]
      BY <1>5, <2>1, <1>t DEF AcceptReturn, Reset
    <2>4. Phase' = [d \in Conns |-> IF d \in S THEN "closed" ELSE PhaseOf(wpc[d])]
      <3>1. PhaseOf("queued") = "waiting" /\ PhaseOf("accepted") = "waiting"
            /\ PhaseOf("reset") = "closed" /\ c \notin S
        BY PhaseValues DEF NotStarted
      <3>2. \A d \in Conns : PhaseOf(wpc'[d]) = IF d \in S THEN "closed" ELSE PhaseOf(wpc[d])
        BY <2>1, <2>3, <3>1
      <3> QED
        BY <3>2 DEF Phase
    <2>5. \A d \in S : d \in Conns /\ wpc[d] \in NotStarted
      BY DEF NotStarted
    <2> HIDE DEF S, c
    <2> QED
      BY <1>3, <2>2, <2>4, <2>5
  <1>6. CASE Spawn
    <2>1. /\ main = "spawn" /\ main' = "test" /\ Rest
          /\ mainConn \in Conns /\ wpc[mainConn] = "accepted"
          /\ wpc' = [wpc EXCEPT ![mainConn] = "read"]
      BY <1>6 DEF Spawn, genVars, HandoffInv, SpawnInv
    <2>2. Phase[mainConn] = "waiting" /\ Phase' = [Phase EXCEPT ![mainConn] = "open"]
      <3>1. PhaseOf("accepted") = "waiting" /\ PhaseOf("read") = "open"
        BY PhaseValues DEF NotStarted, OpenPcs
      <3> QED
        BY <2>1, <3>1, <1>t DEF Phase
    <2>3. Service!Open(mainConn)
      BY <2>1, <2>2 DEF Phase, Service!Open, Service!Move
    <2> QED
      BY <2>1, <2>3 DEF Service!Next
  <1>7. CASE SpawnFails
    <2>1. /\ main = "spawn" /\ main' = "test" /\ Rest
          /\ mainConn \in Conns /\ wpc[mainConn] = "accepted"
          /\ wpc' = [wpc EXCEPT ![mainConn] = "closed"]
      BY <1>7 DEF SpawnFails, genVars, HandoffInv, SpawnInv
    <2>2. Phase[mainConn] = "waiting" /\ Phase' = [Phase EXCEPT ![mainConn] = "closed"]
      <3>1. PhaseOf("accepted") = "waiting" /\ PhaseOf("closed") = "closed"
        BY PhaseValues DEF NotStarted, OpenPcs
      <3> QED
        BY <2>1, <3>1, <1>t DEF Phase
    <2>3. Service!Close(mainConn)
      BY <2>1, <2>2 DEF Phase, Service!Close, Service!Move
    <2> QED
      BY <2>1, <2>3 DEF Service!Next
  <1>8. ASSUME NEW t \in SignalThreads, OnSignal(t)
        PROVE  Service!Next \/ UNCHANGED Service!svars
    <2>1. Rest /\ main # "exited"
      BY <1>8 DEF OnSignal, Alive, genVars
    <2>2. CASE gStop
      <3>1. main' = "exited" /\ Phase' = Phase
        BY <1>8, <2>2 DEF OnSignal, Phase
      <3> QED
        BY <1>1, <2>1, <3>1
    <2>3. CASE ~gStop /\ wpc' = wpc
      <3>1. main' # "exited" /\ Phase' = Phase
        BY <1>8, <2>1, <2>3 DEF OnSignal, Phase
      <3> QED
        BY <1>2, <2>1, <3>1
    <2>4. CASE ~gStop /\ wpc' = Reset(wpc, Conns)
      <3> DEFINE S == {d \in Conns : wpc[d] = "queued"}
      <3>1. main' # "exited"
        BY <1>8, <2>1, <2>4 DEF OnSignal
      <3>2. Phase' = [d \in Conns |-> IF d \in S THEN "closed" ELSE PhaseOf(wpc[d])]
        <4>1. \A d \in Conns : wpc'[d] = IF d \in S THEN "reset" ELSE wpc[d]
          BY <2>4 DEF Reset
        <4> QED
          BY <4>1, PhaseValues DEF Phase
      <3>3. \A d \in S : d \in Conns /\ wpc[d] \in NotStarted
        BY DEF NotStarted
      <3> HIDE DEF S
      <3> QED
        BY <1>3, <2>1, <3>1, <3>2, <3>3
    <2> QED
      BY <1>8, <2>2, <2>3, <2>4 DEF OnSignal
  <1>9. ASSUME NEW c \in Conns, Connect(c) PROVE Service!Next \/ UNCHANGED Service!svars
    <2>1. /\ wpc[c] = "none" /\ wpc' = [wpc EXCEPT ![c] = "queued"]
          /\ Rest /\ main' = main
      BY <1>9 DEF Connect, mainVars, genVars
    <2>2. Phase' = Phase
      <3>1. PhaseOf("none") = "waiting" /\ PhaseOf("queued") = "waiting"
        BY PhaseValues DEF NotStarted
      <3> QED
        BY <2>1, <3>1, <1>t DEF Phase
    <2> QED
      BY <1>2, <2>1, <2>2
  <1>10. CASE \/ TestStop \/ AcceptEnter \/ AcceptFails \/ CloseListener \/ FreeModel
              \/ UNCHANGED vars
    <2>1. Rest /\ Phase' = Phase /\ ((main' = "exited") <=> (main = "exited"))
      BY <1>10 DEF TestStop, AcceptEnter, AcceptFails, CloseListener, FreeModel,
                   vars, mainVars, genVars, Phase
    <2> QED
      BY <1>2, <2>1
  <1>11. CASE Exit \/ \E c \in Conns : UseFreedModel(c)
    <2>1. Rest /\ Phase' = Phase /\ main # "exited" /\ main' = "exited"
      BY <1>11 DEF Exit, UseFreedModel, Alive, genVars, Phase
    <2> QED
      BY <1>1, <2>1
  <1> QED
    BY <1>4, <1>5, <1>6, <1>7, <1>8, <1>9, <1>10, <1>11 DEF Next, MainStep

\* Every behaviour of the server is one EngineService allows.
THEOREM ServerImplementsService == Spec => ServiceSpec
  <1>1. Init => GenExclusive
    BY ConnsAssumption DEF Init, GenExclusive, EngineSection
  <1> QED
    BY <1>1, HandoffInit, HandoffStep, GenStep, RefInit, RefStep, PTL
    DEF Spec, ServiceSpec, Service!Spec

-----------------------------------------------------------------------------
(* Ids.                                                                      *)

\* As long as the counter has not wrapped, every id made is below it.
IdInv == reqCounter <= IdMod =>
           /\ \A c \in Conns : \A x \in ids[c] : x[2] < reqCounter
           /\ \A c, d \in Conns : c # d => ids[c] \cap ids[d] = {}

\* Ids are made by TakeId alone.
LEMMA IdSteps ==
  ASSUME [Next]_vars
  PROVE  \/ UNCHANGED <<reqCounter, ids>>
         \/ \E c \in Conns, prefix \in {"reply", "call"} : TakeId(c, prefix)
  <1>1. CASE MainStep
    BY <1>1 DEF MainStep, TestStop, AcceptEnter, AcceptFails, AcceptReturn, Spawn, SpawnFails,
                CloseListener, FreeModel, Exit, idVars
  <1>2. ASSUME NEW t \in SignalThreads, OnSignal(t) PROVE UNCHANGED <<reqCounter, ids>>
    BY <1>2 DEF OnSignal, idVars
  <1>3. ASSUME NEW c \in Conns, WorkerStep(c)
        PROVE  \/ UNCHANGED <<reqCounter, ids>>
               \/ \E prefix \in {"reply", "call"} : TakeId(c, prefix)
    <2>1. CASE MakeId(c) \/ MakeToolId(c)
      BY <2>1 DEF MakeId, MakeToolId
    <2>2. CASE \/ ReadRequest(c) \/ Route(c) \/ Render(c) \/ SendSseHeaders(c)
               \/ SendOpening(c) \/ LockGen(c) \/ Prefill(c) \/ DecodeToken(c)
      BY <2>2 DEF ReadRequest, Route, Render, SendSseHeaders, SendOpening, LockGen, Prefill,
                  DecodeToken, idVars
    <2>3. CASE \/ DecodeEnd(c) \/ UnlockGen(c) \/ SendClosing(c) \/ Format(c)
               \/ SendHead(c) \/ SendBody(c) \/ CloseConn(c)
      BY <2>3 DEF DecodeEnd, UnlockGen, SendClosing, Format, SendHead, SendBody, CloseConn, idVars
    <2> QED
      BY <1>3, <2>1, <2>2, <2>3 DEF WorkerStep
  <1>4. ASSUME NEW c \in Conns, Connect(c) \/ UseFreedModel(c)
        PROVE  UNCHANGED <<reqCounter, ids>>
    BY <1>4 DEF Connect, UseFreedModel, idVars
  <1>5. CASE UNCHANGED vars
    BY <1>5 DEF vars, idVars
  <1> QED
    BY <1>1, <1>2, <1>3, <1>4, <1>5 DEF Next

LEMMA IdInit == Init => IdInv
  BY DEF Init, IdInv

LEMMA IdStep == TypeOK /\ IdInv /\ [Next]_vars => IdInv'
  <1> SUFFICES ASSUME TypeOK, IdInv, [Next]_vars PROVE IdInv'
    OBVIOUS
  <1>1. CASE UNCHANGED <<reqCounter, ids>>
    BY <1>1 DEF IdInv
  <1>2. ASSUME NEW c \in Conns, NEW prefix \in {"reply", "call"}, TakeId(c, prefix),
               reqCounter' <= IdMod
        PROVE  /\ \A e \in Conns : \A x \in ids'[e] : x[2] < reqCounter'
               /\ \A e, d \in Conns : e # d => ids'[e] \cap ids'[d] = {}
    <2> DEFINE new == <<prefix, reqCounter>>
    <2>1. reqCounter \in Nat /\ IdMod \in Nat \ {0} /\ reqCounter' = reqCounter + 1
      BY <1>2, BoundsAssumption DEF TakeId, TypeOK, IdType
    <2>2. reqCounter < IdMod /\ reqCounter % IdMod = reqCounter
      BY <1>2, <2>1
    <2>3. \A e \in Conns : ids'[e] = IF e = c THEN ids[c] \cup {new} ELSE ids[e]
      BY <1>2, <2>2 DEF TakeId, TypeOK, IdType
    <2>8. \A e \in Conns : \A x \in ids[e] : x[2] \in Nat
      <3>1. \A e \in Conns : ids[e] \in SUBSET ({"reply", "call"} \X (0..(IdMod - 1)))
        BY Zenon DEF TypeOK, IdType
      <3> QED
        BY <3>1, <2>1
    <2>4. /\ \A e \in Conns : \A x \in ids[e] : x[2] < reqCounter
          /\ \A e, d \in Conns : e # d => ids[e] \cap ids[d] = {}
      BY <2>1, <2>2 DEF IdInv
    <2>5. new[2] = reqCounter /\ \A e \in Conns : new \notin ids[e]
      BY <2>1, <2>4
    <2>6. \A e \in Conns : \A x \in ids'[e] : x[2] < reqCounter'
      BY <2>1, <2>3, <2>4, <2>5, <2>8
    <2>7. ASSUME NEW e \in Conns, NEW d \in Conns, e # d
          PROVE  ids'[e] \cap ids'[d] = {}
      BY <2>3, <2>4, <2>5, <2>7
    <2> QED
      BY <2>6, <2>7
  <1> QED
    BY <1>1, <1>2, IdSteps DEF IdInv

\* Two requests never get the same id before the counter wraps, in whatever order
\* their threads reach it.
THEOREM IdsAreUnique == Spec => []IdsUnique
  <1>1. IdInv => IdsUnique
    BY DEF IdInv, IdsUnique
  <1> QED
    BY <1>1, IdInit, IdStep, TypeCorrect, PTL DEF Spec

-----------------------------------------------------------------------------
(* Connections that a step is not about.                                     *)

\* What a step of another thread leaves c with: its answer as it was, and its
\* program counter too, unless main takes it from the queue to its worker.
Bystander(c) ==
  /\ /\ req'[c] = req[c] /\ sock'[c] = sock[c] /\ out'[c] = out[c]
     /\ timeouts'[c] = timeouts[c] /\ status'[c] = status[c] /\ told'[c] = told[c]
     /\ produced'[c] = produced[c] /\ finish'[c] = finish[c]
  /\ \/ wpc'[c] = wpc[c]
     \/ wpc[c] \in NotStarted /\ wpc'[c] \in NotStarted \cup {"reset", "read", "closed"}

LEMMA Bystanders ==
  ASSUME HandoffInv, [Next]_vars, NEW c \in Conns, ~WorkerStep(c)
  PROVE  Bystander(c)
  <1>t. wpc \in [Conns -> Pcs] /\ mainConn \in Conns \cup {NoConn} /\ queue \in Seq(Conns)
    BY DEF HandoffInv, TypeOK, WorkerType, MainType, KernelType
  <1> DEFINE Kept == UNCHANGED <<req, replyVars, genVars>>
             Moved == \/ wpc'[c] = wpc[c]
                      \/ /\ wpc[c] \in NotStarted
                         /\ wpc'[c] \in NotStarted \cup {"reset", "read", "closed"}
  <1>k. Kept /\ Moved => Bystander(c)
    BY DEF replyVars, genVars, Bystander
  <1>1. CASE \/ TestStop \/ AcceptEnter \/ AcceptFails \/ CloseListener \/ FreeModel \/ Exit
    BY <1>1, <1>k DEF TestStop, AcceptEnter, AcceptFails, CloseListener, FreeModel, Exit
  <1>2. CASE AcceptReturn
    <2>1. Kept /\ queue # <<>>
      BY <1>2 DEF AcceptReturn
    <2>2. /\ Head(queue) \in Conns /\ wpc[Head(queue)] = "queued"
          /\ \/ wpc' = [wpc EXCEPT ![Head(queue)] = "accepted"]
             \/ wpc' = Reset([wpc EXCEPT ![Head(queue)] = "accepted"], Conns)
      BY <1>2, <1>t DEF AcceptReturn, HandoffInv, QueueInv
    <2>3. Moved
      BY <2>2, <1>t DEF Reset, NotStarted
    <2> QED
      BY <2>1, <2>3, <1>k
  <1>3. CASE Spawn \/ SpawnFails
    <2>1. Kept
      BY <1>3 DEF Spawn, SpawnFails
    <2>2. /\ wpc[mainConn] = "accepted"
          /\ \E to \in {"read", "closed"} : wpc' = [wpc EXCEPT ![mainConn] = to]
      BY <1>3 DEF Spawn, SpawnFails, HandoffInv, SpawnInv
    <2>3. Moved
      BY <2>2, <1>t DEF NotStarted
    <2> QED
      BY <2>1, <2>3, <1>k
  <1>4. ASSUME NEW t \in SignalThreads, OnSignal(t) PROVE Bystander(c)
    <2>1. Kept /\ (wpc' = wpc \/ wpc' = Reset(wpc, Conns))
      BY <1>4 DEF OnSignal
    <2>2. Moved
      BY <2>1, <1>t DEF Reset, NotStarted
    <2> QED
      BY <2>1, <2>2, <1>k
  <1>5. ASSUME NEW d \in Conns, WorkerStep(d) PROVE Bystander(c)
    <2> USE DEF Bystander, Goto, Respond, replyVars, genVars, WriteAll
    <2>t. /\ req \in [Conns -> Requests] /\ sock \in [Conns -> {"ok", "gone"}]
          /\ out \in [Conns -> Seq(Items)] /\ timeouts \in [Conns -> Nat]
          /\ status \in [Conns -> Statuses] /\ told \in [Conns -> Reasons]
          /\ produced \in [Conns -> Nat] /\ finish \in [Conns -> {"length", "stop"}]
      BY DEF HandoffInv, TypeOK, WorkerType, ReplyType, GenType
    <2>d. d # c
      BY <1>5
    <2>1. CASE ReadRequest(d) \/ Route(d) \/ Render(d) \/ MakeId(d) \/ LockGen(d) \/ Prefill(d)
      BY <2>1, <2>d, <2>t, <1>t DEF ReadRequest, Route, Render, MakeId, LockGen, Prefill
    <2>2. CASE SendSseHeaders(d) \/ SendOpening(d) \/ SendHead(d) \/ SendBody(d)
      BY <2>2, <2>d, <2>t, <1>t DEF SendSseHeaders, SendOpening, SendHead, SendBody
    <2>3. CASE DecodeToken(d)
      BY <2>3, <2>d, <2>t, <1>t DEF DecodeToken
    <2>4. CASE SendClosing(d)
      BY <2>4, <2>d, <2>t, <1>t DEF SendClosing
    <2>5. CASE DecodeEnd(d) \/ UnlockGen(d) \/ CloseConn(d)
      BY <2>5, <2>d, <2>t, <1>t DEF DecodeEnd, UnlockGen, CloseConn
    <2>6. CASE Format(d) \/ MakeToolId(d)
      BY <2>6, <2>d, <2>t, <1>t DEF Format, MakeToolId
    <2> QED
      BY <1>5, <2>1, <2>2, <2>3, <2>4, <2>5, <2>6 DEF WorkerStep
  <1>6. ASSUME NEW d \in Conns, Connect(d) \/ UseFreedModel(d) PROVE Bystander(c)
    <2>1. Kept /\ (wpc' = wpc \/ (wpc[d] = "none" /\ wpc' = [wpc EXCEPT ![d] = "queued"]))
      BY <1>6 DEF Connect, UseFreedModel
    <2>2. Moved
      BY <2>1, <1>t DEF NotStarted
    <2> QED
      BY <2>1, <2>2, <1>k
  <1>7. CASE UNCHANGED vars
    BY <1>7, <1>k DEF vars
  <1> QED
    BY <1>1, <1>2, <1>3, <1>4, <1>5, <1>6, <1>7 DEF Next, MainStep

-----------------------------------------------------------------------------
(* Finish reasons.                                                           *)

\* A reason is told after the generation and not revised; until then "length"
\* stands for a generation that reached its cap.
FinishInv(c) ==
  /\ told[c] # "none" => wpc[c] \in {"toolid", "head", "body", "close", "closed"}
  /\ wpc[c] \in {"unlock", "closing", "format"} /\ finish[c] = "length"
       => produced[c] = req[c].max
  /\ told[c] = "length" => produced[c] = req[c].max
  /\ told[c] = "stop" => finish[c] = "stop"

LEMMA FinishInit == Init => \A c \in Conns : FinishInv(c)
  BY DEF Init, FinishInv

LEMMA FinishWorker ==
  ASSUME TypeOK, ~EngineMayFail, NEW c \in Conns, FinishInv(c), WorkerStep(c)
  PROVE  FinishInv(c)'
  <1> USE DEF FinishInv, Goto, Respond, replyVars, genVars
  <1>t. /\ wpc \in [Conns -> Pcs] /\ told \in [Conns -> Reasons]
        /\ produced \in [Conns -> Nat] /\ finish \in [Conns -> {"length", "stop"}]
    BY DEF TypeOK, WorkerType, ReplyType, GenType
  <1>1. CASE \/ ReadRequest(c) \/ Route(c) \/ Render(c) \/ MakeId(c) \/ SendSseHeaders(c)
             \/ SendOpening(c) \/ LockGen(c) \/ Prefill(c)
    BY <1>1, <1>t DEF ReadRequest, Route, Render, MakeId, SendSseHeaders, SendOpening,
                      LockGen, Prefill
  <1>2. CASE DecodeToken(c)
    BY <1>2, <1>t DEF DecodeToken
  <1>3. CASE DecodeEnd(c)
    BY <1>3, <1>t DEF DecodeEnd
  <1>4. CASE UnlockGen(c)
    BY <1>4, <1>t DEF UnlockGen
  <1>5. CASE SendClosing(c)
    BY <1>5, <1>t DEF SendClosing, Reason
  <1>6. CASE Format(c)
    BY <1>6, <1>t DEF Format, Reason
  <1>7. CASE MakeToolId(c) \/ SendHead(c) \/ SendBody(c) \/ CloseConn(c)
    BY <1>7, <1>t DEF MakeToolId, SendHead, SendBody, CloseConn
  <1> QED
    BY <1>1, <1>2, <1>3, <1>4, <1>5, <1>6, <1>7 DEF WorkerStep

LEMMA FinishBystander ==
  ASSUME NEW c \in Conns, FinishInv(c), Bystander(c)
  PROVE  FinishInv(c)'
  BY DEF FinishInv, Bystander, NotStarted

\* With an engine that does not fail, a client told "length" has been given as many
\* tokens as it allowed and one told "stop" saw the model stop, for every mix of
\* streams and plain answers.
THEOREM FinishIsHonest == ~EngineMayFail => (Spec => []FinishHonest)
  <1> SUFFICES ASSUME ~EngineMayFail PROVE Spec => []FinishHonest
    OBVIOUS
  <1> DEFINE Inv == HandoffInv /\ \A c \in Conns : FinishInv(c)
  <1>1. Init => Inv
    BY HandoffInit, FinishInit
  <1>2. Inv /\ [Next]_vars => Inv'
    <2> SUFFICES ASSUME Inv, [Next]_vars PROVE Inv'
      OBVIOUS
    <2>1. HandoffInv'
      BY HandoffStep
    <2>2. ASSUME NEW c \in Conns PROVE FinishInv(c)'
      BY FinishWorker, FinishBystander, Bystanders DEF HandoffInv
    <2> QED
      BY <2>1, <2>2
  <1>3. Inv => FinishHonest
    BY DEF FinishInv, FinishHonest
  <1> QED
    BY <1>1, <1>2, <1>3, PTL DEF Spec

-----------------------------------------------------------------------------
(* Whole answers.                                                            *)

Deltas(n) == [k \in 1..n |-> "delta"]

\* What c's worker has written by the time it is at its present line.
Sent(c) ==
  CASE wpc[c] = "open" -> <<"sse">>
    [] wpc[c] \in {"lock", "prefill", "decode", "unlock", "closing"} ->
         IF Streams(c) THEN <<"sse", "open">> \o Deltas(produced[c]) ELSE <<>>
    [] wpc[c] = "body" -> <<status[c]>>
    [] OTHER -> <<>>

\* The inductive invariant of one connection: which lines lead to which kind of
\* answer, and what a client that kept up has received.
AnswerInv(c) ==
  /\ wpc[c] \in {"id", "sse", "open", "lock", "prefill", "decode", "unlock", "closing", "format"}
       => req[c].kind = "generate"
  /\ wpc[c] \in {"sse", "open", "closing"} => Streams(c)
  /\ wpc[c] \in {"format", "toolid", "head", "body"} => ~(req[c].kind = "generate" /\ Streams(c))
  /\ wpc[c] \in NotStarted \cup OpenPcs \cup {"prefill"} => produced[c] = 0
  /\ sock[c] = "ok" /\ timeouts[c] = 0 /\ wpc[c] \notin {"close", "closed"} => out[c] = Sent(c)

\* What AnswerComplete asks of one connection.
Completes(c) ==
  /\ wpc[c] \notin {"read", "close"} /\ wpc'[c] = "close"
  /\ sock'[c] = "ok" /\ timeouts'[c] = 0
  => out'[c] = Transcript(c)'

LEMMA AnswerInit == Init => \A c \in Conns : AnswerInv(c)
  BY DEF Init, AnswerInv, Sent

LEMMA NoDeltas == Deltas(0) = <<>> /\ <<"sse", "open">> \o Deltas(0) = <<"sse", "open">>
  BY DEF Deltas

LEMMA OneMoreDelta ==
  ASSUME NEW n \in Nat
  PROVE  Append(<<"sse", "open">> \o Deltas(n), "delta") = <<"sse", "open">> \o Deltas(n + 1)
  <1> DEFINE M == {"sse", "open", "delta"}
             s == <<"sse", "open">> \o Deltas(n)
             u == <<"sse", "open">> \o Deltas(n + 1)
  <1>1. /\ Deltas(n) \in Seq(M) /\ Len(Deltas(n)) = n
        /\ Deltas(n + 1) \in Seq(M) /\ Len(Deltas(n + 1)) = n + 1
    BY DEF Deltas
  <1>2. <<"sse", "open">> \in Seq(M) /\ Len(<<"sse", "open">>) = 2
    OBVIOUS
  <1>3. /\ s \in Seq(M) /\ Len(s) = n + 2
        /\ u \in Seq(M) /\ Len(u) = n + 3
    BY <1>1, <1>2, ConcatProperties
  <1>4. Append(s, "delta") \in Seq(M) /\ Len(Append(s, "delta")) = n + 3
    BY <1>3
  <1>5. ASSUME NEW k \in 1..(n + 3) PROVE Append(s, "delta")[k] = u[k]
    <2>1. u[k] = IF k <= 2 THEN <<"sse", "open">>[k] ELSE "delta"
      BY <1>1, <1>2, ConcatProperties DEF Deltas
    <2>2. k <= n + 2 => s[k] = IF k <= 2 THEN <<"sse", "open">>[k] ELSE "delta"
      BY <1>1, <1>2, ConcatProperties DEF Deltas
    <2> HIDE DEF s, u
    <2> QED
      BY <1>3, <2>1, <2>2
  <1> HIDE DEF s, u, M
  <1>6. Append(s, "delta") = u
    BY <1>3, <1>4, <1>5, SeqEqual
  <1> QED
    BY <1>6 DEF s, u

LEMMA PairAppended ==
  ASSUME NEW a, NEW b
  PROVE  Append(<<a>>, b) = <<a, b>>
  <1>1. /\ <<a, b>> \in Seq({a, b}) /\ Len(<<a, b>>) = 2
        /\ <<a>> \in Seq({a, b}) /\ Len(<<a>>) = 1
    OBVIOUS
  <1>2. Append(<<a>>, b) \in Seq({a, b}) /\ Len(Append(<<a>>, b)) = 2
    BY <1>1
  <1>3. \A k \in 1..2 : Append(<<a>>, b)[k] = <<a, b>>[k]
    BY <1>1
  <1> QED
    BY <1>1, <1>2, <1>3, SeqEqual

\* The client that kept up after the write kept up before it and got the item.
LEMMA Written ==
  ASSUME TypeOK, NEW c \in Conns, NEW item, WriteAll(c, item), sock'[c] = "ok", timeouts'[c] = 0
  PROVE  sock[c] = "ok" /\ timeouts[c] = 0 /\ out'[c] = Append(out[c], item)
  <1>t. /\ sock \in [Conns -> {"ok", "gone"}] /\ timeouts \in [Conns -> Nat]
        /\ out \in [Conns -> Seq(Items)]
    BY DEF TypeOK, ReplyType
  <1> QED
    BY <1>t DEF WriteAll

LEMMA AnswerBystander ==
  ASSUME NEW c \in Conns, AnswerInv(c), Bystander(c)
  PROVE  AnswerInv(c)' /\ Completes(c)
  <1> USE DEF AnswerInv, Bystander, Completes, Streams, NotStarted, OpenPcs
  <1>1. CASE wpc'[c] = wpc[c]
    BY <1>1 DEF Sent
  <1>2. CASE wpc[c] \in NotStarted /\ wpc'[c] \in NotStarted \cup {"reset", "read", "closed"}
    BY <1>2 DEF Sent
  <1> QED
    BY <1>1, <1>2

LEMMA AnswerWorker ==
  ASSUME TypeOK, NEW c \in Conns, AnswerInv(c), WorkerStep(c)
  PROVE  AnswerInv(c)' /\ Completes(c)
  <1> USE DEF AnswerInv, Completes, Streams, Goto, Respond, replyVars, genVars, NotStarted, OpenPcs
  <1>t. /\ wpc \in [Conns -> Pcs] /\ sock \in [Conns -> {"ok", "gone"}]
        /\ out \in [Conns -> Seq(Items)] /\ timeouts \in [Conns -> Nat]
        /\ status \in [Conns -> Statuses] /\ produced \in [Conns -> Nat]
    BY DEF TypeOK, WorkerType, ReplyType, GenType
  <1>1. CASE ReadRequest(c) \/ Route(c) \/ Render(c) \/ MakeId(c)
    <2>1. wpc[c] \in {"read", "route", "render", "id"} /\ Sent(c) = <<>> /\ produced[c] = 0
      BY <1>1, <1>t DEF ReadRequest, Route, Render, MakeId, Sent
    <2>2. /\ out'[c] = out[c] /\ sock'[c] = sock[c] /\ timeouts'[c] = timeouts[c]
          /\ req' = req /\ produced' = produced
      BY <1>1 DEF ReadRequest, Route, Render, MakeId
    <2>3. /\ wpc'[c] \in {"route", "close", "head", "render", "id", "sse", "lock"}
          /\ wpc'[c] = "close" => wpc[c] = "read"
          /\ wpc'[c] = "lock" => ~Streams(c)
          /\ wpc'[c] = "sse" => Streams(c) /\ req[c].kind = "generate"
          /\ wpc'[c] \in {"id", "lock"} => req[c].kind = "generate"
          /\ wpc'[c] = "head" => req[c].kind # "generate"
      BY <1>1, <1>t DEF ReadRequest, Route, Render, MakeId
    <2>4. Sent(c)' = <<>>
      BY <2>2, <2>3 DEF Sent
    <2> QED
      BY <2>1, <2>2, <2>3, <2>4
  <1>2. CASE SendSseHeaders(c)
    <2>1. /\ wpc[c] = "sse" /\ wpc'[c] = "open" /\ WriteAll(c, "sse")
          /\ UNCHANGED <<req, status, produced>>
      BY <1>2, <1>t DEF SendSseHeaders
    <2>2. Sent(c) = <<>> /\ Sent(c)' = <<"sse">> /\ Append(<<>>, "sse") = <<"sse">>
      BY <2>1 DEF Sent
    <2> QED
      BY <2>1, <2>2, Written
  <1>3. CASE SendOpening(c)
    <2>1. /\ wpc[c] = "open" /\ wpc'[c] = "lock" /\ WriteAll(c, "open")
          /\ UNCHANGED <<req, status, produced>> /\ Streams(c) /\ produced[c] = 0
      BY <1>3, <1>t DEF SendOpening
    <2>2. Append(<<"sse">>, "open") = <<"sse", "open">>
      BY PairAppended
    <2>3. Sent(c) = <<"sse">> /\ Sent(c)' = <<"sse", "open">>
      BY <2>1, NoDeltas DEF Sent
    <2> QED
      BY <2>1, <2>2, <2>3, Written
  <1>4. CASE LockGen(c) \/ Prefill(c) \/ DecodeEnd(c)
    <2>1. /\ wpc[c] \in {"lock", "prefill", "decode"} /\ wpc'[c] \in {"prefill", "decode", "unlock"}
          /\ wpc'[c] = "prefill" => wpc[c] = "lock"
          /\ UNCHANGED <<req, sock, out, timeouts, status, produced>>
      BY <1>4, <1>t DEF LockGen, Prefill, DecodeEnd
    <2>2. Sent(c)' = Sent(c)
      BY <2>1 DEF Sent
    <2> QED
      BY <2>1, <2>2
  <1>5. CASE DecodeToken(c)
    <2>1. /\ wpc[c] = "decode" /\ wpc'[c] = "decode" /\ UNCHANGED <<req, status>>
          /\ produced'[c] = produced[c] + 1 /\ produced[c] \in Nat
      BY <1>5, <1>t DEF DecodeToken
    <2>2. CASE Streams(c)
      <3>1. WriteAll(c, "delta")
        BY <1>5, <2>2 DEF DecodeToken
      <3>2. /\ Sent(c) = <<"sse", "open">> \o Deltas(produced[c])
            /\ Sent(c)' = <<"sse", "open">> \o Deltas(produced[c] + 1)
        BY <2>1, <2>2 DEF Sent
      <3> QED
        BY <2>1, <2>2, <3>1, <3>2, Written, OneMoreDelta
    <2>3. CASE ~Streams(c)
      <3>1. Sent(c) = <<>> /\ Sent(c)' = <<>> /\ UNCHANGED <<sock, out, timeouts>>
        BY <1>5, <2>1, <2>3 DEF Sent, DecodeToken
      <3> QED
        BY <2>1, <2>3, <3>1
    <2> QED
      BY <2>2, <2>3
  <1>6. CASE UnlockGen(c)
    <2>1. /\ wpc[c] = "unlock" /\ wpc'[c] \in {"closing", "head", "format"}
          /\ Streams(c) <=> wpc'[c] = "closing"
          /\ UNCHANGED <<req, sock, out, timeouts, produced>>
      BY <1>6, <1>t DEF UnlockGen
    <2>2. Sent(c)' = Sent(c)
      BY <2>1 DEF Sent
    <2> QED
      BY <2>1, <2>2
  <1>7. CASE SendClosing(c)
    <2>1. /\ wpc[c] = "closing" /\ wpc'[c] = "close" /\ WriteAll(c, "close")
          /\ UNCHANGED <<req, status, produced>> /\ Streams(c) /\ req[c].kind = "generate"
      BY <1>7, <1>t DEF SendClosing
    <2> DEFINE s == <<"sse", "open">> \o Deltas(produced[c])
    <2>2. Sent(c) = s
      BY <2>1 DEF Sent
    <2>3. Transcript(c)' = s \o <<"close">>
      BY <2>1 DEF Transcript, Deltas
    <2>4. s \in Seq({"sse", "open", "delta"})
      <3>1. <<"sse", "open">> \in Seq({"sse", "open", "delta"})
        OBVIOUS
      <3>2. Deltas(produced[c]) \in Seq({"sse", "open", "delta"})
        BY <1>t DEF Deltas
      <3> QED
        BY <3>1, <3>2
    <2> HIDE DEF s
    <2>5. Append(s, "close") = s \o <<"close">>
      BY <2>4
    <2> QED
      BY <2>1, <2>2, <2>3, <2>5, Written
  <1>8. CASE Format(c) \/ MakeToolId(c)
    <2>1. /\ wpc[c] \in {"format", "toolid"} /\ wpc'[c] \in {"toolid", "head"}
          /\ UNCHANGED <<req, sock, out, timeouts, produced>>
      BY <1>8, <1>t DEF Format, MakeToolId
    <2>2. Sent(c) = <<>> /\ Sent(c)' = <<>>
      BY <2>1 DEF Sent
    <2> QED
      BY <2>1, <2>2
  <1>9. CASE SendHead(c)
    <2>1. /\ wpc[c] = "head" /\ wpc'[c] = "body" /\ WriteAll(c, status[c])
          /\ UNCHANGED <<req, status, produced>>
      BY <1>9, <1>t DEF SendHead
    <2>2. Sent(c) = <<>> /\ Sent(c)' = <<status[c]>> /\ Append(<<>>, status[c]) = <<status[c]>>
      BY <2>1 DEF Sent
    <2> QED
      BY <2>1, <2>2, Written
  <1>10. CASE SendBody(c)
    <2>1. /\ wpc[c] = "body" /\ wpc'[c] = "close" /\ WriteAll(c, "body")
          /\ UNCHANGED <<req, status, produced>>
      BY <1>10, <1>t DEF SendBody
    <2>2. Append(<<status[c]>>, "body") = <<status[c], "body">>
      BY PairAppended
    <2>3. Sent(c) = <<status[c]>> /\ Transcript(c)' = <<status[c], "body">>
      BY <2>1 DEF Sent, Transcript
    <2> QED
      BY <2>1, <2>2, <2>3, Written
  <1>11. CASE CloseConn(c)
    <2>1. wpc[c] = "close" /\ wpc'[c] = "closed" /\ UNCHANGED req
      BY <1>11, <1>t DEF CloseConn
    <2> QED
      BY <2>1
  <1> QED
    BY <1>1, <1>2, <1>3, <1>4, <1>5, <1>6, <1>7, <1>8, <1>9, <1>10, <1>11 DEF WorkerStep

\* Whoever reads its socket and sent a whole request gets the whole answer, each
\* generated token in it, before the connection is closed, whatever the other
\* threads, the signals and the engine do meanwhile.
THEOREM AnswersAreComplete == Spec => AnswerComplete
  <1> DEFINE Inv == HandoffInv /\ \A c \in Conns : AnswerInv(c)
             Step == \A c \in Conns :
                       /\ wpc[c] \notin {"read", "close"} /\ wpc'[c] = "close"
                       /\ sock'[c] = "ok" /\ timeouts'[c] = 0
                       => out'[c] = Transcript(c)'
  <1>1. Init => Inv
    BY HandoffInit, AnswerInit
  <1>2. Inv /\ [Next]_vars => Inv' /\ Step
    <2> SUFFICES ASSUME Inv, [Next]_vars PROVE Inv' /\ Step
      OBVIOUS
    <2>1. HandoffInv'
      BY HandoffStep
    <2>2. ASSUME NEW c \in Conns PROVE AnswerInv(c)' /\ Completes(c)
      BY AnswerWorker, AnswerBystander, Bystanders DEF HandoffInv
    <2> QED
      BY <2>1, <2>2 DEF Completes
  <1>3. Inv /\ [Next]_vars => [Step]_vars
    BY <1>2
  <1> QED
    BY <1>1, <1>2, <1>3, PTL DEF Spec, AnswerComplete

-----------------------------------------------------------------------------
(* The tool-call scanners.                                                   *)

\* Inside a block or not, after i tokens.
InsideOp(text, in, i) ==
  IF i = 0 THEN FALSE ELSE IF in THEN text[i] # "close" ELSE text[i] = "open"
Insides == INSTANCE FoldFacts WITH Op <- InsideOp
Inside(text) == Insides!Rec(text, 0, Len(text))

LEMMA InsideIs ==
  ASSUME NEW text, NEW n \in Nat, Len(text) = n
  PROVE  /\ Inside(text)[0] = FALSE
         /\ \A i \in 1..n : Inside(text)[i] = IF Inside(text)[i - 1] THEN text[i] # "close"
                                             ELSE text[i] = "open"
         /\ \A i \in 0..n : Inside(text)[i] \in BOOLEAN
         /\ InBlock(text) = [i \in DOMAIN text |-> Inside(text)[i] \/ Inside(text)[i - 1]]
<1>1. \A x, y : InsideOp(text, x, 0) = InsideOp(text, y, 0)
  BY DEF InsideOp
<1>2. 0 \in Int /\ n \in Int
  OBVIOUS
<1>3. \A i \in 0..n : Insides!Rec(text, 0, n)[i] = InsideOp(text, Insides!Rec(text, 0, n)[i - 1], i)
  BY <1>1, <1>2, Insides!RecAt
<1>4. PICK in : in = Inside(text)
  OBVIOUS
<1>5. \A i \in 0..n : in[i] = InsideOp(text, in[i - 1], i)
  BY <1>3, <1>4 DEF Inside
<1>6. in[0] = FALSE
  <2>1. 0 \in 0..n
    OBVIOUS
  <2> QED BY <1>5, <2>1 DEF InsideOp
<1>7. ASSUME NEW i \in 1..n PROVE in[i] = IF in[i - 1] THEN text[i] # "close" ELSE text[i] = "open"
  <2>1. i \in 0..n /\ i # 0
    OBVIOUS
  <2> QED BY <1>5, <2>1 DEF InsideOp
<1>8. ASSUME NEW i \in 0..n PROVE in[i] \in BOOLEAN
  <2>1. i = 0 \/ i \in 1..n
    OBVIOUS
  <2> QED BY <1>6, <1>7, <2>1
<1>9. InBlock(text) = [i \in DOMAIN text |-> Inside(text)[i] \/ Inside(text)[i - 1]]
  BY Zenon DEF InBlock, Inside, Insides!Rec, InsideOp
<1> QED BY <1>4, <1>6, <1>7, <1>8, <1>9

\* What is found is the first, what is not found is not there.
LEMMA FindIs ==
  ASSUME NEW text, NEW tok, NEW from \in Nat \ {0}, NEW n \in Nat, Len(text) = n
  PROVE  LET at == Find(text, tok, from)
         IN \/ at = 0 /\ \A i \in from..n : text[i] # tok
            \/ at \in from..n /\ text[at] = tok /\ \A i \in from..(at - 1) : text[i] # tok
<1> DEFINE at == {i \in from..n : text[i] = tok}
<1>1. CASE at = {}
  <2>1. Find(text, tok, from) = 0
    BY <1>1 DEF Find
  <2> QED BY <1>1, <2>1
<1>2. CASE at # {}
  <2>1. PICK m : m = Find(text, tok, from) /\ m = Min(at)
    BY <1>2 DEF Find
  <2>2. at \in SUBSET Nat
    OBVIOUS
  <2>3. PICK l \in at : \A k \in at : l <= k
    <3> HIDE DEF at
    <3> QED BY <1>2, <2>2, Insides!LeastNumber
  <2>4. m \in at /\ \A k \in at : m <= k
    <3> HIDE DEF at
    <3> QED BY <2>1, <2>3 DEF Min
  <2>5. m \in from..n /\ text[m] = tok
    BY <2>4
  <2>6. ASSUME NEW i \in from..(m - 1) PROVE text[i] # tok
    <3>1. i \in from..n /\ ~(m <= i)
      BY <2>5
    <3> QED BY <2>4, <3>1
  <2> QED BY <2>1, <2>5, <2>6
<1> QED BY <1>1, <1>2

\* Outside until a tag opens, inside until one closes.
Steady(text, in, a, b) ==
  \/ ~in[a] /\ \A i \in (a + 1)..b : text[i] # "open"
  \/ in[a] /\ \A i \in (a + 1)..b : text[i] # "close"
Same(in, a, b) == \A i \in a..b : in[i] = in[a]
LEMMA Stays ==
  ASSUME NEW text, NEW n \in Nat, Len(text) = n, NEW in, in = Inside(text),
         NEW a \in 0..n, NEW b \in a..n,
         Steady(text, in, a, b)
  PROVE  Same(in, a, b)
<1>0. \/ ~in[a] /\ \A i \in (a + 1)..b : text[i] # "open"
      \/ in[a] /\ \A i \in (a + 1)..b : text[i] # "close"
  BY DEF Steady
<1>1. \A i \in 1..n : in[i] = IF in[i - 1] THEN text[i] # "close" ELSE text[i] = "open"
  BY InsideIs
<1>2. in[a] \in BOOLEAN
  BY InsideIs
<1> DEFINE I == {m \in Nat : a + m <= b => in[a + m] = in[a]}
<1>3. 0 \in I
  BY Zenon, SMT
<1>4. ASSUME NEW m \in Nat, m \in I PROVE m + 1 \in I
  <2> SUFFICES ASSUME a + (m + 1) <= b PROVE in[a + (m + 1)] = in[a]
    OBVIOUS
  <2>1. PICK i \in 1..n : i = a + (m + 1) /\ i - 1 = a + m /\ i \in (a + 1)..b
    OBVIOUS
  <2>2. in[i - 1] = in[a]
    BY <1>4, <2>1
  <2>3. in[i] = IF in[a] THEN text[i] # "close" ELSE text[i] = "open"
    BY <1>1, <2>1, <2>2
  <2> QED BY <1>0, <1>2, <2>1, <2>3
<1>5. \A m \in Nat : m \in I
  <2> HIDE DEF I
  <2> QED BY <1>3, <1>4, Insides!NatInd
<1>6. ASSUME NEW i \in a..b PROVE in[i] = in[a]
  <2>1. PICK m \in Nat : m = i - a /\ a + m = i /\ a + m <= b
    OBVIOUS
  <2> QED BY <1>5, <2>1
<1> QED BY <1>6 DEF Same

\* The next block after p, from o to c; 0 where there is none.
NextBlock(text, n, p, o, c) ==
  \/ o = 0 /\ \A i \in p..n : text[i] # "open"
  \/ /\ o \in p..n /\ text[o] = "open" /\ \A i \in p..(o - 1) : text[i] # "open"
     /\ \/ c = 0 /\ \A i \in (o + 1)..n : text[i] # "close"
        \/ c \in (o + 1)..n /\ text[c] = "close" /\ \A i \in (o + 1)..(c - 1) : text[i] # "close"

\* Both scanners find it, one of them looking for the end from the tag on.
LEMMA BlockFound ==
  ASSUME NEW text, NEW n \in Nat, Len(text) = n, NEW p \in 1..(n + 1),
         NEW o, o = Find(text, "open", p)
  PROVE  /\ NextBlock(text, n, p, o, Find(text, "close", o + 1))
         /\ NextBlock(text, n, p, o, Find(text, "close", o))
<1>1. p \in Nat \ {0}
  OBVIOUS
<1>2. \/ o = 0 /\ \A i \in p..n : text[i] # "open"
      \/ o \in p..n /\ text[o] = "open" /\ \A i \in p..(o - 1) : text[i] # "open"
  BY <1>1, FindIs
<1>3. CASE o = 0 /\ \A i \in p..n : text[i] # "open"
  BY <1>3 DEF NextBlock
<1>4. CASE o \in p..n /\ text[o] = "open" /\ \A i \in p..(o - 1) : text[i] # "open"
  <2>1. o \in Nat \ {0} /\ o + 1 \in Nat \ {0}
    BY <1>4
  <2>2. PICK c : c = Find(text, "close", o + 1)
    OBVIOUS
  <2>3. \/ c = 0 /\ \A i \in (o + 1)..n : text[i] # "close"
        \/ c \in (o + 1)..n /\ text[c] = "close" /\ \A i \in (o + 1)..(c - 1) : text[i] # "close"
    BY <2>1, <2>2, FindIs
  <2>4. PICK d : d = Find(text, "close", o)
    OBVIOUS
  <2>5. \/ d = 0 /\ \A i \in o..n : text[i] # "close"
        \/ d \in o..n /\ text[d] = "close" /\ \A i \in o..(d - 1) : text[i] # "close"
    BY <2>1, <2>4, FindIs
  <2>6. \/ d = 0 /\ \A i \in (o + 1)..n : text[i] # "close"
        \/ d \in (o + 1)..n /\ text[d] = "close" /\ \A i \in (o + 1)..(d - 1) : text[i] # "close"
    <3>1. CASE d = 0 /\ \A i \in o..n : text[i] # "close"
      BY <2>1, <3>1
    <3>2. CASE d \in o..n /\ text[d] = "close" /\ \A i \in o..(d - 1) : text[i] # "close"
      <4>1. d # o
        BY <1>4, <3>2
      <4> QED BY <2>1, <3>2, <4>1
    <3> QED BY <2>5, <3>1, <3>2
  <2> QED BY <1>4, <2>2, <2>3, <2>4, <2>6 DEF NextBlock
<1> QED BY <1>2, <1>3, <1>4

\* Inside is from the opening tag to before the closing one.
Zones(in, n, p, o, c) ==
  /\ o = 0 => \A i \in (p - 1)..n : in[i] = FALSE
  /\ o # 0 => /\ o \in p..n /\ \A i \in (p - 1)..(o - 1) : in[i] = FALSE
              /\ c = 0 => \A i \in o..n : in[i] = TRUE
              /\ c # 0 => c \in (o + 1)..n /\ in[c] = FALSE /\ \A i \in o..(c - 1) : in[i] = TRUE
LEMMA BlockZones ==
  ASSUME NEW text, NEW n \in Nat, Len(text) = n, NEW in, in = Inside(text),
         NEW p \in 1..(n + 1), ~in[p - 1], NEW o, NEW c, NextBlock(text, n, p, o, c)
  PROVE  Zones(in, n, p, o, c)
<1>1. p - 1 \in 0..n /\ (p - 1) + 1 = p /\ in[p - 1] = FALSE
  BY InsideIs
<1>2. CASE o = 0
  <2>1. \A i \in p..n : text[i] # "open"
    BY <1>2 DEF NextBlock
  <2>2. n \in (p - 1)..n
    OBVIOUS
  <2>3. \A i \in (p - 1)..n : in[i] = in[p - 1]
    <3>1. PICK a \in 0..n : a = p - 1 /\ n \in a..n
      BY <1>1, <2>2
    <3>2. Steady(text, in, a, n)
      BY <1>1, <2>1, <3>1 DEF Steady
    <3>3. Same(in, a, n)
      BY <3>1, <3>2, Stays
    <3> QED BY <3>1, <3>3 DEF Same
  <2> QED BY <1>1, <1>2, <2>3 DEF Zones
<1>3. CASE o # 0
  <2>1. o \in p..n /\ text[o] = "open" /\ \A i \in p..(o - 1) : text[i] # "open"
    BY <1>3 DEF NextBlock
  <2>2. o - 1 \in (p - 1)..n
    BY <2>1
  <2>3. \A i \in (p - 1)..(o - 1) : in[i] = FALSE
    <3>a. PICK a \in 0..n : a = p - 1
      BY <1>1
    <3>1. PICK b \in a..n : a = p - 1 /\ b = o - 1
      BY <2>2, <3>a
    <3>2. ~in[a] /\ \A i \in (a + 1)..b : text[i] # "open"
      BY <1>1, <2>1, <3>1
    <3>3. \A i \in a..b : in[i] = in[a]
      <4>1. Same(in, a, b)
        <5>1. Steady(text, in, a, b)
          BY <3>2 DEF Steady
        <5> QED BY <5>1, Stays
      <4> QED BY <4>1 DEF Same
    <3>4. \A i \in (p - 1)..(o - 1) : in[i] = in[p - 1]
      BY <3>1, <3>3
    <3> QED BY <1>1, <3>4
  <2>4. o \in 0..n /\ o \in 1..n /\ in[o] = TRUE
    <3>1. o \in 1..n /\ o - 1 \in (p - 1)..(o - 1)
      BY <2>1
    <3>2. \A i \in 1..n : in[i] = IF in[i - 1] THEN text[i] # "close" ELSE text[i] = "open"
      BY InsideIs
    <3>3. in[o] = IF in[o - 1] THEN text[o] # "close" ELSE text[o] = "open"
      BY <3>1, <3>2
    <3>4. in[o - 1] = FALSE
      BY <2>3, <3>1
    <3>5. in[o] = TRUE
      BY <2>1, <3>3, <3>4, Zenon
    <3>6. o \in 0..n
      BY <3>1
    <3> QED BY <3>1, <3>5, <3>6
  <2>5. CASE c = 0
    <3>1. \A i \in (o + 1)..n : text[i] # "close"
      BY <1>3, <2>5 DEF NextBlock
    <3>2. n \in o..n
      BY <2>1
    <3>3. \A i \in o..n : in[i] = in[o]
      <4>1. Steady(text, in, o, n)
        BY <2>4, <3>1 DEF Steady
      <4>2. Same(in, o, n)
        BY <2>4, <3>2, <4>1, Stays
      <4> QED BY <4>2 DEF Same
    <3> QED BY <1>3, <2>1, <2>3, <2>4, <2>5, <3>3 DEF Zones
  <2>6. CASE c # 0
    <3>1. c \in (o + 1)..n /\ text[c] = "close" /\ \A i \in (o + 1)..(c - 1) : text[i] # "close"
      BY <1>3, <2>6 DEF NextBlock
    <3>2. c - 1 \in o..n /\ c \in 1..n
      BY <2>4, <3>1
    <3>3. \A i \in o..(c - 1) : in[i] = in[o]
      <4>1. PICK b \in o..n : b = c - 1
        BY <3>2
      <4>2. in[o] /\ \A i \in (o + 1)..b : text[i] # "close"
        BY <2>4, <3>1, <4>1
      <4>3. \A i \in o..b : in[i] = in[o]
        <5>1. Steady(text, in, o, b)
          BY <4>2 DEF Steady
        <5>2. Same(in, o, b)
          BY <2>4, <5>1, Stays
        <5> QED BY <5>2 DEF Same
      <4> QED BY <4>1, <4>3
    <3>4. in[c - 1] = TRUE
      BY <2>4, <3>1, <3>3
    <3>5. in[c] = FALSE
      <4>1. in[c] = IF in[c - 1] THEN text[c] # "close" ELSE text[c] = "open"
        BY <3>2, InsideIs
      <4> QED BY <3>1, <3>4, <4>1
    <3> QED BY <1>3, <2>1, <2>3, <2>4, <2>6, <3>1, <3>3, <3>5 DEF Zones
  <2> QED BY <2>5, <2>6
<1> QED BY <1>2, <1>3

\* Part, token by token.
PartOp(p, a, i) == IF i \in p[2] THEN Append(a, p[1][i]) ELSE a
Parts == INSTANCE FoldFacts WITH Op <- PartOp
Gathers(text, S, n, h) ==
  h[0] = <<>> /\ \A k \in 1..n : h[k] = IF k \in S THEN Append(h[k - 1], text[k]) ELSE h[k - 1]
LEMMA PartGathers ==
  ASSUME NEW E, NEW text \in Seq(E), NEW n \in Nat, Len(text) = n, NEW S
  PROVE  \E h : Gathers(text, S, n, h) /\ Part(text, S) = h[n]
<1>1. PICK p : p = <<text, S>>
  OBVIOUS
<1>2. PICK all : all = [i \in DOMAIN text |-> i]
  OBVIOUS
<1>3. all \in Seq(Nat) /\ Len(all) = n /\ \A k \in 1..n : all[k] = k
  BY <1>2
<1>4. Part(text, S) = Parts!Fold(<<text, S>>, <<>>, all)
  BY <1>2 DEF Part, FoldLeft, MapThenFoldSet, Parts!Fold, Parts!FoldLeft,
                           Parts!MapThenFoldSet, PartOp, Max, Parts!Max
<1>5. PICK h : Parts!Runs(p, <<>>, all, h)
  BY <1>3, Parts!FoldRuns
<1>6. h[0] = <<>> /\ (\A k \in 1..n : h[k] = PartOp(p, h[k - 1], all[k])) /\ Parts!Fold(p, <<>>, all) = h[n]
  BY <1>3, <1>5 DEF Parts!Runs
<1>7. ASSUME NEW k \in 1..n PROVE h[k] = IF k \in S THEN Append(h[k - 1], text[k]) ELSE h[k - 1]
  BY <1>1, <1>3, <1>6 DEF PartOp
<1>8. Part(text, S) = h[n]
  BY <1>1, <1>4, <1>6, Zenon
<1> QED BY <1>6, <1>7, <1>8 DEF Gathers

Gathered(text, S, n, x) == \E h : Gathers(text, S, n, h) /\ x = h[n]
LEMMA PartGathered ==
  ASSUME NEW E, NEW text \in Seq(E), NEW n \in Nat, Len(text) = n, NEW S
  PROVE  Gathered(text, S, n, Part(text, S))
BY PartGathers DEF Gathered

\* What is gathered is of what is looked for.
LEMMA GathersType ==
  ASSUME NEW text, NEW S, NEW n \in Nat, NEW h, Gathers(text, S, n, h), NEW F,
         \A k \in 1..n : k \in S => text[k] \in F
  PROVE  \A k \in 0..n : h[k] \in Seq(F)
<1> DEFINE I == {m \in Nat : m <= n => h[m] \in Seq(F)}
<1>1. 0 \in I
  <2>1. h[0] = <<>>
    BY DEF Gathers
  <2>2. <<>> \in Seq(F)
    OBVIOUS
  <2> QED BY <2>1, <2>2
<1>2. ASSUME NEW m \in Nat, m \in I PROVE m + 1 \in I
  <2> SUFFICES ASSUME m + 1 <= n PROVE h[m + 1] \in Seq(F)
    OBVIOUS
  <2>1. PICK k \in 1..n : k = m + 1 /\ k - 1 = m
    OBVIOUS
  <2>2. h[k] = IF k \in S THEN Append(h[m], text[k]) ELSE h[m]
    BY <2>1 DEF Gathers
  <2>3. h[m] \in Seq(F)
    BY <1>2, <2>1
  <2> QED BY <2>1, <2>2, <2>3
<1>3. \A m \in Nat : m \in I
  <2> HIDE DEF I
  <2> QED BY <1>1, <1>2, Parts!NatInd
<1> QED BY <1>3

\* A stretch is gathered whole, or not at all.
AllIn(S, a, b) == \A i \in (a + 1)..b : i \in S
Adds(text, h, a, b) == h[b] = h[a] \o SubSeq(text, a + 1, b)
NoneIn(S, a, b) == \A i \in (a + 1)..b : i \notin S
LEMMA GatherAll ==
  ASSUME NEW E, NEW text \in Seq(E), NEW n \in Nat, Len(text) = n, NEW S, NEW h,
         Gathers(text, S, n, h), NEW a \in 0..n, NEW b \in a..n, AllIn(S, a, b)
  PROVE  Adds(text, h, a, b)
<1>1. \A k \in 0..n : h[k] \in Seq(E)
  <2>1. \A k \in 1..n : k \in S => text[k] \in E
    OBVIOUS
  <2> QED BY <2>1, GathersType
<1> DEFINE J(m) == h[a + m] = h[a] \o SubSeq(text, a + 1, a + m)
           I == {m \in Nat : a + m <= b => J(m)}
<1>x. PICK x \in Seq(E) : x = h[a]
  BY <1>1
<1>2. 0 \in I
  <2>1. SubSeq(text, a + 1, a + 0) = <<>>
    OBVIOUS
  <2>2. x \o <<>> = x
    OBVIOUS
  <2>3. h[a + 0] = h[a]
    OBVIOUS
  <2>4. J(0)
    BY <1>x, <2>1, <2>2, <2>3, Zenon
  <2> HIDE DEF J
  <2> QED BY <2>4
<1>3. ASSUME NEW m \in Nat, m \in I PROVE m + 1 \in I
  <2>0. ASSUME a + (m + 1) <= b PROVE J(m + 1)
    <3>1. PICK k \in 1..n : k = a + (m + 1) /\ k - 1 = a + m /\ k \in (a + 1)..b
      BY <2>0
    <3>2. h[k] = Append(h[k - 1], text[k])
      BY <3>1 DEF Gathers, AllIn
    <3>3. J(m)
      <4> HIDE DEF J
      <4> QED BY <1>3, <2>0
    <3>4. PICK l : l = a + m
      OBVIOUS
    <3>5. l \in a..n /\ l + 1 = k /\ l = k - 1
      BY <3>1, <3>4
    <3>6. PICK y : y = SubSeq(text, a + 1, l)
      OBVIOUS
    <3>7. y \in Seq(E)
      BY <3>5, <3>6, SubSeqProperties
    <3>8. SubSeq(text, a + 1, k) = Append(y, text[k])
      BY <3>1, <3>5, <3>6
    <3>9. h[k] = Append(x \o y, text[k])
      BY <1>x, <3>2, <3>3, <3>4, <3>5, <3>6, Zenon
    <3>10. text[k] \in E
      OBVIOUS
    <3>11. Append(x \o y, text[k]) = x \o Append(y, text[k])
      <4>1. PICK e \in E : e = text[k]
        BY <3>10
      <4>2. PICK w : w = <<e>> /\ w \in Seq(E)
        <5>1. <<e>> \in Seq(E)
          BY <4>1
        <5> QED BY <5>1
      <4>3. x \o y \in Seq(E)
        BY <3>7
      <4>4. Append(x \o y, e) = (x \o y) \o w /\ Append(y, e) = y \o w
        BY <3>7, <4>2, <4>3, AppendIsConcat
      <4>5. (x \o y) \o w = x \o (y \o w)
        BY <3>7, <4>2, ConcatAssociative
      <4> QED BY <4>1, <4>4, <4>5
    <3> QED BY <1>x, <3>1, <3>8, <3>9, <3>11, Zenon
  <2> HIDE DEF J
  <2> QED BY <2>0
<1>4. \A m \in Nat : m \in I
  <2> HIDE DEF I
  <2> QED BY <1>2, <1>3, Parts!NatInd
<1>5. PICK m \in Nat : m = b - a /\ a + m = b
  OBVIOUS
<1>6. J(m)
  <2> HIDE DEF J
  <2> QED BY <1>4, <1>5
<1>7. h[b] = h[a] \o SubSeq(text, a + 1, b)
  BY <1>5, <1>6, Zenon
<1> QED BY <1>7 DEF Adds

\* Where nothing is taken nothing changes.
Skips(S, n, h) == \A k \in 1..n : k \notin S => h[k] = h[k - 1]
LEMMA StandsStill ==
  ASSUME NEW n \in Nat, NEW S, NEW h, Skips(S, n, h), NEW a \in 0..n, NEW b \in a..n, NoneIn(S, a, b)
  PROVE  h[b] = h[a]
<1> DEFINE I == {m \in Nat : a + m <= b => h[a + m] = h[a]}
<1>2. 0 \in I
  BY Zenon, SMT
<1>3. ASSUME NEW m \in Nat, m \in I PROVE m + 1 \in I
  <2> SUFFICES ASSUME a + (m + 1) <= b PROVE h[a + (m + 1)] = h[a]
    OBVIOUS
  <2>1. PICK k \in 1..n : k = a + (m + 1) /\ k - 1 = a + m /\ k \in (a + 1)..b
    OBVIOUS
  <2>2. h[k] = h[a + m]
    BY <2>1 DEF Skips, NoneIn
  <2> QED BY <1>3, <2>1, <2>2
<1>4. \A m \in Nat : m \in I
  <2> HIDE DEF I
  <2> QED BY <1>2, <1>3, Parts!NatInd
<1>5. PICK m \in Nat : m = b - a /\ a + m = b
  OBVIOUS
<1>6. m \in I
  BY <1>4
<1> QED BY <1>5, <1>6

\* strip_tool_calls, before the text is trimmed.
StripOp(text, f, p) ==
  LET o == Find(text, "open", p)
      c == Find(text, "close", o)
  IN IF o = 0 THEN SubSeq(text, p, Len(text))
     ELSE IF c = 0 THEN SubSeq(text, p, o - 1)
     ELSE SubSeq(text, p, o - 1) \o f[c + 1]
Strips == INSTANCE FoldFacts WITH Op <- StripOp
Stripped(text) == Strips!Down(text, Len(text) + 1)

LEMMA StripsAre ==
  ASSUME NEW text, NEW n \in Nat, Len(text) = n
  PROVE  /\ StripToolCalls(text) = Trim(Stripped(text)[1])
         /\ \A p \in 1..(n + 1) : Stripped(text)[p] = StripOp(text, Stripped(text), p)
<1>1. StripToolCalls(text) = Trim(Stripped(text)[1])
  BY Zenon DEF StripToolCalls, Stripped, Strips!Down, StripOp
<1>2. PICK m \in Nat : m = n + 1
  OBVIOUS
<1>3. ASSUME NEW f, NEW g, NEW p \in 1..m, \A j \in (p + 1)..m : f[j] = g[j]
      PROVE  StripOp(text, f, p) = StripOp(text, g, p)
  <2>1. PICK o : o = Find(text, "open", p)
    OBVIOUS
  <2>2. PICK c : c = Find(text, "close", o)
    OBVIOUS
  <2>3. NextBlock(text, n, p, o, c)
    BY <1>2, <2>1, <2>2, BlockFound
  <2>4. o # 0 /\ c # 0 => c + 1 \in (p + 1)..m
    BY <1>2, <2>3 DEF NextBlock
  <2>5. o # 0 /\ c # 0 => f[c + 1] = g[c + 1]
    BY <1>3, <2>4
  <2> QED BY <2>1, <2>2, <2>5 DEF StripOp
<1>4. \A p \in 1..m : Strips!Down(text, m)[p] = StripOp(text, Strips!Down(text, m), p)
  BY <1>3, Strips!DownAt
<1> QED BY <1>1, <1>2, <1>4 DEF Stripped

\* The tokens in no block, and the tags that open one.
InProse(text) == {i \in DOMAIN text : ~InBlock(text)[i]}
Prose(in, S, n) == \A i \in 1..n : i \in S <=> ~in[i] /\ ~in[i - 1]
LEMMA ProseIs ==
  ASSUME NEW E, NEW text \in Seq(E), NEW n \in Nat, Len(text) = n
  PROVE  /\ Prose(Inside(text), InProse(text), n)
         /\ Inside(text)[0] = FALSE
<1>1. PICK in : in = Inside(text)
  OBVIOUS
<1>2. PICK b : b = InBlock(text)
  OBVIOUS
<1>3. DOMAIN text = 1..n
  OBVIOUS
<1>4. b = [i \in DOMAIN text |-> Inside(text)[i] \/ Inside(text)[i - 1]] /\ in[0] = FALSE
  BY <1>1, <1>2, InsideIs, Zenon
<1>5. b = [i \in 1..n |-> in[i] \/ in[i - 1]]
  BY <1>1, <1>3, <1>4, Zenon
<1>6. InProse(text) = {i \in 1..n : ~b[i]}
  BY <1>2, <1>3, Zenon DEF InProse
<1>7. Prose(in, InProse(text), n)
  BY <1>5, <1>6 DEF Prose
<1> QED BY <1>1, <1>4, <1>7

\* Both ways of joining.
LEMMA Regroup ==
  ASSUME NEW E, NEW x \in Seq(E), NEW y \in Seq(E), NEW z \in Seq(E)
  PROVE  (x \o y) \o z = x \o (y \o z) /\ y \o z \in Seq(E)
<1>1. (x \o y) \o z = x \o (y \o z)
  BY ConcatAssociative
<1> QED BY <1>1

\* It is what lies in no block.
LEMMA StrippedIs ==
  ASSUME NEW E, NEW text \in Seq(E), NEW n \in Nat, Len(text) = n
  PROVE  Stripped(text)[1] = Part(text, InProse(text))
<1>0. PICK S : S = InProse(text)
  OBVIOUS
<1>1. PICK h : Gathers(text, S, n, h) /\ Part(text, S) = h[n]
  <2>1. Gathered(text, S, n, Part(text, S))
    BY PartGathered
  <2> QED BY <2>1 DEF Gathered
<1>s. Skips(S, n, h)
  BY <1>1 DEF Gathers, Skips
<1>2. PICK f, in : f = Stripped(text) /\ in = Inside(text)
  OBVIOUS
<1>3. \A i \in 1..n : i \in S <=> ~in[i] /\ ~in[i - 1]
  <2>1. Prose(in, S, n)
    BY <1>0, <1>2, ProseIs
  <2> QED BY <2>1 DEF Prose
<1>4. \A k \in 0..n : h[k] \in Seq(E)
  <2>1. \A k \in 1..n : k \in S => text[k] \in E
    OBVIOUS
  <2> QED BY <1>1, <2>1, GathersType
<1> DEFINE C(p) == f[p] \in Seq(E) /\ h[n] = h[p - 1] \o f[p]
           I == {m \in Nat : \A p \in 1..(n + 1) : (n + 1) - p < m /\ ~in[p - 1] => C(p)}
<1>5. 0 \in I
  <2> HIDE DEF C
  <2> QED OBVIOUS
<1>6. ASSUME NEW m \in Nat, m \in I PROVE m + 1 \in I
  <2>1. ASSUME NEW p \in 1..(n + 1), (n + 1) - p < m + 1, ~in[p - 1] PROVE C(p)
    <3>1. PICK o, c : o = Find(text, "open", p) /\ c = Find(text, "close", o)
      OBVIOUS
    <3>2. NextBlock(text, n, p, o, c)
      BY <3>1, BlockFound
    <3>3. /\ o = 0 => \A i \in (p - 1)..n : in[i] = FALSE
          /\ o # 0 => /\ o \in p..n /\ \A i \in (p - 1)..(o - 1) : in[i] = FALSE
                      /\ c = 0 => \A i \in o..n : in[i] = TRUE
                      /\ c # 0 => c \in (o + 1)..n /\ in[c] = FALSE /\ \A i \in o..(c - 1) : in[i] = TRUE
      <4>1. Zones(in, n, p, o, c)
        BY <1>2, <2>1, <3>2, BlockZones
      <4> QED BY <4>1 DEF Zones
    <3>4. f[p] = IF o = 0 THEN SubSeq(text, p, n)
                 ELSE IF c = 0 THEN SubSeq(text, p, o - 1)
                 ELSE SubSeq(text, p, o - 1) \o f[c + 1]
      BY <1>2, <3>1, StripsAre DEF StripOp
    <3>5. PICK q \in 0..n : q = p - 1 /\ q + 1 = p
      OBVIOUS
    <3>6. PICK x \in Seq(E) : x = h[q]
      BY <1>4
    <3>7. CASE o = 0
      <4>1. n \in q..n /\ \A i \in (q + 1)..n : i \in S
        BY <1>3, <3>3, <3>5, <3>7
      <4>2. h[n] = h[q] \o SubSeq(text, q + 1, n)
        <5>1. AllIn(S, q, n)
          BY <4>1 DEF AllIn
        <5>2. Adds(text, h, q, n)
          BY <1>1, <4>1, <5>1, GatherAll
        <5> QED BY <5>2 DEF Adds
      <4>3. SubSeq(text, p, n) \in Seq(E)
        BY <3>5, SubSeqProperties
      <4> QED BY <3>4, <3>5, <3>7, <4>2, <4>3
    <3>8. CASE o # 0
      <4>1. PICK r \in q..n : r = o - 1 /\ r + 1 = o
        BY <3>3, <3>5, <3>8
      <4>2. \A i \in (q + 1)..r : i \in S
        <5>1. ASSUME NEW i \in (q + 1)..r PROVE i \in S
          <6>1. i \in 1..n /\ i \in (p - 1)..(o - 1) /\ i - 1 \in (p - 1)..(o - 1)
            BY <3>5, <4>1, <5>1
          <6> QED BY <1>3, <3>3, <3>8, <6>1
        <5> QED BY <5>1
      <4>3. h[r] = h[q] \o SubSeq(text, q + 1, r)
        <5>1. AllIn(S, q, r)
          BY <4>2 DEF AllIn
        <5>2. Adds(text, h, q, r)
          BY <1>1, <5>1, GatherAll
        <5> QED BY <5>2 DEF Adds
      <4>4. PICK y : y = SubSeq(text, p, r)
        OBVIOUS
      <4>5. y \in Seq(E) /\ h[r] = x \o y /\ r \in 0..n
        <5>1. p \in 1..(n + 1) /\ r \in (p - 1)..n
          BY <3>5, <4>1
        <5> QED BY <3>5, <3>6, <4>3, <4>4, <5>1, SubSeqProperties
      <4>6. CASE c = 0
        <5>1. n \in r..n /\ \A i \in (r + 1)..n : i \notin S
          BY <1>3, <3>3, <3>8, <4>1, <4>6
        <5>2. h[n] = h[r]
          <6>1. NoneIn(S, r, n)
            BY <5>1 DEF NoneIn
          <6>2. r \in 0..n /\ n \in r..n
            BY <4>5, <5>1
          <6> QED BY <1>s, <6>1, <6>2, StandsStill
        <5> QED BY <3>4, <3>5, <3>6, <3>8, <4>1, <4>4, <4>5, <4>6, <5>2
      <4>7. CASE c # 0
        <5>1. c \in (o + 1)..n /\ in[c] = FALSE /\ \A i \in o..(c - 1) : in[i] = TRUE
          BY <3>3, <3>8, <4>7
        <5>2. c \in r..n /\ \A i \in (r + 1)..c : i \notin S
          <6>1. c \in r..n
            BY <4>1, <5>1
          <6>2. ASSUME NEW i \in (r + 1)..c PROVE i \notin S
            <7>1. i \in 1..n /\ (i \in o..(c - 1) \/ i - 1 \in o..(c - 1))
              BY <4>1, <5>1, <6>2
            <7> QED BY <1>3, <5>1, <7>1
          <6> QED BY <6>1, <6>2
        <5>3. h[c] = h[r]
          <6>1. NoneIn(S, r, c)
            BY <5>2 DEF NoneIn
          <6>2. r \in 0..n /\ c \in r..n
            BY <4>5, <5>2
          <6> QED BY <1>s, <6>1, <6>2, StandsStill
        <5>4. PICK d \in 1..(n + 1) : d = c + 1 /\ d - 1 = c
          BY <4>1, <5>1
        <5>5. C(d)
          <6>1. (n + 1) - d < m /\ ~in[d - 1]
            BY <2>1, <3>5, <4>1, <5>1, <5>4
          <6> HIDE DEF C
          <6> QED BY <1>6, <6>1
        <5>6. f[d] \in Seq(E) /\ h[n] = (x \o y) \o f[d]
          BY <4>5, <5>3, <5>4, <5>5
        <5>7. f[p] = y \o f[d]
          BY <3>4, <3>8, <4>1, <4>4, <4>7, <5>4
        <5>8. h[n] = x \o (y \o f[d])
          <6>1. PICK z \in Seq(E) : z = f[d]
            BY <5>6
          <6>2. (x \o y) \o z = x \o (y \o z)
            BY <4>5, Regroup
          <6> QED BY <5>6, <6>1, <6>2
        <5>9. y \o f[d] \in Seq(E)
          <6>1. PICK z \in Seq(E) : z = f[d]
            BY <5>6
          <6> QED BY <4>5, <6>1, Regroup
        <5> QED BY <3>5, <3>6, <5>7, <5>8, <5>9
      <4> QED BY <4>6, <4>7
    <3> QED BY <3>7, <3>8
  <2> HIDE DEF C
  <2> QED BY <2>1
<1>7. \A m \in Nat : m \in I
  <2> HIDE DEF I
  <2> QED BY <1>5, <1>6, Strips!NatInd
<1>8. C(1)
  <2>1. n + 1 \in I /\ 1 \in 1..(n + 1) /\ (n + 1) - 1 < n + 1 /\ ~in[1 - 1]
    <3>1. in[0] = FALSE
      BY <1>2, ProseIs
    <3> HIDE DEF I
    <3> QED BY <1>7, <3>1
  <2> HIDE DEF C
  <2> QED BY <2>1
<1>9. h[0] = <<>> /\ <<>> \o f[1] = f[1]
  <2>1. h[0] = <<>>
    BY <1>1 DEF Gathers
  <2> QED BY <1>8, <2>1
<1>10. h[n] = h[0] \o f[1]
  <2>1. 1 - 1 = 0
    OBVIOUS
  <2> QED BY <1>8, <2>1
<1> QED BY <1>0, <1>1, <1>2, <1>9, <1>10

\* FlattenSeq, one sequence at a time.
FlattenOp(s, joined, i) == IF i = 1 THEN s[i] ELSE joined \o s[i]
Flattens == INSTANCE FoldFacts WITH Op <- FlattenOp
Joins(s, n, r) == r[1] = s[1] /\ \A i \in 2..n : r[i] = r[i - 1] \o s[i]

LEMMA FlattenJoins ==
  ASSUME NEW s, NEW n \in Nat \ {0}, Len(s) = n
  PROVE  \E r : Joins(s, n, r) /\ FlattenSeq(s) = r[n]
<1>1. \A x, y : FlattenOp(s, x, 1) = FlattenOp(s, y, 1)
  BY DEF FlattenOp
<1>2. 1 \in Int /\ n \in Int
  OBVIOUS
<1>3. \A i \in 1..n : Flattens!Rec(s, 1, n)[i] = FlattenOp(s, Flattens!Rec(s, 1, n)[i - 1], i)
  BY <1>1, <1>2, Flattens!RecAt
<1>4. PICK r : r = Flattens!Rec(s, 1, n)
  OBVIOUS
<1>5. \A i \in 1..n : r[i] = FlattenOp(s, r[i - 1], i)
  BY <1>3, <1>4
<1>6. Len(s) # 0
  OBVIOUS
<1>7. FlattenSeq(s) = Flattens!Rec(s, 1, Len(s))[Len(s)]
  BY <1>6, Zenon DEF FlattenSeq, Flattens!Rec, FlattenOp
<1>8. FlattenSeq(s) = r[n]
  BY <1>4, <1>7
<1>9. r[1] = s[1]
  <2>1. 1 \in 1..n
    OBVIOUS
  <2> QED BY <1>5, <2>1 DEF FlattenOp
<1>10. ASSUME NEW i \in 2..n PROVE r[i] = r[i - 1] \o s[i]
  <2>1. i \in 1..n /\ i # 1
    OBVIOUS
  <2> QED BY <1>5, <2>1 DEF FlattenOp
<1> QED BY <1>8, <1>9, <1>10 DEF Joins

\* One sequence more is joined at the end.
LEMMA FlattenMore ==
  ASSUME NEW E, NEW s \in Seq(Seq(E)), NEW e \in Seq(E)
  PROVE  FlattenSeq(s) \in Seq(E) /\ FlattenSeq(Append(s, e)) = FlattenSeq(s) \o e
<1>0. PICK m \in Nat : m = Len(s)
  OBVIOUS
<1>x. PICK t : t = Append(s, e)
  OBVIOUS
<1>1. m = Len(s) /\ t = Append(s, e)
  BY <1>0, <1>x
<1>2. Len(t) = m + 1 /\ t[m + 1] = e /\ \A i \in 1..m : t[i] = s[i] /\ s[i] \in Seq(E)
  BY <1>1
<1>3. PICK r2 : Joins(t, m + 1, r2) /\ FlattenSeq(t) = r2[m + 1]
  <2>1. PICK k \in Nat \ {0} : k = m + 1
    OBVIOUS
  <2> QED BY <1>2, <2>1, FlattenJoins
<1>4. CASE m = 0
  <2>1. s = <<>>
    <3>1. Len(s) = 0
      BY <1>1, <1>4
    <3> QED BY <3>1
  <2>2. FlattenSeq(s) = <<>>
    <3>1. Len(s) = 0
      BY <1>1, <1>4
    <3> QED BY <2>1, <3>1, Zenon DEF FlattenSeq
  <2>3. FlattenSeq(t) = e
    BY <1>2, <1>3, <1>4 DEF Joins
  <2> QED BY <1>1, <2>2, <2>3
<1>5. CASE m # 0
  <2>1. PICK r : Joins(s, m, r) /\ FlattenSeq(s) = r[m]
    <3>1. m \in Nat \ {0} /\ Len(s) = m
      BY <1>1, <1>5
    <3> QED BY <3>1, FlattenJoins
  <2> DEFINE I == {i \in Nat : i + 1 <= m => r[i + 1] \in Seq(E) /\ r2[i + 1] = r[i + 1]}
  <2>2. 0 \in I
    <3>1. r[1] = s[1] /\ r2[1] = t[1] /\ 1 \in 1..m
      BY <1>3, <1>5, <2>1 DEF Joins
    <3> QED BY <1>2, <3>1
  <2>3. ASSUME NEW i \in Nat, i \in I PROVE i + 1 \in I
    <3> SUFFICES ASSUME (i + 1) + 1 <= m PROVE r[(i + 1) + 1] \in Seq(E) /\ r2[(i + 1) + 1] = r[(i + 1) + 1]
      OBVIOUS
    <3>1. PICK j \in 2..m : j = (i + 1) + 1 /\ j - 1 = i + 1 /\ j \in 1..m /\ j \in 2..(m + 1)
      OBVIOUS
    <3>2. r[j] = r[j - 1] \o s[j] /\ r2[j] = r2[j - 1] \o t[j]
      BY <1>3, <2>1, <3>1 DEF Joins
    <3>3. r[j - 1] \in Seq(E) /\ r2[j - 1] = r[j - 1]
      BY <2>3, <3>1
    <3>4. s[j] \in Seq(E) /\ t[j] = s[j]
      BY <1>2, <3>1
    <3> QED BY <3>1, <3>2, <3>3, <3>4
  <2>4. \A i \in Nat : i \in I
    <3> HIDE DEF I
    <3> QED BY <2>2, <2>3, Flattens!NatInd
  <2>5. r[m] \in Seq(E) /\ r2[m] = r[m]
    <3>1. PICK i \in Nat : i = m - 1
      BY <1>5
    <3>2. i + 1 = m /\ i + 1 <= m
      BY <1>5, <3>1
    <3> QED BY <2>4, <3>2
  <2>6. r2[m + 1] = r2[m] \o t[m + 1]
    <3>1. PICK j \in 2..(m + 1) : j = m + 1 /\ j - 1 = m
      BY <1>5
    <3> QED BY <1>3, <3>1 DEF Joins
  <2> QED BY <1>1, <1>2, <1>3, <2>1, <2>5, <2>6
<1> QED BY <1>4, <1>5

\* The tags that open a block, and the block behind one.
Starts(text) ==
  {i \in DOMAIN text : text[i] = "open" /\ (i = 1 \/ ~InBlock(text)[i - 1] \/ text[i - 1] = "close")}
StartList(text) == Part([i \in DOMAIN text |-> i], Starts(text))
BlockAt(text, s) ==
  SubSeq(text, s + 1, (LET c == Find(text, "close", s) IN IF c = 0 THEN Len(text) + 1 ELSE c) - 1)
CallsAt(text, s) == [n \in DOMAIN s |-> CallOf(BlockAt(text, s[n]))]

\* A block starts where the text goes from outside to inside.
Enters(in, S, n) == \A i \in 1..n : i \in S <=> in[i] /\ ~in[i - 1]
LEMMA StartsAre ==
  ASSUME NEW E, NEW text \in Seq(E), NEW n \in Nat, Len(text) = n
  PROVE  Enters(Inside(text), Starts(text), n)
<1>1. PICK in : in = Inside(text)
  OBVIOUS
<1>2. PICK b : b = InBlock(text)
  OBVIOUS
<1>3. DOMAIN text = 1..n
  OBVIOUS
<1>4. b = [i \in DOMAIN text |-> Inside(text)[i] \/ Inside(text)[i - 1]]
  BY <1>2, InsideIs, Zenon
<1>5. b = [i \in 1..n |-> in[i] \/ in[i - 1]]
  BY <1>1, <1>3, <1>4, Zenon
<1>6. Starts(text) = {i \in 1..n : text[i] = "open" /\ (i = 1 \/ ~b[i - 1] \/ text[i - 1] = "close")}
  BY <1>2, <1>3, Zenon DEF Starts
<1>7. /\ in[0] = FALSE
      /\ \A i \in 1..n : in[i] = IF in[i - 1] THEN text[i] # "close" ELSE text[i] = "open"
  BY <1>1, InsideIs
<1>8. ASSUME NEW i \in 1..n PROVE i \in Starts(text) <=> in[i] /\ ~in[i - 1]
  <2>1. i \in Starts(text) <=> text[i] = "open" /\ (i = 1 \/ ~b[i - 1] \/ text[i - 1] = "close")
    BY <1>6
  <2>2. in[i] = IF in[i - 1] THEN text[i] # "close" ELSE text[i] = "open"
    BY <1>7
  <2>3. CASE i = 1
    <3>1. in[i - 1] = FALSE
      BY <1>7, <2>3
    <3>2. i \in Starts(text) <=> text[i] = "open"
      BY <2>1, <2>3
    <3> QED BY <2>2, <3>1, <3>2
  <2>4. CASE i # 1
    <3>1. PICK j \in 1..n : j = i - 1
      BY <2>4
    <3>2. b[j] = (in[j] \/ in[j - 1])
      BY <1>5
    <3>3. in[j] = IF in[j - 1] THEN text[j] # "close" ELSE text[j] = "open"
      BY <1>7
    <3>4. i \in Starts(text) <=> text[i] = "open" /\ (~b[j] \/ text[j] = "close")
      BY <2>1, <2>4, <3>1
    <3>5. in[i] = IF in[j] THEN text[i] # "close" ELSE text[i] = "open"
      BY <2>2, <3>1
    <3>6. in[j] = TRUE \/ in[j] = FALSE
      BY <3>3
    <3>7. CASE in[j] = TRUE
      <4>1. b[j] /\ text[j] # "close"
        BY <3>2, <3>3, <3>7
      <4> QED BY <3>1, <3>4, <3>7, <4>1
    <3>8. CASE in[j] = FALSE
      <4>1. ~b[j] \/ text[j] = "close"
        BY <3>2, <3>3, <3>8
      <4> QED BY <3>1, <3>4, <3>5, <3>8, <4>1
    <3> QED BY <3>6, <3>7, <3>8
  <2> QED BY <2>3, <2>4
<1> QED BY <1>1, <1>8 DEF Enters

\* The calls read, token by token.
Reads(text, S, n, g) ==
  /\ g[0] = <<>>
  /\ \A k \in 1..n : g[k] = IF k \in S THEN g[k - 1] \o CallOf(BlockAt(text, k)) ELSE g[k - 1]
HasReads(text, S, n, x) ==
  \E g : Reads(text, S, n, g) /\ (\A k \in 0..n : g[k] \in Seq(Calls)) /\ x = g[n]

\* Each block gives at most one call.
LEMMA CallIs == ASSUME NEW inner PROVE CallOf(inner) \in Seq(Calls)
<1>1. PICK t : t = Trim(inner)
  OBVIOUS
<1>2. CallOf(inner) = IF t # << >> /\ Head(t) \in Calls THEN <<Head(t)>> ELSE << >>
  BY <1>1 DEF CallOf
<1> QED BY <1>2

\* The calls of the blocks are what is read over the whole text.
LEMMA BlocksRead ==
  ASSUME NEW E, NEW text \in Seq(E), NEW n \in Nat, Len(text) = n
  PROVE  HasReads(text, Starts(text), n,
                  FlattenSeq([k \in DOMAIN Blocks(text) |-> CallOf(Blocks(text)[k])]))
<1>1. PICK all : all = [i \in DOMAIN text |-> i]
  OBVIOUS
<1>2. all \in Seq(Nat) /\ Len(all) = n /\ \A k \in 1..n : all[k] = k
  BY <1>1
<1>3. PICK S : S = Starts(text)
  OBVIOUS
<1>4. PICK h : Gathers(all, S, n, h) /\ Part(all, S) = h[n]
  <2>1. Gathered(all, S, n, Part(all, S))
    BY <1>2, PartGathered
  <2> QED BY <2>1 DEF Gathered
<1>5. \A k \in 0..n : h[k] \in Seq(Nat)
  <2>1. \A k \in 1..n : k \in S => all[k] \in Nat
    BY <1>2
  <2> QED BY <1>4, <2>1, GathersType
<1>6. StartList(text) = h[n]
  BY <1>1, <1>3, <1>4 DEF StartList
<1>7. Blocks(text) = [k \in DOMAIN StartList(text) |-> BlockAt(text, StartList(text)[k])]
  BY Zenon DEF Blocks, StartList, Starts, BlockAt
<1>8. PICK b, s : b = Blocks(text) /\ s = StartList(text)
  OBVIOUS
<1>9. [k \in DOMAIN b |-> CallOf(b[k])] = CallsAt(text, s)
  <2>1. b = [k \in DOMAIN s |-> BlockAt(text, s[k])]
    BY <1>7, <1>8
  <2>2. DOMAIN b = DOMAIN s /\ \A k \in DOMAIN s : b[k] = BlockAt(text, s[k])
    BY <2>1
  <2> QED BY <2>2, Zenon DEF CallsAt
<1> DEFINE g == [k \in 0..n |-> FlattenSeq(CallsAt(text, h[k]))]
<1>10. FlattenSeq([k \in DOMAIN Blocks(text) |-> CallOf(Blocks(text)[k])]) = g[n]
  <2>1. n \in 0..n
    OBVIOUS
  <2>2. g[n] = FlattenSeq(CallsAt(text, h[n]))
    BY <2>1
  <2> HIDE DEF g
  <2> QED BY <1>6, <1>8, <1>9, <2>2
<1>11. ASSUME NEW s2 \in Seq(Nat)
       PROVE  CallsAt(text, s2) \in Seq(Seq(Calls)) /\ Len(CallsAt(text, s2)) = Len(s2)
  <2>1. PICK m \in Nat : m = Len(s2) /\ DOMAIN s2 = 1..m
    OBVIOUS
  <2>2. PICK c : c = CallsAt(text, s2)
    OBVIOUS
  <2>3. c = [k \in 1..m |-> CallOf(BlockAt(text, s2[k]))]
    BY <2>1, <2>2, Zenon DEF CallsAt
  <2>4. \A k \in 1..m : CallOf(BlockAt(text, s2[k])) \in Seq(Calls)
    BY CallIs
  <2>5. c \in [1..m -> Seq(Calls)]
    BY <2>3, <2>4
  <2> QED BY <2>1, <2>2, <2>5
<1>12. \A k \in 0..n : g[k] \in Seq(Calls)
  <2>1. ASSUME NEW k \in 0..n PROVE FlattenSeq(CallsAt(text, h[k])) \in Seq(Calls)
    <3>1. CallsAt(text, h[k]) \in Seq(Seq(Calls))
      BY <1>5, <1>11
    <3>2. <<>> \in Seq(Calls)
      OBVIOUS
    <3> QED BY <3>1, <3>2, FlattenMore
  <2> QED BY <2>1
<1>13. g[0] = <<>>
  <2>1. 0 \in 0..n
    OBVIOUS
  <2>2. g[0] = FlattenSeq(CallsAt(text, h[0]))
    BY <2>1
  <2>3. h[0] = <<>>
    BY <1>4 DEF Gathers
  <2>4. PICK c : c = CallsAt(text, h[0])
    OBVIOUS
  <2>5. c \in Seq(Seq(Calls)) /\ Len(c) = 0
    BY <1>5, <1>11, <2>1, <2>3, <2>4
  <2>6. FlattenSeq(c) = c
    BY <2>5, Zenon DEF FlattenSeq
  <2> HIDE DEF g
  <2> QED BY <2>2, <2>4, <2>5, <2>6
<1>14. ASSUME NEW k \in 1..n
       PROVE  g[k] = IF k \in S THEN g[k - 1] \o CallOf(BlockAt(text, k)) ELSE g[k - 1]
  <2>1. PICK j \in 0..n : j = k - 1
    OBVIOUS
  <2>2. g[k] = FlattenSeq(CallsAt(text, h[k])) /\ g[j] = FlattenSeq(CallsAt(text, h[j]))
    OBVIOUS
  <2> HIDE DEF g
  <2>3. CASE k \notin S
    <3>1. h[k] = h[j]
      BY <1>4, <2>1, <2>3 DEF Gathers
    <3> QED BY <2>1, <2>2, <2>3, <3>1
  <2>4. CASE k \in S
    <3>1. h[k] = Append(h[j], k)
      BY <1>2, <1>4, <2>1, <2>4 DEF Gathers
    <3>2. PICK x \in Seq(Nat) : x = h[j]
      BY <1>5
    <3>3. PICK e \in Seq(Calls) : e = CallOf(BlockAt(text, k))
      BY CallIs
    <3>4. PICK y, z : y = CallsAt(text, x) /\ z = CallsAt(text, Append(x, k))
      OBVIOUS
    <3>5. /\ y \in Seq(Seq(Calls)) /\ Len(y) = Len(x)
          /\ z \in Seq(Seq(Calls)) /\ Len(z) = Len(Append(x, k))
      <4>1. Append(x, k) \in Seq(Nat)
        OBVIOUS
      <4> QED BY <1>11, <3>4, <4>1
    <3>6. PICK m \in Nat : m = Len(x)
      OBVIOUS
    <3>7. ASSUME NEW i \in 1..(m + 1) PROVE z[i] = Append(y, e)[i]
      <4>1. PICK w : w = Append(x, k)
        OBVIOUS
      <4>2. /\ DOMAIN x = 1..m /\ DOMAIN w = 1..(m + 1) /\ w[m + 1] = k
            /\ \A a \in 1..m : w[a] = x[a]
        BY <3>6, <4>1
      <4>3. z[i] = CallOf(BlockAt(text, w[i]))
        BY <3>4, <4>1, <4>2, Zenon DEF CallsAt
      <4>4. CASE i = m + 1
        <5>1. Append(y, e)[i] = e
          <6>1. y \in Seq(Seq(Calls)) /\ Len(y) = m /\ i = Len(y) + 1
            BY <3>5, <3>6, <4>4
          <6> QED BY <6>1
        <5>2. w[i] = k
          BY <4>2, <4>4
        <5> QED BY <3>3, <4>3, <5>1, <5>2
      <4>5. CASE i \in 1..m
        <5>1. Append(y, e)[i] = y[i]
          BY <3>5, <3>6, <4>5
        <5>2. y[i] = CallOf(BlockAt(text, x[i]))
          BY <3>4, <4>2, <4>5, Zenon DEF CallsAt
        <5>3. w[i] = x[i]
          BY <4>2, <4>5
        <5>4. z[i] = y[i]
          BY <4>3, <5>2, <5>3
        <5> QED BY <5>1, <5>4
      <4>6. i = m + 1 \/ i \in 1..m
        OBVIOUS
      <4> QED BY <4>4, <4>5, <4>6, Zenon
    <3>8. z = Append(y, e)
      <4>1. Len(z) = m + 1
        BY <3>5, <3>6
      <4>2. Append(y, e) \in Seq(Seq(Calls)) /\ Len(Append(y, e)) = m + 1
        BY <3>5, <3>6
      <4> QED BY <3>5, <3>7, <4>1, <4>2, SeqEqual
    <3>9. FlattenSeq(Append(y, e)) = FlattenSeq(y) \o e
      BY <3>5, FlattenMore
    <3> QED BY <2>1, <2>2, <2>4, <3>1, <3>2, <3>3, <3>4, <3>8, <3>9
  <2> QED BY <2>3, <2>4
<1>15. Reads(text, S, n, g)
  <2> HIDE DEF g
  <2> QED BY <1>13, <1>14 DEF Reads
<1> HIDE DEF g
<1> QED BY <1>3, <1>10, <1>12, <1>15 DEF HasReads

\* srv_parse_tool_calls_from_text, from each place on.
ParseOp(text, f, p) ==
  LET o == Find(text, "open", p)
      c == Find(text, "close", o + 1)
  IN IF o = 0 THEN << >>
     ELSE IF c = 0 THEN CallOf(SubSeq(text, o + 1, Len(text)))
     ELSE CallOf(SubSeq(text, o + 1, c - 1)) \o f[c + 1]
Parses == INSTANCE FoldFacts WITH Op <- ParseOp
Parsed(text) == Parses!Down(text, Len(text) + 1)

LEMMA ParsesAre ==
  ASSUME NEW text, NEW n \in Nat, Len(text) = n
  PROVE  /\ ParseToolCalls(text) = Parsed(text)[1]
         /\ \A p \in 1..(n + 1) : Parsed(text)[p] = ParseOp(text, Parsed(text), p)
<1>1. ParseToolCalls(text) = Parsed(text)[1]
  BY Zenon DEF ParseToolCalls, Parsed, Parses!Down, ParseOp
<1>2. PICK m \in Nat : m = n + 1
  OBVIOUS
<1>3. ASSUME NEW f, NEW g, NEW p \in 1..m, \A j \in (p + 1)..m : f[j] = g[j]
      PROVE  ParseOp(text, f, p) = ParseOp(text, g, p)
  <2>1. PICK o : o = Find(text, "open", p)
    OBVIOUS
  <2>2. PICK c : c = Find(text, "close", o + 1)
    OBVIOUS
  <2>3. NextBlock(text, n, p, o, c)
    BY <1>2, <2>1, <2>2, BlockFound
  <2>4. o # 0 /\ c # 0 => c + 1 \in (p + 1)..m
    BY <1>2, <2>3 DEF NextBlock
  <2>5. o # 0 /\ c # 0 => f[c + 1] = g[c + 1]
    BY <1>3, <2>4
  <2> QED BY <2>1, <2>2, <2>5 DEF ParseOp
<1>4. \A p \in 1..m : Parses!Down(text, m)[p] = ParseOp(text, Parses!Down(text, m), p)
  BY <1>3, Parses!DownAt
<1> QED BY <1>1, <1>2, <1>4 DEF Parsed

\* One block has one end.
LEMMA EndIs ==
  ASSUME NEW text, NEW n \in Nat, NEW p \in 1..(n + 1), NEW o, o # 0, NEW c, NEW d,
         NextBlock(text, n, p, o, c), NextBlock(text, n, p, o, d)
  PROVE  c = d
<1>1. /\ o \in p..n
      /\ \/ c = 0 /\ \A i \in (o + 1)..n : text[i] # "close"
         \/ c \in (o + 1)..n /\ text[c] = "close" /\ \A i \in (o + 1)..(c - 1) : text[i] # "close"
      /\ \/ d = 0 /\ \A i \in (o + 1)..n : text[i] # "close"
         \/ d \in (o + 1)..n /\ text[d] = "close" /\ \A i \in (o + 1)..(d - 1) : text[i] # "close"
  BY DEF NextBlock
<1>2. CASE c \in (o + 1)..n /\ d \in (o + 1)..n
  <2>1. ~(c \in (o + 1)..(d - 1)) /\ ~(d \in (o + 1)..(c - 1))
    BY <1>1, <1>2
  <2> QED BY <1>1, <1>2, <2>1
<1> QED BY <1>1, <1>2

\* What is parsed from a place outside every block is what is read from there on.
LEMMA ParsedIs ==
  ASSUME NEW E, NEW text \in Seq(E), NEW n \in Nat, Len(text) = n
  PROVE  Parsed(text)[1] = FlattenSeq([k \in DOMAIN Blocks(text) |-> CallOf(Blocks(text)[k])])
<1>0. PICK S : S = Starts(text)
  OBVIOUS
<1>x. PICK total : total = FlattenSeq([k \in DOMAIN Blocks(text) |-> CallOf(Blocks(text)[k])])
  OBVIOUS
<1>1. PICK g : Reads(text, S, n, g) /\ (\A k \in 0..n : g[k] \in Seq(Calls)) /\ total = g[n]
  <2>1. HasReads(text, S, n, total)
    BY <1>0, <1>x, BlocksRead, Zenon
  <2> QED BY <2>1 DEF HasReads
<1>s. Skips(S, n, g)
  BY <1>1 DEF Reads, Skips
<1>2. PICK f, in : f = Parsed(text) /\ in = Inside(text)
  OBVIOUS
<1>3. \A i \in 1..n : i \in S <=> in[i] /\ ~in[i - 1]
  <2>1. Enters(in, S, n)
    BY <1>0, <1>2, StartsAre
  <2> QED BY <2>1 DEF Enters
<1> DEFINE C(p) == f[p] \in Seq(Calls) /\ g[n] = g[p - 1] \o f[p]
           I == {m \in Nat : \A p \in 1..(n + 1) : (n + 1) - p < m /\ ~in[p - 1] => C(p)}
<1>5. 0 \in I
  <2> HIDE DEF C
  <2> QED OBVIOUS
<1>6. ASSUME NEW m \in Nat, m \in I PROVE m + 1 \in I
  <2>1. ASSUME NEW p \in 1..(n + 1), (n + 1) - p < m + 1, ~in[p - 1] PROVE C(p)
    <3>1. PICK o, c : o = Find(text, "open", p) /\ c = Find(text, "close", o + 1)
      OBVIOUS
    <3>2. NextBlock(text, n, p, o, c) /\ NextBlock(text, n, p, o, Find(text, "close", o))
      BY <3>1, BlockFound
    <3>3. /\ o = 0 => \A i \in (p - 1)..n : in[i] = FALSE
          /\ o # 0 => /\ o \in p..n /\ \A i \in (p - 1)..(o - 1) : in[i] = FALSE
                      /\ c = 0 => \A i \in o..n : in[i] = TRUE
                      /\ c # 0 => c \in (o + 1)..n /\ in[c] = FALSE /\ \A i \in o..(c - 1) : in[i] = TRUE
      <4>1. Zones(in, n, p, o, c)
        BY <1>2, <2>1, <3>2, BlockZones
      <4> QED BY <4>1 DEF Zones
    <3>4. f[p] = IF o = 0 THEN << >>
                 ELSE IF c = 0 THEN CallOf(SubSeq(text, o + 1, n))
                 ELSE CallOf(SubSeq(text, o + 1, c - 1)) \o f[c + 1]
      BY <1>2, <3>1, ParsesAre DEF ParseOp
    <3>5. PICK q \in 0..n : q = p - 1 /\ q + 1 = p
      OBVIOUS
    <3>6. PICK x \in Seq(Calls) : x = g[q]
      BY <1>1
    <3>7. CASE o = 0
      <4>1. n \in q..n /\ \A i \in (q + 1)..n : i \notin S
        BY <1>3, <3>3, <3>5, <3>7
      <4>2. g[n] = g[q]
        <5>1. NoneIn(S, q, n)
          BY <4>1 DEF NoneIn
        <5> QED BY <1>s, <4>1, <5>1, StandsStill
      <4> QED BY <3>4, <3>5, <3>6, <3>7, <4>2
    <3>8. CASE o # 0
      <4>1. PICK r \in q..n : r = o - 1 /\ r + 1 = o
        BY <3>3, <3>5, <3>8
      <4>2. \A i \in (q + 1)..r : i \notin S
        <5>1. ASSUME NEW i \in (q + 1)..r PROVE i \notin S
          <6>1. i \in 1..n /\ i \in (p - 1)..(o - 1)
            BY <3>5, <4>1, <5>1
          <6> QED BY <1>3, <3>3, <3>8, <6>1
        <5> QED BY <5>1
      <4>3. g[r] = g[q]
        <5>1. NoneIn(S, q, r)
          BY <4>2 DEF NoneIn
        <5> QED BY <1>s, <5>1, StandsStill
      <4>4. o \in 1..n /\ o \in S
        <5>1. o \in 1..n /\ o - 1 \in (p - 1)..(o - 1)
          BY <3>3, <3>5, <3>8
        <5>2. in[o - 1] = FALSE
          BY <3>3, <3>8, <5>1
        <5>3. in[o] = TRUE
          <6>1. c = 0 => o \in o..n
            BY <5>1
          <6>2. c # 0 => o \in o..(c - 1)
            BY <3>3, <3>8
          <6> QED BY <3>3, <3>8, <6>1, <6>2
        <5> QED BY <1>3, <5>1, <5>2, <5>3
      <4>5. PICK y \in Seq(Calls) : y = CallOf(BlockAt(text, o))
        BY CallIs
      <4>6. g[o] = x \o y
        <5>1. g[o] = g[o - 1] \o CallOf(BlockAt(text, o))
          BY <1>1, <4>4 DEF Reads
        <5> QED BY <3>6, <4>1, <4>3, <4>5, <5>1
      <4>7. Find(text, "close", o) = c
        BY <3>2, <3>8, EndIs
      <4>8. BlockAt(text, o) = IF c = 0 THEN SubSeq(text, o + 1, n) ELSE SubSeq(text, o + 1, c - 1)
        <5>1. (n + 1) - 1 = n
          OBVIOUS
        <5> QED BY <4>7, <5>1 DEF BlockAt
      <4>9. CASE c = 0
        <5>1. o \in 0..n /\ n \in o..n
          BY <4>4
        <5>2. \A i \in (o + 1)..n : i \notin S
          <6>1. ASSUME NEW i \in (o + 1)..n PROVE i \notin S
            <7>1. i \in 1..n /\ i - 1 \in o..n
              BY <4>4, <6>1
            <7> QED BY <1>3, <3>3, <3>8, <4>9, <7>1
          <6> QED BY <6>1
        <5>3. g[n] = g[o]
          <6>1. NoneIn(S, o, n)
            BY <5>2 DEF NoneIn
          <6> QED BY <1>s, <5>1, <6>1, StandsStill
        <5>4. f[p] = y
          BY <3>4, <3>8, <4>5, <4>8, <4>9
        <5> QED BY <3>5, <3>6, <4>5, <4>6, <5>3, <5>4
      <4>10. CASE c # 0
        <5>1. c \in (o + 1)..n /\ in[c] = FALSE /\ \A i \in o..(c - 1) : in[i] = TRUE
          BY <3>3, <3>8, <4>10
        <5>2. o \in 0..n /\ c \in o..n
          BY <4>4, <5>1
        <5>3. \A i \in (o + 1)..c : i \notin S
          <6>1. ASSUME NEW i \in (o + 1)..c PROVE i \notin S
            <7>1. i \in 1..n /\ i - 1 \in o..(c - 1)
              BY <4>4, <5>1, <6>1
            <7> QED BY <1>3, <5>1, <7>1
          <6> QED BY <6>1
        <5>4. g[c] = g[o]
          <6>1. NoneIn(S, o, c)
            BY <5>3 DEF NoneIn
          <6> QED BY <1>s, <5>2, <6>1, StandsStill
        <5>5. PICK d \in 1..(n + 1) : d = c + 1 /\ d - 1 = c
          BY <4>4, <5>1
        <5>6. C(d)
          <6>1. (n + 1) - d < m /\ ~in[d - 1]
            BY <2>1, <4>1, <3>5, <5>1, <5>5
          <6> HIDE DEF C
          <6> QED BY <1>6, <6>1
        <5>7. PICK z \in Seq(Calls) : z = f[d]
          BY <5>6
        <5>8. g[n] = (x \o y) \o z /\ f[p] = y \o z
          <6>1. g[n] = (x \o y) \o z
            BY <4>6, <5>4, <5>5, <5>6, <5>7
          <6>2. f[p] = y \o z
            BY <3>4, <3>8, <4>5, <4>8, <4>10, <5>5, <5>7
          <6> QED BY <6>1, <6>2
        <5>9. g[n] = x \o (y \o z) /\ y \o z \in Seq(Calls)
          BY <5>8, Regroup
        <5> QED BY <3>5, <3>6, <5>8, <5>9
      <4> QED BY <4>9, <4>10
    <3> QED BY <3>7, <3>8
  <2> HIDE DEF C
  <2> QED BY <2>1
<1>7. \A m \in Nat : m \in I
  <2> HIDE DEF I
  <2> QED BY <1>5, <1>6, Parses!NatInd
<1>8. C(1)
  <2>1. n + 1 \in I /\ 1 \in 1..(n + 1) /\ (n + 1) - 1 < n + 1 /\ ~in[1 - 1]
    <3>1. in[0] = FALSE
      BY <1>2, ProseIs
    <3> HIDE DEF I
    <3> QED BY <1>7, <3>1
  <2> HIDE DEF C
  <2> QED BY <2>1
<1>9. g[0] = <<>>
  BY <1>1 DEF Reads
<1>10. g[n] = f[1]
  <2>1. 1 - 1 = 0
    OBVIOUS
  <2>2. <<>> \o f[1] = f[1]
    BY <1>8
  <2> QED BY <1>8, <1>9, <2>1, <2>2
<1> QED BY <1>x, <1>1, <1>2, <1>10

\* What is left of a text is of its tokens.
LEMMA TrimIs == ASSUME NEW F, NEW s \in Seq(F) PROVE Trim(s) \in Seq(F)
<1>1. PICK n \in Nat : n = Len(s) /\ DOMAIN s = 1..n
  OBVIOUS
<1>2. PICK solid : solid = {i \in DOMAIN s : s[i] # "ws"}
  OBVIOUS
<1>3. CASE solid = {}
  <2>1. Trim(s) = <<>>
    BY <1>2, <1>3 DEF Trim
  <2> QED BY <2>1
<1>4. CASE solid # {}
  <2>1. Trim(s) = SubSeq(s, Min(solid), Max(solid))
    BY <1>2, <1>4 DEF Trim
  <2>2. solid \in SUBSET (1..n)
    BY <1>1, <1>2
  <2>3. Max(solid) \in solid
    BY <1>4, <2>2, Parses!MaxIn DEF Max, Parses!Max
  <2>4. Min(solid) \in solid
    <3>1. solid \in SUBSET Nat
      BY <2>2
    <3>2. PICK l \in solid : \A k \in solid : l <= k
      BY <1>4, <3>1, Parses!LeastNumber
    <3> QED BY <3>2 DEF Min
  <2>5. PICK a \in 1..n, b \in 1..n : a = Min(solid) /\ b = Max(solid)
    BY <2>2, <2>3, <2>4
  <2>6. SubSeq(s, a, b) \in Seq(F)
    <3>1. CASE a <= b
      BY <1>1, <3>1, SubSeqProperties
    <3>2. CASE ~(a <= b)
      <4>1. SubSeq(s, a, b) = <<>>
        BY <3>2
      <4> QED BY <4>1
    <3> QED BY <3>1, <3>2
  <2> QED BY <2>1, <2>5, <2>6
<1> QED BY <1>3, <1>4

\* No call is left in the prose: no tag opens a block there.
LEMMA ProseHasNoCall ==
  ASSUME NEW E, NEW text \in Seq(E)
  PROVE  ParseToolCalls(Trim(Part(text, InProse(text)))) = << >>
<1>1. PICK n \in Nat : Len(text) = n
  OBVIOUS
<1>2. PICK S, in : S = InProse(text) /\ in = Inside(text)
  OBVIOUS
<1>3. PICK h : Gathers(text, S, n, h) /\ Part(text, S) = h[n]
  <2>1. Gathered(text, S, n, Part(text, S))
    BY <1>1, PartGathered
  <2> QED BY <2>1 DEF Gathered
<1>4. \A i \in 1..n : i \in S <=> ~in[i] /\ ~in[i - 1]
  <2>1. Prose(in, S, n)
    BY <1>1, <1>2, ProseIs
  <2> QED BY <2>1 DEF Prose
<1>5. PICK F : F = E \ {"open"}
  OBVIOUS
<1>6. \A k \in 1..n : k \in S => text[k] \in F
  <2>1. \A i \in 1..n : in[i] = IF in[i - 1] THEN text[i] # "close" ELSE text[i] = "open"
    BY <1>1, <1>2, InsideIs
  <2>2. ASSUME NEW k \in 1..n, k \in S PROVE text[k] \in F
    <3>1. text[k] # "open"
      BY <1>4, <2>1, <2>2
    <3>2. text[k] \in E
      BY <1>1
    <3> QED BY <1>5, <3>1, <3>2
  <2> QED BY <2>2
<1>7. h[n] \in Seq(F)
  <2>1. \A k \in 0..n : h[k] \in Seq(F)
    BY <1>3, <1>6, GathersType
  <2> QED BY <2>1
<1>8. PICK prose \in Seq(F) : prose = Trim(h[n])
  BY <1>7, TrimIs
<1>9. PICK m \in Nat : m = Len(prose) /\ \A i \in 1..m : prose[i] # "open"
  BY <1>5
<1>10. Find(prose, "open", 1) = 0
  <2>1. PICK o : o = Find(prose, "open", 1)
    OBVIOUS
  <2>2. NextBlock(prose, m, 1, o, Find(prose, "close", o))
    <3>1. 1 \in 1..(m + 1)
      OBVIOUS
    <3> QED BY <1>9, <2>1, <3>1, BlockFound
  <2>3. o = 0 \/ (o \in 1..m /\ prose[o] = "open")
    BY <2>2 DEF NextBlock
  <2> QED BY <1>9, <2>1, <2>3
<1>11. ParseToolCalls(prose) = ParseOp(prose, Parsed(prose), 1)
  <2>1. 1 \in 1..(m + 1)
    OBVIOUS
  <2> QED BY <1>9, <2>1, ParsesAre
<1>12. ParseToolCalls(prose) = <<>>
  BY <1>10, <1>11 DEF ParseOp
<1> QED BY <1>2, <1>3, <1>8, <1>12

(***************************************************************************)
(* The scanner that reads the tool calls of a reply and the one that       *)
(* strips them (srv_parse_tool_calls_from_text, strip_tool_calls) agree on *)
(* every text, of any tokens and any length: the calls are those of its    *)
(* blocks, once each and in order, the prose is what lies in none, and no  *)
(* call is left in it.                                                     *)
(***************************************************************************)
THEOREM ScannersSeeTheSame ==
  \A E : \A text \in Seq(E) : ScannersAgree(text, ParseToolCalls(text), StripToolCalls(text))
<1> SUFFICES ASSUME NEW E, NEW text \in Seq(E)
             PROVE  ScannersAgree(text, ParseToolCalls(text), StripToolCalls(text))
  OBVIOUS
<1>1. PICK n \in Nat : Len(text) = n
  OBVIOUS
<1>2. PICK found, kept : found = ParseToolCalls(text) /\ kept = StripToolCalls(text)
  OBVIOUS
<1>3. found = FlattenSeq([k \in DOMAIN Blocks(text) |-> CallOf(Blocks(text)[k])])
  BY <1>1, <1>2, ParsesAre, ParsedIs, Zenon
<1>4. kept = Trim(Part(text, InProse(text)))
  BY <1>1, <1>2, StripsAre, StrippedIs, Zenon
<1>5. ParseToolCalls(kept) = << >>
  BY <1>4, ProseHasNoCall, Zenon
<1>6. ScannersAgree(text, found, kept)
  BY <1>3, <1>4, <1>5, Zenon DEF ScannersAgree, InProse
<1> QED BY <1>2, <1>6

\* So they agree on every reply that the engine can generate, whatever its tokens and
\* wherever it is ended.
THEOREM RepliesScanAlike == ReplySpec => []SameBlocks
<1>1. NoReply => reply \in Seq(Tokens)
  BY DEF NoReply
<1>2. reply \in Seq(Tokens) /\ [NextToken]_reply => (reply \in Seq(Tokens))'
  BY DEF NextToken, Generate
<1>3. reply \in Seq(Tokens) => SameBlocks
  BY ScannersSeeTheSame DEF SameBlocks
<1> QED
  BY <1>1, <1>2, <1>3, PTL DEF ReplySpec
===============================================================================
