---------------------------- MODULE OrnithServer -----------------------------
(***************************************************************************)
(* The HTTP server of src/ornith_server.c: the accept loop of              *)
(* ornith_server_main, one detached thread per connection (conn_thread,    *)
(* handle_connection, run_request), the generation mutex g_gen_lock, the   *)
(* id counter, the signal handler and the shutdown path.  The kernel (file *)
(* descriptors, the listen queue, socket writes with a send timeout) and   *)
(* the clients are the environment.                                        *)
(***************************************************************************)
EXTENDS Naturals, Sequences, FiniteSets

CONSTANTS Conns,         \* client connections, each used once
          Requests,      \* the requests a client may send
          NFds,          \* size of the process's file-descriptor table
          Backlog,       \* listen(srv, 16): length of the kernel's queue
          IdMod,         \* make_id keeps the counter modulo 1000
          MaxCalls,      \* bound: tool calls in one generated text
          MaxStalls,     \* bound: send timeouts of one connection
          SignalThreads, \* threads the kernel may run on_signal on
          EngineMayFail, \* may a generation return an error (out of memory)?
          Main, NoConn, Listener, Free

Kinds == {"page", "models", "unroutable", "invalid", "promptless", "generate"}
RequestType == [kind : Kinds, api : {"chat", "responses", "anthropic"},
                stream : BOOLEAN, tools : {"absent", "offered", "forbidden"},
                max : Nat]

ASSUME ConnsAssumption ==
  /\ {Main, NoConn, Listener, Free} \cap Conns = {}
  /\ Main # Listener /\ Main # Free /\ Listener # Free
ASSUME RequestsAssumption == Requests \subseteq RequestType
ASSUME BoundsAssumption ==
  /\ NFds \in Nat \ {0} /\ IdMod \in Nat \ {0}
  /\ Backlog \in Nat /\ MaxCalls \in Nat /\ MaxStalls \in Nat
  /\ EngineMayFail \in BOOLEAN
  /\ SignalThreads \subseteq Conns \cup {Main}

VARIABLES
  main,       \* program counter of the accept loop
  mainConn,   \* cfd's connection between accept and pthread_create
  mainFd,     \* the descriptor accept() reserved before it blocked
  gStop,      \* g_stop
  modelFreed, \* rmodel_free(g_model) has run
  fdTable,    \* kernel: fdTable[fd] is what descriptor fd refers to
  queue,      \* kernel: connections waiting for accept()
  wpc,        \* wpc[c]: program counter of c's worker thread
  connFd,     \* connFd[c]: the descriptor number c's worker was given
  req,        \* req[c]: what the client asks
  sock,       \* sock[c]: "gone" once a write found the client gone
  out,        \* out[c]: what reached the wire, one item per write_all
  timeouts,   \* timeouts[c]: writes to c that ran into SO_SNDTIMEO
  status,     \* status[c]: HTTP status of the one-shot response
  told,       \* told[c]: finish reason the client is told
  holder,     \* owner of g_gen_lock
  produced,   \* produced[c]: tokens handed to on_token
  finish,     \* finish[c]: the local of that name ("length" is 1)
  failed,     \* failed[c]: rmodel_generate_ids_s returned an error
  reqCounter, \* g_req_counter
  ids,        \* ids[c]: the ids made for c, as <<prefix, counter digits>>
  calls       \* calls[c]: tool calls still to be given an id

mainVars   == <<main, mainConn, mainFd, gStop, modelFreed>>
kernelVars == <<fdTable, queue, connFd>>
replyVars  == <<sock, out, timeouts, status, told>>
genVars    == <<holder, produced, finish, failed>>
idVars     == <<reqCounter, ids, calls>>
vars == <<mainVars, kernelVars, wpc, req, replyVars, genVars, idVars>>

ListenFd == 1
Alive == main # "exited"

\* The listening socket lives while a descriptor or a blocked accept() holds it.
ListenerOpen == fdTable[ListenFd] = Listener \/ main = "blocked"

Pcs == {"none", "queued", "reset", "accepted", "read", "route", "render",
        "id", "sse", "open", "lock", "prefill", "decode", "unlock", "closing",
        "format", "toolid", "head", "body", "close", "closed"}
NotStarted    == {"none", "queued", "accepted"}
OpenPcs       == {"read", "route", "render", "id", "sse", "open", "lock"}
EngineSection == {"prefill", "decode", "unlock"}
AnswerPcs     == {"closing", "format", "toolid", "head", "body", "close"}
Running(c)    == wpc[c] \in OpenPcs \cup EngineSection \cup AnswerPcs

\* Tools in play force a single non-streaming response.
Streams(c) == req[c].stream /\ req[c].tools = "absent"

Init == /\ main = "test" /\ mainConn = NoConn /\ mainFd = ListenFd
        /\ gStop = FALSE /\ modelFreed = FALSE
        /\ fdTable = [fd \in 1..NFds |-> IF fd = ListenFd THEN Listener ELSE Free]
        /\ queue = <<>>
        /\ wpc = [c \in Conns |-> "none"]
        /\ connFd = [c \in Conns |-> ListenFd]
        /\ req \in [Conns -> Requests]
        /\ sock = [c \in Conns |-> "ok"]
        /\ out = [c \in Conns |-> <<>>]
        /\ timeouts = [c \in Conns |-> 0]
        /\ status = [c \in Conns |-> "none"]
        /\ told = [c \in Conns |-> "none"]
        /\ holder = NoConn
        /\ produced = [c \in Conns |-> 0]
        /\ finish = [c \in Conns |-> "length"]
        /\ failed = [c \in Conns |-> FALSE]
        /\ reqCounter = 0
        /\ ids = [c \in Conns |-> {}]
        /\ calls = [c \in Conns |-> 0]

-----------------------------------------------------------------------------
(* The main thread.                                                          *)

\* while (!g_stop)
TestStop == /\ main = "test"
            /\ main' = IF gStop THEN "shutdown" ELSE "accept"
            /\ UNCHANGED <<mainConn, mainFd, gStop, modelFreed>>
            /\ UNCHANGED <<kernelVars, wpc, req, replyVars, genVars, idVars>>

\* accept() takes the lowest free descriptor before it waits.
AcceptEnter == /\ main = "accept"
               /\ fdTable[ListenFd] = Listener
               /\ \E fd \in 1..NFds :
                     /\ fdTable[fd] = Free
                     /\ \A lower \in 1..(fd - 1) : fdTable[lower] # Free
                     /\ fdTable' = [fdTable EXCEPT ![fd] = Main]
                     /\ mainFd' = fd
               /\ main' = "blocked"
               /\ UNCHANGED <<mainConn, gStop, modelFreed, queue, connFd>>
               /\ UNCHANGED <<wpc, req, replyVars, genVars, idVars>>

\* accept() fails: the listener is closed (EBADF) or no descriptor is left
\* (EMFILE).  The loop ends if g_stop is set and tries again otherwise.
AcceptFails == /\ main = "accept"
               /\ \/ fdTable[ListenFd] # Listener
                  \/ \A fd \in 1..NFds : fdTable[fd] # Free
               /\ main' = IF gStop THEN "shutdown" ELSE "test"
               /\ UNCHANGED <<mainConn, mainFd, gStop, modelFreed>>
               /\ UNCHANGED <<kernelVars, wpc, req, replyVars, genVars, idVars>>

\* The connections in the queue when the listening socket goes away.
Reset(w, S) == [c \in Conns |-> IF c \in S /\ w[c] = "queued" THEN "reset" ELSE w[c]]

AcceptReturn == /\ main = "blocked"
                /\ queue # <<>>
                /\ LET c == Head(queue)
                       accepted == [wpc EXCEPT ![c] = "accepted"]
                   IN /\ mainConn' = c
                      /\ connFd' = [connFd EXCEPT ![c] = mainFd]
                      /\ fdTable' = [fdTable EXCEPT ![mainFd] = c]
                      /\ IF fdTable[ListenFd] = Listener
                         THEN wpc' = accepted /\ queue' = Tail(queue)
                         ELSE wpc' = Reset(accepted, Conns) /\ queue' = <<>>
                /\ main' = "spawn"
                /\ UNCHANGED <<mainFd, gStop, modelFreed>>
                /\ UNCHANGED <<req, replyVars, genVars, idVars>>

\* pthread_create and pthread_detach
Spawn == /\ main = "spawn"
         /\ wpc' = [wpc EXCEPT ![mainConn] = "read"]
         /\ main' = "test"
         /\ UNCHANGED <<mainConn, mainFd, gStop, modelFreed, kernelVars>>
         /\ UNCHANGED <<req, replyVars, genVars, idVars>>

\* Mutant: continue without close(cfd).
SpawnFailsNoClose == /\ main = "spawn"
                     /\ wpc' = [wpc EXCEPT ![mainConn] = "closed"]
                     /\ main' = "test"
                     /\ UNCHANGED <<mainConn, mainFd, gStop, modelFreed, kernelVars>>
                     /\ UNCHANGED <<req, replyVars, genVars, idVars>>

\* pthread_create fails: close(cfd); continue
SpawnFails == /\ main = "spawn"
              /\ wpc' = [wpc EXCEPT ![mainConn] = "closed"]
              /\ fdTable' = [fdTable EXCEPT ![connFd[mainConn]] = Free]
              /\ main' = "test"
              /\ UNCHANGED <<mainConn, mainFd, gStop, modelFreed, queue, connFd>>
              /\ UNCHANGED <<req, replyVars, genVars, idVars>>

\* After the loop: close(g_listen_fd), whatever that number refers to by now.
CloseListener == /\ main = "shutdown"
                 /\ fdTable' = [fdTable EXCEPT ![ListenFd] = Free]
                 /\ main' = "free"
                 /\ UNCHANGED <<mainConn, mainFd, gStop, modelFreed, queue, connFd>>
                 /\ UNCHANGED <<wpc, req, replyVars, genVars, idVars>>

\* rmodel_free(g_model): the detached workers are not waited for.
FreeModel == /\ main = "free"
             /\ modelFreed' = TRUE
             /\ main' = "return"
             /\ UNCHANGED <<mainConn, mainFd, gStop, kernelVars>>
             /\ UNCHANGED <<wpc, req, replyVars, genVars, idVars>>

\* return 0, and with it the process ends.
Exit == /\ main = "return"
        /\ main' = "exited"
        /\ UNCHANGED <<mainConn, mainFd, gStop, modelFreed>>
        /\ UNCHANGED <<kernelVars, wpc, req, replyVars, genVars, idVars>>

MainStep == \/ TestStop \/ AcceptEnter \/ AcceptFails \/ AcceptReturn
            \/ Spawn \/ SpawnFails \/ CloseListener \/ FreeModel \/ Exit

\* Mutant: the handler only sets g_stop.
OnSignalNoClose(t) ==
  /\ Alive
  /\ t = Main \/ (t \in Conns /\ Running(t))
  /\ IF gStop THEN main' = "exited" /\ UNCHANGED gStop
              ELSE gStop' = TRUE /\ UNCHANGED main
  /\ UNCHANGED <<mainConn, mainFd, modelFreed, kernelVars, wpc>>
  /\ UNCHANGED <<req, replyVars, genVars, idVars>>

\* on_signal.  A second signal is _exit(130).  The first sets g_stop and closes
\* the listener.  An accept() interrupted on the main thread is restarted and
\* then fails; one blocked while another thread runs the handler keeps waiting.
OnSignal(t) ==
  /\ Alive
  /\ t = Main \/ (t \in Conns /\ Running(t))
  /\ IF gStop
     THEN /\ main' = "exited"
          /\ UNCHANGED <<gStop, fdTable, queue, wpc>>
     ELSE LET interrupts == t = Main /\ main = "blocked"
              drops == main # "blocked" \/ t = Main
          IN /\ gStop' = TRUE
             /\ main' = IF interrupts THEN "accept" ELSE main
             /\ fdTable' = [fd \in 1..NFds |->
                              IF fd = ListenFd \/ (interrupts /\ fd = mainFd)
                              THEN Free ELSE fdTable[fd]]
             /\ IF drops THEN queue' = <<>> /\ wpc' = Reset(wpc, Conns)
                         ELSE UNCHANGED <<queue, wpc>>
  /\ UNCHANGED <<mainConn, mainFd, modelFreed, connFd>>
  /\ UNCHANGED <<req, replyVars, genVars, idVars>>

-----------------------------------------------------------------------------
(* A worker thread.                                                          *)

Goto(c, from, to) == Alive /\ wpc[c] = from /\ wpc' = [wpc EXCEPT ![c] = to]

\* write_all: the item goes out, or is torn by the send timeout while the client
\* does not read, or is dropped (EPIPE) because the client is gone for good.  No
\* caller looks at the result.
WriteAll(c, item) ==
  \/ /\ sock[c] = "ok"
     /\ out' = [out EXCEPT ![c] = Append(@, item)]
     /\ UNCHANGED <<sock, timeouts>>
  \/ /\ sock[c] = "ok" /\ timeouts[c] < MaxStalls
     /\ out' = [out EXCEPT ![c] = Append(@, "torn")]
     /\ timeouts' = [timeouts EXCEPT ![c] = @ + 1]
     /\ UNCHANGED sock
  \/ /\ sock' = [sock EXCEPT ![c] = "gone"]
     /\ UNCHANGED <<out, timeouts>>

\* read_request: a whole request, or -1 (timeout, end of file, oversized).
ReadRequest(c) == /\ \/ Goto(c, "read", "route")
                     \/ Goto(c, "read", "close")
                  /\ UNCHANGED <<mainVars, kernelVars, req, replyVars, genVars, idVars>>

Respond(c, from, code) == /\ Goto(c, from, "head")
                          /\ status' = [status EXCEPT ![c] = code]

\* handle_connection's routing, ojson_parse and the protocol parsers.
Route(c) ==
  /\ \/ req[c].kind \in {"page", "models"} /\ Respond(c, "route", "200")
     \/ req[c].kind = "unroutable"         /\ Respond(c, "route", "404")
     \/ req[c].kind = "invalid"            /\ Respond(c, "route", "400")
     \/ /\ req[c].kind \in {"promptless", "generate"}
        /\ Goto(c, "route", "render")
        /\ UNCHANGED status
  /\ UNCHANGED <<mainVars, kernelVars, req, sock, out, timeouts, told, genVars, idVars>>

\* Mutant: an empty prompt is dropped without send_error.
RenderNoError(c) ==
  /\ \/ req[c].kind = "promptless" /\ Goto(c, "render", "close")
     \/ req[c].kind = "generate" /\ Goto(c, "render", "id")
  /\ UNCHANGED <<mainVars, kernelVars, req, replyVars, genVars, idVars>>

\* srv_render_chatml_tools and build_prompt_ids; an empty prompt is a 400.
Render(c) ==
  /\ \/ req[c].kind = "promptless" /\ Respond(c, "render", "400")
     \/ req[c].kind = "generate" /\ Goto(c, "render", "id") /\ UNCHANGED status
  /\ UNCHANGED <<mainVars, kernelVars, req, sock, out, timeouts, told, genVars, idVars>>

\* Mutant: the counter is read without being advanced.
TakeIdUncounted(c, prefix) ==
  /\ ids' = [ids EXCEPT ![c] = @ \cup {<<prefix, reqCounter % IdMod>>}]
  /\ reqCounter' = reqCounter

\* The next suffix, all ids falling into one second of time(NULL).
TakeId(c, prefix) ==
  /\ ids' = [ids EXCEPT ![c] = @ \cup {<<prefix, reqCounter % IdMod>>}]
  /\ reqCounter' = reqCounter + 1

MakeId(c) == /\ Goto(c, "id", IF Streams(c) THEN "sse" ELSE "lock")
             /\ TakeId(c, "reply")
             /\ UNCHANGED <<mainVars, kernelVars, req, replyVars, genVars, calls>>

SendSseHeaders(c) == /\ Goto(c, "sse", "open")
                     /\ WriteAll(c, "sse")
                     /\ UNCHANGED <<mainVars, kernelVars, req, status, told, genVars, idVars>>

SendOpening(c) == /\ Goto(c, "open", "lock")
                  /\ WriteAll(c, "open")
                  /\ UNCHANGED <<mainVars, kernelVars, req, status, told, genVars, idVars>>

\* Mutant: pthread_mutex_lock is missing.
LockGenUnlocked(c) == /\ Goto(c, "lock", "prefill")
                      /\ holder' = c
                      /\ UNCHANGED <<mainVars, kernelVars, req, replyVars, idVars>>
                      /\ UNCHANGED <<produced, finish, failed>>

LockGen(c) == /\ Goto(c, "lock", "prefill")
              /\ holder = NoConn
              /\ holder' = c
              /\ UNCHANGED <<mainVars, kernelVars, req, replyVars, idVars>>
              /\ UNCHANGED <<produced, finish, failed>>

\* rmodel_session_new, rmodel_session_eval and the sampler's scratch buffer
Prefill(c) == /\ \/ Goto(c, "prefill", "decode") /\ UNCHANGED failed
                 \/ /\ EngineMayFail
                    /\ Goto(c, "prefill", "unlock")
                    /\ failed' = [failed EXCEPT ![c] = TRUE]
              /\ UNCHANGED <<mainVars, kernelVars, req, replyVars, idVars>>
              /\ UNCHANGED <<holder, produced, finish>>

\* Mutant: the loop runs once too often.
DecodeTokenOverCap(c) == /\ Goto(c, "decode", "decode")
                         /\ produced[c] <= req[c].max
                         /\ produced' = [produced EXCEPT ![c] = @ + 1]
                         /\ IF Streams(c) THEN WriteAll(c, "delta")
                                          ELSE UNCHANGED <<sock, out, timeouts>>
                         /\ UNCHANGED <<mainVars, kernelVars, req, status, told, idVars>>
                         /\ UNCHANGED <<holder, finish, failed>>

\* One turn of rmodel_session_generate's loop: a token for on_token ...
DecodeToken(c) == /\ Goto(c, "decode", "decode")
                  /\ produced[c] < req[c].max
                  /\ produced' = [produced EXCEPT ![c] = @ + 1]
                  /\ IF Streams(c) THEN WriteAll(c, "delta")
                                   ELSE UNCHANGED <<sock, out, timeouts>>
                  /\ UNCHANGED <<mainVars, kernelVars, req, status, told, idVars>>
                  /\ UNCHANGED <<holder, finish, failed>>

\* Mutant: finish = 0 is forgotten at a stop token.
DecodeEndKeepsFinish(c) == /\ Goto(c, "decode", "unlock")
                           /\ produced[c] <= req[c].max
                           /\ UNCHANGED <<mainVars, kernelVars, req, replyVars, idVars>>
                           /\ UNCHANGED genVars

\* ... or a stop token, or the cap.
DecodeEnd(c) == /\ Goto(c, "decode", "unlock")
                /\ \/ /\ produced[c] < req[c].max
                      /\ finish' = [finish EXCEPT ![c] = "stop"]
                   \/ produced[c] = req[c].max /\ UNCHANGED finish
                /\ UNCHANGED <<mainVars, kernelVars, req, replyVars, idVars>>
                /\ UNCHANGED <<holder, produced, failed>>

\* Mutant: the failed generation returns before the unlock.
UnlockGenNotOnError(c) ==
  /\ holder' = IF failed[c] THEN holder ELSE NoConn
  /\ \/ Streams(c) /\ Goto(c, "unlock", "closing") /\ UNCHANGED status
     \/ ~Streams(c) /\ failed[c] /\ Respond(c, "unlock", "500")
     \/ ~Streams(c) /\ ~failed[c] /\ Goto(c, "unlock", "format") /\ UNCHANGED status
  /\ UNCHANGED <<mainVars, kernelVars, req, sock, out, timeouts, told, idVars>>
  /\ UNCHANGED <<produced, finish, failed>>

\* Only the non-streaming path looks at the engine's status.
UnlockGen(c) ==
  /\ holder' = NoConn
  /\ \/ Streams(c) /\ Goto(c, "unlock", "closing") /\ UNCHANGED status
     \/ ~Streams(c) /\ failed[c] /\ Respond(c, "unlock", "500")
     \/ ~Streams(c) /\ ~failed[c] /\ Goto(c, "unlock", "format") /\ UNCHANGED status
  /\ UNCHANGED <<mainVars, kernelVars, req, sock, out, timeouts, told, idVars>>
  /\ UNCHANGED <<produced, finish, failed>>

\* The finish reason: Responses always says "completed".
Reason(c, tooled) == CASE req[c].api = "responses" -> "completed"
                       [] req[c].api # "responses" /\ tooled -> "tool_calls"
                       [] OTHER -> finish[c]

SendClosing(c) == /\ Goto(c, "closing", "close")
                  /\ WriteAll(c, "close")
                  /\ told' = [told EXCEPT ![c] = Reason(c, FALSE)]
                  /\ UNCHANGED <<mainVars, kernelVars, req, status, genVars, idVars>>

\* srv_parse_tool_calls_from_text finds n calls; they are surfaced only if tools
\* were offered and tool_choice is not "none".
Format(c) ==
  /\ \E n \in 0..MaxCalls :
        LET tooled == n > 0 /\ req[c].tools = "offered"
        IN /\ n > 0 => produced[c] > 0
           /\ told' = [told EXCEPT ![c] = Reason(c, tooled)]
           /\ IF tooled
              THEN /\ calls' = [calls EXCEPT ![c] = n]
                   /\ Goto(c, "format", "toolid") /\ UNCHANGED status
              ELSE Respond(c, "format", "200") /\ UNCHANGED calls
  /\ UNCHANGED <<mainVars, kernelVars, req, sock, out, timeouts, genVars, reqCounter, ids>>

\* Mutant: the loop over the calls is off by one.
MakeToolIdOnceMore(c) ==
  /\ TakeId(c, "call")
  /\ calls' = [calls EXCEPT ![c] = @ - 1]
  /\ \/ calls[c] >= 1 /\ Goto(c, "toolid", "toolid") /\ UNCHANGED status
     \/ calls[c] = 0 /\ Respond(c, "toolid", "200")
  /\ UNCHANGED <<mainVars, kernelVars, req, sock, out, timeouts, told, genVars>>

\* make_tool_id, once for each call.
MakeToolId(c) ==
  /\ TakeId(c, "call")
  /\ calls' = [calls EXCEPT ![c] = @ - 1]
  /\ \/ calls[c] > 1 /\ Goto(c, "toolid", "toolid") /\ UNCHANGED status
     \/ calls[c] = 1 /\ Respond(c, "toolid", "200")
  /\ UNCHANGED <<mainVars, kernelVars, req, sock, out, timeouts, told, genVars>>

SendHead(c) == /\ Goto(c, "head", "body")
               /\ WriteAll(c, status[c])
               /\ UNCHANGED <<mainVars, kernelVars, req, status, told, genVars, idVars>>

SendBody(c) == /\ Goto(c, "body", "close")
               /\ WriteAll(c, "body")
               /\ UNCHANGED <<mainVars, kernelVars, req, status, told, genVars, idVars>>

\* Mutant: the thread ends without close(fd).
CloseConnLeaks(c) == /\ Goto(c, "close", "closed")
                     /\ UNCHANGED <<mainVars, kernelVars, req, replyVars, genVars, idVars>>

\* conn_thread: close(fd) and the thread ends.
CloseConn(c) == /\ Goto(c, "close", "closed")
                /\ fdTable' = [fdTable EXCEPT ![connFd[c]] = Free]
                /\ UNCHANGED <<mainVars, queue, connFd, req, replyVars, genVars, idVars>>

WorkerStep(c) ==
  \/ ReadRequest(c) \/ Route(c) \/ Render(c) \/ MakeId(c)
  \/ SendSseHeaders(c) \/ SendOpening(c) \/ LockGen(c) \/ Prefill(c)
  \/ DecodeToken(c) \/ DecodeEnd(c) \/ UnlockGen(c) \/ SendClosing(c)
  \/ Format(c) \/ MakeToolId(c) \/ SendHead(c) \/ SendBody(c) \/ CloseConn(c)

-----------------------------------------------------------------------------
(* The clients, the kernel, and freed memory.                                *)

Connect(c) == /\ Alive
              /\ wpc[c] = "none"
              /\ ListenerOpen
              /\ Len(queue) < Backlog
              /\ queue' = Append(queue, c)
              /\ wpc' = [wpc EXCEPT ![c] = "queued"]
              /\ UNCHANGED <<mainVars, fdTable, connFd, req, replyVars, genVars, idVars>>

\* Steps that read the model, its tokenizer or its name (g_model, g_model_id).
UsesModel(c) == \/ wpc[c] \in {"render", "open", "prefill", "decode"}
                \/ wpc[c] \in {"closing", "format"}
                \/ wpc[c] = "route" /\ req[c].kind = "models"

\* Using the freed model may kill the process (or, unnoticed, go on).
UseFreedModel(c) == /\ Alive
                    /\ modelFreed
                    /\ UsesModel(c)
                    /\ main' = "exited"
                    /\ UNCHANGED <<mainConn, mainFd, gStop, modelFreed, kernelVars>>
                    /\ UNCHANGED <<wpc, req, replyVars, genVars, idVars>>

Next == \/ MainStep
        \/ \E t \in SignalThreads : OnSignal(t)
        \/ \E c \in Conns : \/ WorkerStep(c) \/ Connect(c)
                            \/ UseFreedModel(c)

Spec == Init /\ [][Next]_vars

\* Every thread that can run is eventually run; clients and signals owe nothing.
Fairness == WF_vars(MainStep) /\ \A c \in Conns : WF_vars(WorkerStep(c))
FairSpec == Spec /\ Fairness

-----------------------------------------------------------------------------
(* What must hold.                                                           *)

Statuses == {"none", "200", "400", "404", "500"}
Reasons == {"none", "length", "stop", "tool_calls", "completed"}
Items == Statuses \cup {"body", "sse", "open", "delta", "close", "torn"}

MainType ==
  /\ main \in {"test", "accept", "blocked", "spawn", "shutdown", "free", "return", "exited"}
  /\ mainConn \in Conns \cup {NoConn}
  /\ mainFd \in 1..NFds
  /\ gStop \in BOOLEAN /\ modelFreed \in BOOLEAN

KernelType ==
  /\ fdTable \in [1..NFds -> Conns \cup {Main, Listener, Free}]
  /\ queue \in Seq(Conns)
  /\ connFd \in [Conns -> 1..NFds]

WorkerType == wpc \in [Conns -> Pcs] /\ req \in [Conns -> Requests]

ReplyType ==
  /\ sock \in [Conns -> {"ok", "gone"}]
  /\ out \in [Conns -> Seq(Items)]
  /\ timeouts \in [Conns -> Nat]
  /\ status \in [Conns -> Statuses]
  /\ told \in [Conns -> Reasons]

GenType ==
  /\ holder \in Conns \cup {NoConn}
  /\ produced \in [Conns -> Nat]
  /\ finish \in [Conns -> {"length", "stop"}]
  /\ failed \in [Conns -> BOOLEAN]

IdType ==
  /\ reqCounter \in Nat
  /\ ids \in [Conns -> SUBSET ({"reply", "call"} \X (0..(IdMod - 1)))]
  /\ calls \in [Conns -> 0..MaxCalls]

\* Every variable has its type.
TypeOK == MainType /\ KernelType /\ WorkerType /\ ReplyType /\ GenType /\ IdType

\* "generation is serialized through the single loaded model behind a mutex":
\* a worker is between lock and unlock of g_gen_lock exactly when it owns it,
\* so no two workers are inside the engine.
GenExclusive == \A c \in Conns : wpc[c] \in EngineSection <=> holder = c

\* A connection owns its descriptor.
HasFd(c) == wpc[c] = "accepted" \/ Running(c)

\* A descriptor number handed to a worker refers to that worker's connection
\* until the worker closes it, whatever close(g_listen_fd) is done meanwhile by
\* the handler and again by main; and every other number is the listener's, the
\* pending accept's or free: nothing leaks when a thread cannot be created.
FdOwnership ==
  /\ \A c \in Conns : HasFd(c) => fdTable[connFd[c]] = c
  /\ \A fd \in 1..NFds :
        /\ fdTable[fd] \in Conns =>
              HasFd(fdTable[fd]) /\ connFd[fdTable[fd]] = fd
        /\ fdTable[fd] = Main => main \in {"blocked", "exited"} /\ mainFd = fd
        /\ fdTable[fd] = Listener => fd = ListenFd /\ ~gStop

\* The items of a complete answer to request c.
Transcript(c) ==
  IF req[c].kind = "generate" /\ Streams(c)
  THEN <<"sse", "open">> \o [i \in 1..produced[c] |-> "delta"] \o <<"close">>
  ELSE <<status[c], "body">>

\* A worker that has read a request closes its connection only after the whole
\* answer that request calls for, every generated token included, unless the
\* client went away or let a write time out.
AnswerComplete ==
  [][\A c \in Conns :
        /\ wpc[c] \notin {"read", "close"} /\ wpc'[c] = "close"
        /\ sock'[c] = "ok" /\ timeouts'[c] = 0
        => out'[c] = Transcript(c)']_vars

\* "Clean <|im_end|>/eos stop -> stop/end_turn; cap -> length/max_tokens": a
\* client told "length" was given as many tokens as it allowed, and one told
\* "stop" saw the model end its turn.
FinishHonest == \A c \in Conns :
  /\ told[c] = "length" => produced[c] = req[c].max
  /\ told[c] = "stop" => finish[c] = "stop"

\* "with a request-unique suffix": two requests never get the same id, as long
\* as the counter has not wrapped (the time in an id changes every second).
IdsUnique == reqCounter <= IdMod => \A c, d \in Conns : c # d => ids[c] \cap ids[d] = {}

\* "IO timeouts so a slow/stuck client can't hold a worker thread": a worker
\* runs into at most one send timeout.
StuckClientReleased == \A c \in Conns : timeouts[c] <= 1

\* "graceful shutdown": the model is there while a worker uses it.
ModelLiveWhileUsed == modelFreed /\ Alive => \A c \in Conns : ~UsesModel(c)

\* Every worker ends: neither a silent client, nor a stuck one, nor the workers
\* ahead of it at the lock keep it for ever.
WorkerReleased == \A c \in Conns : Running(c) ~> (wpc[c] = "closed" \/ ~Alive)

\* A queued connection is taken up or reset, although accept() fails whenever
\* the descriptors are used up.
QueueServed == \A c \in Conns : wpc[c] = "queued" ~> (wpc[c] # "queued" \/ ~Alive)

\* The first signal ends the process, also while accept() is waiting.
ShutdownCompletes == gStop ~> ~Alive

\* How far a worker has come, as EngineService sees it.
PhaseOf(pc) == CASE pc \in NotStarted -> "waiting"
                 [] pc \in OpenPcs -> "open"
                 [] pc \in EngineSection -> "generating"
                 [] pc \in AnswerPcs -> "answering"
                 [] pc \in {"reset", "closed"} -> "closed"

Service == INSTANCE EngineService WITH
  cap    <- [c \in Conns |-> req[c].max],
  engine <- holder,
  phase  <- [c \in Conns |-> PhaseOf(wpc[c])],
  tokens <- produced,
  halted <- main = "exited"

\* The server implements EngineService: however threads, signals and shutdown
\* interleave, the engine is lent to one connection at a time and once to each.
ServiceSpec == Service!Spec
==============================================================================
