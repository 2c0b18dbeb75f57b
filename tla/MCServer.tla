------------------------------ MODULE MCServer -------------------------------
(* Instances of OrnithServer for TLC.                                        *)
EXTENDS OrnithServer, TLC

Req(k, a, s, t, m) == [kind |-> k, api |-> a, stream |-> s, tools |-> t, max |-> m]

\* One request per path through handle_connection and run_request.
AllRequests == {
  Req("page", "chat", FALSE, "absent", 1),
  Req("models", "chat", FALSE, "absent", 1),
  Req("unroutable", "chat", FALSE, "absent", 1),
  Req("invalid", "chat", TRUE, "absent", 1),
  Req("promptless", "responses", TRUE, "absent", 1),
  Req("generate", "chat", TRUE, "absent", 2),
  Req("generate", "responses", TRUE, "forbidden", 1),
  Req("generate", "anthropic", FALSE, "offered", 1) }

\* A stream, and a single response that surfaces tool calls.
GenRequests == { Req("generate", "chat", TRUE, "absent", 1),
                 Req("generate", "chat", FALSE, "offered", 2) }

StreamRequests == { Req("generate", "chat", TRUE, "absent", 2) }

\* With and without the engine.
FewRequests == { Req("page", "chat", FALSE, "absent", 1),
                 Req("generate", "chat", TRUE, "absent", 1) }

NoThreads == {}
AllThreads == Conns \cup {Main}
OnlyMain == {Main}
ConnSymmetry == Permutations(Conns)
==============================================================================
