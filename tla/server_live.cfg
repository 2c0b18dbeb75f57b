SPECIFICATION FairSpec
CONSTANTS
  Main = Main  NoConn = NoConn  Listener = Listener  Free = Free
  Conns = {c1, c2}
  Requests <- FewRequests
  NFds = 2
  Backlog = 2
  IdMod = 8
  MaxCalls = 2
  MaxStalls = 1
  SignalThreads <- OnlyMain
  EngineMayFail = TRUE
PROPERTIES   ShutdownCompletes
CHECK_DEADLOCK FALSE
