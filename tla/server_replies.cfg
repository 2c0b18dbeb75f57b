SPECIFICATION Spec
CONSTANTS
  Main = Main  NoConn = NoConn  Listener = Listener  Free = Free
  Conns = {c1, c2}
  Requests <- AllRequests
  NFds = 3
  Backlog = 2
  IdMod = 8
  MaxCalls = 2
  MaxStalls = 1
  SignalThreads <- NoThreads
  EngineMayFail = TRUE
PROPERTIES AnswerComplete
SYMMETRY ConnSymmetry
CHECK_DEADLOCK FALSE
