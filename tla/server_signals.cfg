SPECIFICATION Spec
CONSTANTS
  Main = Main  NoConn = NoConn  Listener = Listener  Free = Free
  Conns = {c1, c2}
  Requests <- GenRequests
  NFds = 3
  Backlog = 2
  IdMod = 3
  MaxCalls = 1
  MaxStalls = 0
  SignalThreads <- AllThreads
  EngineMayFail = FALSE
INVARIANTS TypeOK GenExclusive FdOwnership FinishHonest IdsUnique
PROPERTIES ServiceSpec
SYMMETRY ConnSymmetry
CHECK_DEADLOCK FALSE
