SPECIFICATION FairSpec
CONSTANTS
  f1 = f1
  Files <- MCFiles
  NoArg = NoArg
  Calls <- MCCalls
  MaxBlocks = 2
  Lines <- ShortLines
  Modes = {"prompt", "auto", "nohook"}
  MaxIters = 2
INVARIANTS
  TypeOK
  Transcript
  RefusalsTold
  FilesAccounted
  Outcome
PROPERTIES
  NeverUnasked
  LoopEnds
CHECK_DEADLOCK FALSE
