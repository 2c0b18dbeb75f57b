SPECIFICATION FairCommand
CONSTANTS
  Cap = 4
  Chunk = 3
  PipeSize = 2
  Statuses = {"exit 0", "exit 3", "signal"}
  SigPipe = "SIGPIPE"
  MaxOut = 8

  
  
PROPERTIES
  CommandEnds
CHECK_DEADLOCK FALSE
