SPECIFICATION Spec
CHECK_DEADLOCK FALSE
CONSTANTS
  Hash <- MCHash
  Draws = 16
  Calls <- MCCalls
  Tokens = {"open", "close", "ws", "word", "call1", "{}"}
  MaxReply = 5
  ImStart = 1
  ImEnd = 2
  P = 13
  Heads = 2
  KvHeads = 1
  Garbage = 0
  NLayers = 2
  Interval = 2
  HeadDim = 2
  Rotary = 2
  OutputGate = TRUE
  NK = 2
  NV = 4
  KeyDim = 2
  ConvKernel = 3
  ExpertsPerTok = 2
  Vocab <- MCVocab
  W <- MCW
  Embd <- MCEmbd
  FinalNorm = 2
  LmHead <- MCLmHead
INVARIANTS
  
  
  
  
  ReferenceAgrees
  StoredWithinRounding
  DotsAgree
