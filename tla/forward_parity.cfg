SPECIFICATION Spec
CONSTANTS
  P = 13
  Heads = 2
  KvHeads = 1
  Garbage = 0
  Draws = 4
  NLayers = 3
  Interval = 2
  HeadDim = 2
  Rotary = 2
  NK = 2
  NV = 4
  KeyDim = 2
  ConvKernel = 3
  NExperts = 3
  ExpertsPerTok = 2
  Chunk = 2
  Vocab <- MCVocab
  Eos = 1
  W <- MCW
  Embd <- MCEmbd
  OutNorm = 2
  OutHead <- MCOutHead
  Params <- MCParams
  Prompts <- MCPrompts
  MaxPredict = 2
  Cap = 6
INVARIANTS
  StateInStep
  ConvWindow
  SameAsDecoding
