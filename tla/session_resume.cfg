SPECIFICATION Spec
CONSTANTS
  Models <- MCModels
  Arch <- DistinctArch
  Tokens <- MCTokens
  Eos = 0
  Pick <- MCPick
  Prompts <- MCPrompts
  NPredicts <- MCNPredicts
  Slack = 1
  NLayers = 2
  MaxPos = 6
INVARIANTS Coherent ModelsMatch
PROPERTIES ContinuesLog
