SPECIFICATION GenerationSpec
CONSTANTS
  Tokens = {1, 9}
  StopToken = 9
  Prompts <- MCPrompts
  SetUpScopes = 2
  SeqSizes = {2, 4}
  KvCacheMax = 6
  StepsFlags <- MCStepsFlags
INVARIANT PromptIsComplete
CHECK_DEADLOCK FALSE
