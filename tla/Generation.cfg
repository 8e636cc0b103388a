SPECIFICATION ProfiledSpec
CONSTANTS
  Tokens = {1, 9}
  StopToken = 9
  Prompts <- MCPrompts
  SetUpScopes = 2
  SeqSizes = {2, 3}
  KvCacheMax = 3
  StepsFlags <- MCStepsFlags
  Threads = {t0, t1}
  Cpus = {c0, c1}
  MaxReads = 2
  MaxEvents = 2
SYMMETRY Symmetry
INVARIANTS
  ProfiledTypeOK
  ContextIsText
  StaysInCache
  NoReadCountedTwice
  QuietPhaseIsExact
