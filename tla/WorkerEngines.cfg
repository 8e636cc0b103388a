SPECIFICATION EnginesSpec
CONSTANTS
  Groups = {"g0", "g1"}
  Subreads <- MCSubreads
  RingDepth = 1
  MaxOutstanding = 1
  Prompt = {"g1"}
  MaxFailures = 1
  Sizes <- MCSizes
  SectorSize = 3
  Alignment = 6
  MinBlockSize = 4
  MaxThreads = 3
INVARIANTS
  EnginesTypeOK
  PendingMatchesRing
  ReportedIsRead
  JobInOnePlace
  EngineUsedByOne
  SuccessIsComplete
  ReadsStayInRange
  ConcurrentBlocksApart
PROPERTIES
  SlowReadsAreMarked
  StopReturns
