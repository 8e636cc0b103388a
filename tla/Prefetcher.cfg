SPECIFICATION PrefetcherSpec
CONSTANTS
  Groups <- MCGroups
  Chunks = {0, 1, 2}
  ChunksOf <- MCChunksOf
  Dests = {"slot"}
  NoDest = "nullptr"
  MayFail = TRUE
INVARIANTS
  PrefetcherTypeOK
  OneJobPerGroup
PROPERTIES
  FreshResult
  StopReturns
  JobsLeaveQueue
