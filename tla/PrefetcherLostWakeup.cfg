SPECIFICATION PrefetcherSpec
CONSTANTS
  Groups <- MCGroups
  Chunks = {0, 1, 2}
  ChunksOf <- MCChunksOf
  Dests = {"slot"}
  NoDest = "nullptr"
  MayFail = TRUE
PROPERTY
  ReadyWaiterReturns
