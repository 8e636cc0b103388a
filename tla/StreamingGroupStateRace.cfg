SPECIFICATION StreamSpec
CONSTANTS
  Chunks = {0, 1, 2, 3}
  ChunkAt <- MCChunkAt
  ChunkLen <- MCChunkLen
  Plan <- MCThreeGroups
  StatedTotal <- MCStatedTotal
  MetadataSize = 5
  DecodeSteps = 2
  MayFail = FALSE
INVARIANT
  GroupLookupUnraced
