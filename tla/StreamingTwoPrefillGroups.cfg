SPECIFICATION StreamSpec
CONSTANTS
  Chunks = {0, 1, 2, 3}
  ChunkAt <- MCChunkAt
  ChunkLen <- MCChunkLen
  Plan <- MCTwoPrefillGroups
  StatedTotal <- MCStatedTotal
  MetadataSize = 7
  DecodeSteps = 2
  MayFail = FALSE
INVARIANT
  ComputesOwnWeights
