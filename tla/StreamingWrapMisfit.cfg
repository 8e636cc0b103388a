SPECIFICATION StreamSpec
CONSTANTS
  Chunks = {0, 1, 2}
  ChunkAt <- MCWideAt
  ChunkLen <- MCWideLen
  Plan <- MCOneChunkGroups
  StatedTotal <- MCStatedTotal
  MetadataSize = 4
  DecodeSteps = 2
  MayFail = FALSE
INVARIANT
  ActiveSlotMatchesGroup
