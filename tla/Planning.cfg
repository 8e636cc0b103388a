SPECIFICATION PipelineSpec
CONSTANTS
  Plans <- MCPlans
  Models <- MCModels
  Tables <- MCTables
  Alignment = 2
  BaseOffset = 1
INVARIANTS
  LookupFindsOwnChunk
  MetadataSizeSuffices
  PlanTilesTheList
  GroupsContiguous
  NeighboursFit
  NextGroupHasRoom
  SlotsInBuffer
  SlotsDisjoint
PROPERTIES
  PlanningEnds
