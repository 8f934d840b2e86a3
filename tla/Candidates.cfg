SPECIFICATION FairSpec
CONSTANTS
  MaxWidth = 6
  Power <- MCPower
  MaxInt = 50
  Flags = {"flag"}
  Repositories <- MCRepositories
  Categories = {1, 2}
  Entries <- MCEntries
  Scenes <- MCScenes
  Requests <- MCRequests
  Processors = 1
  Unsteady <- MCUnsteady
  MaxChange = 1
INVARIANTS TypeOK SteadyIsAnswered MetadataIsWhole PositionIsRank OperatorsCutTheOrder DependenciesDecide
PROPERTIES ScanReturns
