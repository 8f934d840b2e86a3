SPECIFICATION Spec
CONSTANTS
  MaxWidth = 6
  Power <- MCPower
  MaxInt = 50
  Flags = {"flag"}
  Repositories <- MCRepositories
  Categories = {1, 2}
  Entries <- MCEntries
  Scenes <- TiedScenes
  Requests <- OneRequest
  Processors = 1
  Unsteady = {}
  MaxChange = 1
INVARIANTS OrderIsDetermined
