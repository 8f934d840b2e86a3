SPECIFICATION FairSpec
CONSTANTS
  Categories <- MCCategories
  Records <- MCRecords
  CategoryOf <- MCCategoryOf
  Required <- MCRequired
  Optional <- MCOptional
  Defects <- MCDefects
  Requests <- MCRequests
  Processors = 4
  MaxChange = 1
  Targets = {"new"}
  ModuleNames = {"a.ko", "b.ko"}
  Lines <- MCLines
  Inherits <- MCInherits
INVARIANTS TypeOK ScanIsACut EmptyIsExplained NothingLost RebuildsAreFound
PROPERTIES ScanReturns
